----------------------------- MODULE AsyncProofs -----------------------------
(***************************************************************************)
(* Proofs about AsyncProducer for any calls and bounds: what is stored is  *)
(* stored in the order the appends were called.                            *)
(***************************************************************************)
EXTENDS AsyncProducer, SequenceTheorems, WellFoundedInduction, TLAPS

IsSeq(s) == s \in Seq({s[k] : k \in 1..Len(s)})

\* A batch keeps the epoch and sequence it was emitted with.
Whole(r) ==
  /\ "epoch" \in DOMAIN r /\ "seq" \in DOMAIN r
  /\ r.epoch \in Nat /\ r.seq \in Nat

Batches ==
  /\ IsSeq(batches) /\ (\A b \in 1..Len(batches) : Whole(batches[b]))
  /\ epoch \in Nat /\ nextSeq \in Nat

\* Tuples grow with the batches: within an epoch by the sequence, and a
\* restart only moves to a later epoch.
Numbered ==
  \A b \in 1..Len(batches) : batches[b].epoch < epoch \/ (batches[b].epoch = epoch /\ batches[b].seq < nextSeq)

Before(e1, q1, e2, q2) == e1 < e2 \/ (e1 = e2 /\ q1 < q2)

Sorted ==
  \A a, b \in 1..Len(batches) :
    a < b => Before(batches[a].epoch, batches[a].seq, batches[b].epoch, batches[b].seq)

\* The server stands at or after the tuple of everything it stored.
Stored ==
  /\ log \in Seq(Nat) /\ sEpoch \in Nat /\ sLast \in Int /\ closeReq \in [epoch : Int, seq : Int]
  /\ \A i \in 1..Len(log) :
       /\ log[i] \in 0..Len(batches)
       /\ log[i] = 0 => sClosed # NoRequest
       /\ log[i] # 0 => ~Before(sEpoch, sLast, batches[log[i]].epoch, batches[log[i]].seq)

LogSorted ==
  \A i, j \in 1..Len(log) : i < j => log[i] # 0 /\ (log[j] # 0 => log[i] < log[j])

OrderInv == Batches /\ Numbered /\ Sorted /\ Stored /\ LogSorted

\* An append in the chain keeps later ones from overtaking it: it is in
\* `waits`, and nothing called after it has been admitted.
AdmitInv ==
  /\ made \in 0..MaxAppends /\ stage \in [Appends -> {"new", "chained", "admitted", "settled"}]
  /\ \A i \in Appends : stage[i] = "new" <=> i > made
  /\ admitted \in Seq(Appends)
  /\ \A p \in 1..Len(admitted) : admitted[p] <= made
  /\ \A i \in Appends : stage[i] = "chained" =>
       i \in waits /\ \A p \in 1..Len(admitted) : admitted[p] < i
  /\ \A p, q \in 1..Len(admitted) : p < q => admitted[p] < admitted[q]

-----------------------------------------------------------------------------
(* Sequences. *)

LEMMA SeqOfItself ==
  ASSUME NEW S, NEW s \in Seq(S)
  PROVE  IsSeq(s) /\ Len(s) \in Nat /\ s \in [1..Len(s) -> S] /\ DOMAIN s = 1..Len(s)
  <1>1. Len(s) \in Nat /\ s \in [1..Len(s) -> S] /\ DOMAIN s = 1..Len(s)
    BY LenProperties
  <1>2. s \in [1..Len(s) -> {s[k] : k \in 1..Len(s)}]
    BY <1>1
  <1> QED BY <1>1, <1>2, SeqDef DEF IsSeq

LEMMA SeqRebuilt ==
  ASSUME NEW n \in Nat, NEW s, s \in [1..n -> {s[k] : k \in 1..n}]
  PROVE  IsSeq(s) /\ Len(s) = n
  <1>1. s \in Seq({s[k] : k \in 1..n})
    BY SeqDef
  <1>2. Len(s) \in Nat /\ DOMAIN s = 1..Len(s) /\ IsSeq(s)
    BY <1>1, SeqOfItself
  <1>3. 1..n = 1..Len(s)
    BY <1>2
  <1>4. Len(s) = n
    BY <1>2, <1>3
  <1> QED BY <1>2, <1>4

-----------------------------------------------------------------------------
(* What a step does to the batches. *)

Same(s, t) ==
  /\ IsSeq(t) /\ Len(t) = Len(s)
  /\ \A b \in 1..Len(s) : Whole(t[b]) /\ t[b].epoch = s[b].epoch /\ t[b].seq = s[b].seq

Changed == Same(batches, batches') /\ epoch' = epoch /\ nextSeq' = nextSeq

\* A batch is emitted with the current tuple.
Emitting ==
  \/ batches' = batches /\ nextSeq' = nextSeq
  \/ \E r : /\ Whole(r) /\ r.epoch = epoch /\ r.seq = nextSeq
            /\ batches' = Append(batches, r) /\ nextSeq' = nextSeq + 1

\* restart, and a close that was stored.
Moving ==
  /\ batches' = batches /\ nextSeq' \in Nat
  /\ epoch' = epoch + 1 \/ (epoch' = epoch /\ nextSeq' = nextSeq + 1)

LEMMA EmitDoes ==
  ASSUME Batches, NEW adm, Emit(adm)
  PROVE  Emitting
  <1>1. CASE emitted = Len(adm)
    BY <1>1 DEF Emit, Emitting
  <1>2. CASE emitted # Len(adm)
    <2> DEFINE r == [first |-> emitted + 1, last |-> Len(adm), epoch |-> epoch, seq |-> nextSeq,
                     state |-> "queued", want |-> 0, on |-> 0]
    <2>1. Whole(r) /\ r.epoch = epoch /\ r.seq = nextSeq
      BY DEF Whole, Batches
    <2>2. batches' = Append(batches, r) /\ nextSeq' = nextSeq + 1
      BY <1>2 DEF Emit
    <2> HIDE DEF r
    <2> QED BY <2>1, <2>2 DEF Emitting
  <1> QED BY <1>1, <1>2

LEMMA SameAsIs ==
  ASSUME Batches
  PROVE  Same(batches, batches)
  BY DEF Batches, Same

\* One batch in another state.
LEMMA SameButOne ==
  ASSUME Batches, NEW b \in 1..Len(batches), NEW r,
         Whole(r), r.epoch = batches[b].epoch, r.seq = batches[b].seq,
         batches' = [batches EXCEPT ![b] = r]
  PROVE  Same(batches, batches')
  <1>1. /\ IsSeq(batches') /\ Len(batches') = Len(batches)
        /\ \A k \in 1..Len(batches) : batches'[k] = IF k = b THEN r ELSE batches[k]
    <2>1. Len(batches) \in Nat /\ DOMAIN batches = 1..Len(batches)
          /\ batches \in [1..Len(batches) -> {batches[k] : k \in 1..Len(batches)}]
      BY SeqOfItself DEF Batches, IsSeq
    <2>2. \A k \in 1..Len(batches) : batches'[k] = IF k = b THEN r ELSE batches[k]
      BY <2>1
    <2>3. batches' \in [1..Len(batches) -> {batches'[k] : k \in 1..Len(batches)}]
      BY <2>1
    <2>4. IsSeq(batches') /\ Len(batches') = Len(batches)
      BY <2>1, <2>3, SeqRebuilt
    <2> QED BY <2>2, <2>4
  <1> QED BY <1>1 DEF Same, Batches

LEMMA SameState ==
  ASSUME Batches, NEW b \in 1..Len(batches), NEW st,
         batches' = [batches EXCEPT ![b].state = st]
  PROVE  Same(batches, batches')
  <1> DEFINE r == [batches[b] EXCEPT !.state = st]
  <1>1. Whole(batches[b])
    BY DEF Batches
  <1>2. Whole(r) /\ r.epoch = batches[b].epoch /\ r.seq = batches[b].seq
    BY <1>1 DEF Whole
  <1>3. batches' = [batches EXCEPT ![b] = r]
    OBVIOUS
  <1> HIDE DEF r
  <1> QED BY <1>2, <1>3, SameButOne

LEMMA CompleteDoes ==
  ASSUME Batches, NEW b \in 1..Len(batches), NEW outcome, Complete(b, outcome)
  PROVE  Same(batches, batches')
  <1>1. batches' = [batches EXCEPT ![b].state = outcome]
    BY DEF Complete
  <1> QED BY <1>1, SameState

LEMMA AwaitDoes ==
  ASSUME Batches, NEW b \in 1..Len(batches), AwaitEarlier(b), epoch' = epoch /\ nextSeq' = nextSeq
  PROVE  Same(batches, batches')
  <1>1. CASE batches' = [batches EXCEPT ![b].state = "sent"]
    BY <1>1, SameState
  <1>2. CASE Complete(b, "fail")
    BY <1>2, CompleteDoes
  <1>3. CASE \E w, o : batches' = [batches EXCEPT ![b].state = "gapwait", ![b].want = w, ![b].on = o]
    <2>1. PICK w, o : batches' = [batches EXCEPT ![b].state = "gapwait", ![b].want = w, ![b].on = o]
      BY <1>3
    <2> DEFINE r == [batches[b] EXCEPT !.state = "gapwait", !.want = w, !.on = o]
    <2>2. Whole(batches[b])
      BY DEF Batches
    <2>3. Whole(r) /\ r.epoch = batches[b].epoch /\ r.seq = batches[b].seq
      BY <2>2 DEF Whole
    <2>4. batches' = [batches EXCEPT ![b] = r]
      BY <2>1
    <2> HIDE DEF r
    <2> QED BY <2>3, <2>4, SameButOne
  <1> QED BY <1>1, <1>2, <1>3 DEF AwaitEarlier

LEMMA WorkerDoes ==
  ASSUME Batches, Worker
  PROVE  Changed
  <1>1. PICK b \in 1..Len(batches) : Take(b) \/ Reply(b)
    BY DEF Worker
  <1>2. CASE Take(b)
    <2>1. batches' = [batches EXCEPT ![b].state = "sent"] /\ epoch' = epoch /\ nextSeq' = nextSeq
      BY <1>2 DEF Take, sequencing
    <2> QED BY <2>1, SameState DEF Changed
  <1>3. CASE Reply(b)
    <2>1. epoch' = epoch /\ nextSeq' = nextSeq
      BY <1>3 DEF Reply, AwaitEarlier, sequencing
    <2>2. (\E outcome : Complete(b, outcome)) \/ AwaitEarlier(b)
      BY <1>3 DEF Reply
    <2> QED BY <2>1, <2>2, CompleteDoes, AwaitDoes DEF Changed
  <1> QED BY <1>1, <1>2, <1>3

LEMMA ServeDoes ==
  ASSUME Batches, NEW b \in 1..Len(batches), Serve(b)
  PROVE  Changed
  <1>1. epoch' = epoch /\ nextSeq' = nextSeq
    BY DEF Serve, sequencing
  <1>2. CASE batches' = [batches EXCEPT ![b].state = "stored"]
    BY <1>1, <1>2, SameState DEF Changed
  <1>3. CASE \E st, w : batches' = [batches EXCEPT ![b].state = st, ![b].want = w]
    <2>1. PICK st, w : batches' = [batches EXCEPT ![b].state = st, ![b].want = w]
      BY <1>3
    <2> DEFINE r == [batches[b] EXCEPT !.state = st, !.want = w]
    <2>2. Whole(batches[b])
      BY DEF Batches
    <2>3. Whole(r) /\ r.epoch = batches[b].epoch /\ r.seq = batches[b].seq
      BY <2>2 DEF Whole
    <2>4. batches' = [batches EXCEPT ![b] = r]
      BY <2>1
    <2> HIDE DEF r
    <2> QED BY <1>1, <2>3, <2>4, SameButOne DEF Changed
  <1> QED BY <1>2, <1>3 DEF Serve

LEMMA FaultDoes ==
  ASSUME Batches, Fault
  PROVE  Changed
  <1>1. epoch' = epoch /\ nextSeq' = nextSeq
    BY DEF Fault, sequencing
  <1>2. CASE \E b \in 1..Len(batches) : batches' = [batches EXCEPT ![b].state = "refused"]
    BY <1>1, <1>2, SameState DEF Changed
  <1>3. CASE batches' = batches
    BY <1>1, <1>3, SameAsIs DEF Changed
  <1> QED BY <1>2, <1>3 DEF Fault

LEMMA AbortDoes ==
  ASSUME Batches, Abort
  PROVE  Changed
  <1>1. epoch' = epoch /\ nextSeq' = nextSeq
    BY DEF Abort
  <1>2. CASE batches' = batches
    BY <1>1, <1>2, SameAsIs DEF Changed
  <1>3. CASE batches' # batches
    <2>1. batches' = [b \in 1..Len(batches) |->
                        IF batches[b].state \in Settled THEN batches[b]
                        ELSE [batches[b] EXCEPT !.state = "lost", !.want = 0, !.on = 0]]
      BY <1>3 DEF Abort
    <2>2. Len(batches) \in Nat
      BY LenProperties DEF Batches, IsSeq
    <2>3. batches' \in [1..Len(batches) -> {batches'[k] : k \in 1..Len(batches)}]
      BY <2>1
    <2>4. IsSeq(batches') /\ Len(batches') = Len(batches)
      BY <2>2, <2>3, SeqRebuilt
    <2>5. ASSUME NEW b \in 1..Len(batches)
          PROVE  Whole(batches'[b]) /\ batches'[b].epoch = batches[b].epoch
                 /\ batches'[b].seq = batches[b].seq
      <3>1. Whole(batches[b])
        BY DEF Batches
      <3>2. batches'[b] = IF batches[b].state \in Settled THEN batches[b]
                          ELSE [batches[b] EXCEPT !.state = "lost", !.want = 0, !.on = 0]
        BY <2>1
      <3> QED BY <3>1, <3>2 DEF Whole
    <2> QED BY <1>1, <2>4, <2>5 DEF Same, Changed
  <1> QED BY <1>2, <1>3

-----------------------------------------------------------------------------
(* What a step does to the server. *)

TupleOf(b) == [epoch |-> batches[b].epoch, seq |-> batches[b].seq]

Storing ==
  \/ UNCHANGED server
  \/ \E b \in 1..Len(batches) : Accepts(TupleOf(b)) /\ Store(b, TupleOf(b))
  \/ Accepts(closeReq) /\ Store(0, closeReq)

LEMMA StepDoes ==
  ASSUME Batches, [Next]_vars
  PROVE  /\ Storing
         /\ Changed \/ (epoch' = epoch /\ Emitting) \/ Moving
  <1> USE DEF sequencing, server, closing, calls, ingress, entries, environment
  <1>0. Same(batches, batches)
    BY SameAsIs
  <1>1. CASE AppendCall
    <2>1. UNCHANGED server /\ epoch' = epoch
      BY <1>1 DEF AppendCall
    <2>2. Emitting
      <3>1. CASE batches' = batches /\ nextSeq' = nextSeq
        BY <3>1 DEF Emitting
      <3>2. CASE Emit(admitted')
        BY <3>2, EmitDoes
      <3> QED BY <1>1, <3>1, <3>2 DEF AppendCall, Admit
    <2> QED BY <2>1, <2>2 DEF Storing
  <1>2. CASE Started
    BY <1>0, <1>2 DEF Started, Storing, Changed
  <1>3. CASE Worker
    <2>1. UNCHANGED server
      BY <1>3 DEF Worker
    <2> QED BY <1>3, <2>1, WorkerDoes DEF Storing
  <1>4. CASE Linger
    <2>1. UNCHANGED server /\ epoch' = epoch /\ Emit(admitted)
      BY <1>4 DEF Linger
    <2> QED BY <2>1, EmitDoes DEF Storing
  <1>5. ASSUME NEW i \in Appends, Ingress(i)
        PROVE  Storing /\ epoch' = epoch /\ Emitting
    <2>1. UNCHANGED server /\ epoch' = epoch
      BY <1>5 DEF Ingress
    <2>2. CASE batches' = batches /\ nextSeq' = nextSeq
      BY <2>1, <2>2 DEF Emitting, Storing
    <2>3. CASE Emit(admitted')
      BY <2>1, <2>3, EmitDoes DEF Storing
    <2> QED BY <1>5, <2>2, <2>3 DEF Ingress, Admit
  <1>6. ASSUME NEW b \in 1..Len(batches), Serve(b)
        PROVE  Storing /\ Changed
    <2>1. UNCHANGED server \/ (Accepts(TupleOf(b)) /\ Store(b, TupleOf(b)))
      BY <1>6 DEF Serve, TupleOf
    <2> QED BY <1>6, <2>1, ServeDoes DEF Storing
  <1>7. ASSUME NEW c \in Closes, ServeClose(c)
        PROVE  Storing /\ Changed
    BY <1>0, <1>7 DEF ServeClose, Storing, Changed
  <1>8. CASE Fault
    <2>1. UNCHANGED server
      BY <1>8 DEF Fault
    <2> QED BY <1>8, <2>1, FaultDoes DEF Storing
  <1>9. CASE Abort
    <2>1. UNCHANGED server
      BY <1>9 DEF Abort
    <2> QED BY <1>9, <2>1, AbortDoes DEF Storing
  <1>10. ASSUME NEW c \in Calls, Begin(c) \/ Drained(c) \/ Acquire(c) \/ Unacquired(c) \/ Release(c) \/ Rejected(c)
         PROVE  Storing /\ Changed
    BY <1>0, <1>10 DEF Begin, Drained, Acquire, Unacquired, Release, Rejected, Storing, Changed
  <1>11. ASSUME NEW c \in Calls, IngressDone(c) \/ Enter(c)
         PROVE  Storing /\ epoch' = epoch /\ Emitting
    <2>1. UNCHANGED server /\ epoch' = epoch
      BY <1>11 DEF IngressDone, Enter
    <2>2. CASE batches' = batches /\ nextSeq' = nextSeq
      BY <2>1, <2>2 DEF Emitting, Storing
    <2>3. CASE Emit(admitted)
      BY <2>1, <2>3, EmitDoes DEF Storing
    <2> QED BY <1>11, <2>2, <2>3 DEF IngressDone, Enter, Drain
  <1>12. ASSUME NEW c \in Calls, InnerDrained(c) \/ CloseAnswered(c)
         PROVE  Storing /\ (Changed \/ Moving)
    <2>1. epoch \in Nat /\ nextSeq \in Nat /\ nextSeq + 1 \in Nat
      BY DEF Batches
    <2>2. CASE InnerDrained(c)
      <3>1. batches' = batches /\ UNCHANGED server
        BY <2>2 DEF InnerDrained
      <3>2. (epoch' = epoch /\ nextSeq' = nextSeq) \/ (epoch' = epoch + 1 /\ nextSeq' = 0)
        BY <2>2 DEF InnerDrained
      <3>3. Same(batches, batches')
        BY <1>0, <3>1
      <3>4. CASE epoch' = epoch /\ nextSeq' = nextSeq
        BY <3>1, <3>3, <3>4 DEF Storing, Changed
      <3>5. CASE epoch' = epoch + 1 /\ nextSeq' = 0
        <4>1. Storing
          BY <3>1 DEF Storing
        <4>2. Moving
          BY <2>1, <3>1, <3>5 DEF Moving
        <4> QED BY <4>1, <4>2
      <3> QED BY <3>2, <3>4, <3>5
    <2>3. CASE CloseAnswered(c)
      <3>1. batches' = batches /\ UNCHANGED server /\ epoch' = epoch
        BY <2>3 DEF CloseAnswered
      <3>2. nextSeq' = nextSeq \/ nextSeq' = nextSeq + 1
        BY <2>3 DEF CloseAnswered
      <3> QED BY <1>0, <2>1, <3>1, <3>2 DEF Storing, Changed, Moving
    <2> QED BY <1>12, <2>2, <2>3
  <1>13. CASE UNCHANGED vars
    BY <1>0, <1>13 DEF vars, Storing, Changed
  <1> QED BY <1>1, <1>2, <1>3, <1>4, <1>5, <1>6, <1>7, <1>8, <1>9, <1>10, <1>11, <1>12, <1>13
          DEF Next, Client, Answering, Call

-----------------------------------------------------------------------------
(* The order of the log. *)

Grown ==
  /\ Len(batches') \in Nat /\ Len(batches) <= Len(batches')
  /\ \A b \in 1..Len(batches) : batches'[b].epoch = batches[b].epoch /\ batches'[b].seq = batches[b].seq

LEMMA BatchesStep ==
  ASSUME Batches, Numbered, Sorted, [Next]_vars
  PROVE  Batches' /\ Numbered' /\ Sorted' /\ Grown
  <1>0. /\ Len(batches) \in Nat /\ epoch \in Nat /\ nextSeq \in Nat
        /\ \A b \in 1..Len(batches) : batches[b].epoch \in Nat /\ batches[b].seq \in Nat
    BY LenProperties DEF Batches, IsSeq, Whole
  <1>1. CASE Changed
    <2>1. /\ IsSeq(batches') /\ Len(batches') = Len(batches) /\ epoch' = epoch /\ nextSeq' = nextSeq
          /\ \A b \in 1..Len(batches) : /\ Whole(batches'[b]) /\ batches'[b].epoch = batches[b].epoch
                                        /\ batches'[b].seq = batches[b].seq
      BY <1>1 DEF Changed, Same
    <2>2. Batches'
      <3>1. IsSeq(batches)' /\ (\A b \in 1..Len(batches) : Whole(batches[b]))'
        BY <2>1 DEF IsSeq, Whole
      <3> QED BY <1>0, <2>1, <3>1 DEF Batches
    <2>3. Numbered'
      BY <2>1 DEF Numbered
    <2>4. Sorted'
      BY <2>1 DEF Sorted, Before
    <2>5. Grown
      BY <1>0, <2>1 DEF Grown
    <2> QED BY <2>2, <2>3, <2>4, <2>5
  <1>2. CASE epoch' = epoch /\ Emitting
    <2>1. CASE batches' = batches /\ nextSeq' = nextSeq
      BY <1>0, <1>2, <2>1 DEF Batches, IsSeq, Whole, Numbered, Sorted, Before, Grown
    <2>2. CASE ~(batches' = batches /\ nextSeq' = nextSeq)
      <3>1. PICK r : /\ Whole(r) /\ r.epoch = epoch /\ r.seq = nextSeq
                     /\ batches' = Append(batches, r) /\ nextSeq' = nextSeq + 1
        BY <1>2, <2>2 DEF Emitting
      <3> DEFINE n == Len(batches)
      <3>2. /\ IsSeq(batches') /\ Len(batches') = n + 1 /\ batches'[n + 1] = r
            /\ \A k \in 1..n : batches'[k] = batches[k]
        <4> DEFINE S == {batches[k] : k \in 1..n} \cup {r}
        <4>1. batches \in Seq(S) /\ r \in S /\ batches' = Append(batches, r)
          BY <3>1, SeqMonotonic DEF Batches, IsSeq
        <4> HIDE DEF S
        <4>2. /\ batches' \in Seq(S) /\ Len(batches') = n + 1 /\ batches'[n + 1] = r
              /\ \A k \in 1..n : batches'[k] = batches[k]
          BY <4>1, AppendProperties
        <4> QED BY <4>2, SeqOfItself
      <3>3. \A k \in 1..(n + 1) : k \in 1..n \/ k = n + 1
        BY <1>0
      <3>4. Batches'
        <4>1. \A b \in 1..Len(batches') : Whole(batches'[b])
          BY <3>1, <3>2, <3>3 DEF Batches
        <4>2. IsSeq(batches)' /\ (\A b \in 1..Len(batches) : Whole(batches[b]))'
          BY <3>2, <4>1 DEF IsSeq, Whole
        <4> QED BY <1>0, <1>2, <3>1, <4>2 DEF Batches
      <3>5. Numbered'
        BY <1>0, <1>2, <3>1, <3>2, <3>3 DEF Numbered
      <3>6. Sorted'
        <4>1. SUFFICES ASSUME NEW a \in 1..(n + 1), NEW b \in 1..(n + 1), a < b
                       PROVE  Before(batches'[a].epoch, batches'[a].seq, batches'[b].epoch, batches'[b].seq)
          BY <3>2 DEF Sorted, Before
        <4>2. a \in 1..n /\ batches'[a] = batches[a]
          BY <1>0, <3>2, <4>1
        <4>3. CASE b \in 1..n
          BY <3>2, <4>1, <4>2, <4>3 DEF Sorted
        <4>4. CASE b = n + 1
          BY <3>1, <3>2, <4>2, <4>4 DEF Numbered, Before
        <4> QED BY <3>3, <4>3, <4>4
      <3>7. Grown
        BY <1>0, <3>2 DEF Grown
      <3> QED BY <3>4, <3>5, <3>6, <3>7
    <2> QED BY <2>1, <2>2
  <1>3. CASE Moving
    <2>1. /\ batches' = batches /\ nextSeq' \in Nat
          /\ epoch' = epoch + 1 \/ (epoch' = epoch /\ nextSeq' = nextSeq + 1)
      BY <1>3 DEF Moving
    <2>2. Batches'
      <3>1. IsSeq(batches)' /\ (\A b \in 1..Len(batches) : Whole(batches[b]))'
        BY <2>1 DEF IsSeq, Whole, Batches
      <3> QED BY <1>0, <2>1, <3>1 DEF Batches
    <2>3. Numbered'
      BY <1>0, <2>1 DEF Numbered
    <2>4. Sorted'
      BY <2>1 DEF Sorted, Before
    <2>5. Grown
      BY <1>0, <2>1 DEF Grown
    <2> QED BY <2>2, <2>3, <2>4, <2>5
  <1> QED BY <1>1, <1>2, <1>3, StepDoes

\* The server only stores what comes after all it has.
LEMMA StoredBefore ==
  ASSUME OrderInv, sClosed = NoRequest, NEW b \in 1..Len(batches), Accepts(TupleOf(b))
  PROVE  /\ Before(sEpoch, sLast, batches[b].epoch, batches[b].seq)
         /\ \A i \in 1..Len(log) : log[i] # 0 /\ log[i] < b
  <1>0. /\ Len(batches) \in Nat /\ sEpoch \in Nat /\ sLast \in Int
        /\ \A a \in 1..Len(batches) : batches[a].epoch \in Nat /\ batches[a].seq \in Nat
    BY LenProperties DEF OrderInv, Stored, Batches, IsSeq, Whole
  <1>1. Before(sEpoch, sLast, batches[b].epoch, batches[b].seq)
    BY <1>0 DEF Accepts, TupleOf, Before
  <1>2. ASSUME NEW i \in 1..Len(log)
        PROVE  log[i] # 0 /\ log[i] < b
    <2>1. /\ log[i] \in 1..Len(batches)
          /\ ~Before(sEpoch, sLast, batches[log[i]].epoch, batches[log[i]].seq)
      BY <1>0 DEF OrderInv, Stored
    <2>2. log[i] # b
      BY <1>1, <2>1
    <2>3. ASSUME b < log[i] PROVE FALSE
      <3>1. Before(batches[b].epoch, batches[b].seq, batches[log[i]].epoch, batches[log[i]].seq)
        BY <2>1, <2>3 DEF OrderInv, Sorted
      <3> QED BY <1>0, <1>1, <2>1, <3>1 DEF Before
    <2> QED BY <1>0, <2>1, <2>2, <2>3
  <1> QED BY <1>1, <1>2

LEMMA CloseRequestStep ==
  ASSUME Batches, Stored, [Next]_vars
  PROVE  closeReq' \in [epoch : Int, seq : Int]
  <1> USE DEF closing
  <1>0. closeReq \in [epoch : Int, seq : Int] /\ NoRequest \in [epoch : Int, seq : Int]
        /\ [epoch |-> epoch, seq |-> nextSeq] \in [epoch : Int, seq : Int]
    BY DEF Batches, Stored, NoRequest
  <1>1. CASE AppendCall \/ Client \/ Answering \/ Fault \/ Abort
    <2>1. closeReq' = closeReq
      BY <1>1 DEF AppendCall, Client, Started, Worker, Linger, Ingress, Answering, Serve, ServeClose, Fault, Abort
    <2> QED BY <1>0, <2>1
  <1>2. ASSUME NEW c \in Calls, Begin(c) \/ IngressDone(c) \/ Drained(c) \/ Acquire(c) \/ Unacquired(c)
                               \/ Enter(c) \/ CloseAnswered(c) \/ Release(c) \/ Rejected(c)
        PROVE  closeReq' \in [epoch : Int, seq : Int]
    <2>1. closeReq' = closeReq
      BY <1>2 DEF Begin, IngressDone, Drained, Acquire, Unacquired, Enter, CloseAnswered, Release, Rejected
    <2> QED BY <1>0, <2>1
  <1>3. ASSUME NEW c \in Calls, InnerDrained(c)
        PROVE  closeReq' \in [epoch : Int, seq : Int]
    <2>1. closeReq' \in {closeReq, NoRequest, [epoch |-> epoch, seq |-> nextSeq]}
      BY <1>3 DEF InnerDrained
    <2> QED BY <1>0, <2>1
  <1>4. CASE UNCHANGED vars
    BY <1>0, <1>4 DEF vars
  <1> QED BY <1>1, <1>2, <1>3, <1>4 DEF Next, Call

LEMMA OrderStep ==
  ASSUME OrderInv, [Next]_vars
  PROVE  OrderInv'
  <1>1. Batches' /\ Numbered' /\ Sorted' /\ Grown
    BY BatchesStep DEF OrderInv
  <1>2. /\ Len(batches) \in Nat /\ Len(log) \in Nat /\ log \in Seq(Nat) /\ sEpoch \in Nat /\ sLast \in Int
        /\ \A a \in 1..Len(batches) : batches[a].epoch \in Nat /\ batches[a].seq \in Nat
    BY LenProperties DEF OrderInv, Stored, Batches, IsSeq, Whole
  <1>3. Storing
    BY StepDoes DEF OrderInv
  <1>r. closeReq' \in [epoch : Int, seq : Int]
    BY CloseRequestStep DEF OrderInv
  <1>4. CASE UNCHANGED server
    <2>1. UNCHANGED <<sEpoch, sLast, sClosed, log>>
      BY <1>4 DEF server
    <2>2. Stored'
      <3>1. \A i \in 1..Len(log) : log[i] \in 0..Len(batches')
        <4>1. \A i \in 1..Len(log) : log[i] \in 0..Len(batches)
          BY DEF OrderInv, Stored
        <4>2. Len(batches') \in Nat /\ Len(batches) <= Len(batches')
          BY <1>1 DEF Grown
        <4> QED BY <1>2, <4>1, <4>2
      <3>2. \A i \in 1..Len(log) : log[i] # 0 => /\ batches'[log[i]].epoch = batches[log[i]].epoch
                                                 /\ batches'[log[i]].seq = batches[log[i]].seq
        <4>1. \A i \in 1..Len(log) : log[i] # 0 => log[i] \in 1..Len(batches)
          BY <1>2 DEF OrderInv, Stored
        <4> QED BY <1>1, <4>1 DEF Grown
      <3> QED BY <1>2, <1>r, <2>1, <3>1, <3>2 DEF OrderInv, Stored
    <2>3. LogSorted'
      BY <2>1 DEF OrderInv, LogSorted
    <2> QED BY <1>1, <2>2, <2>3 DEF OrderInv
  <1>5. ASSUME NEW s \in 0..Len(batches), NEW e, NEW q, e \in Nat, q \in Int,
               sEpoch' = e, sLast' = q, log' = Append(log, s), sClosed = NoRequest,
               s = 0 => sClosed' # NoRequest,
               s # 0 => e = batches[s].epoch /\ q = batches[s].seq,
               Before(sEpoch, sLast, e, q),
               \A i \in 1..Len(log) : log[i] # 0 /\ (s # 0 => log[i] < s)
        PROVE  OrderInv'
    <2> DEFINE n == Len(log)
    <2>0. s \in Nat
      BY <1>2
    <2>1. /\ log' \in Seq(Nat) /\ Len(log') = n + 1 /\ log'[n + 1] = s
          /\ \A k \in 1..n : log'[k] = log[k]
      BY <1>2, <1>5, <2>0, AppendProperties
    <2>2. \A k \in 1..(n + 1) : k \in 1..n \/ k = n + 1
      BY <1>2
    <2>3. Stored'
      <3>1. ASSUME NEW i \in 1..(n + 1)
            PROVE  /\ log'[i] \in 0..Len(batches')
                   /\ log'[i] = 0 => sClosed' # NoRequest
                   /\ log'[i] # 0 => ~Before(sEpoch', sLast', batches'[log'[i]].epoch, batches'[log'[i]].seq)
        <4>1. CASE i = n + 1
          <5>1. s \in 0..Len(batches')
            BY <1>1, <1>2 DEF Grown
          <5>2. s # 0 => batches'[s].epoch = e /\ batches'[s].seq = q
            BY <1>1, <1>2, <1>5 DEF Grown
          <5> QED BY <1>5, <2>1, <4>1, <5>1, <5>2 DEF Before
        <4>2. CASE i \in 1..n
          <5>1. /\ log'[i] = log[i] /\ log[i] # 0 /\ log[i] \in 1..Len(batches)
                /\ ~Before(sEpoch, sLast, batches[log[i]].epoch, batches[log[i]].seq)
            BY <1>2, <1>5, <2>1, <4>2 DEF OrderInv, Stored
          <5>2. /\ log[i] \in 0..Len(batches') /\ batches'[log[i]].epoch = batches[log[i]].epoch
                /\ batches'[log[i]].seq = batches[log[i]].seq
            BY <1>1, <1>2, <5>1 DEF Grown
          <5>3. batches[log[i]].epoch \in Nat /\ batches[log[i]].seq \in Nat
            BY <1>2, <5>1
          <5>4. ~Before(e, q, batches[log[i]].epoch, batches[log[i]].seq)
            <6> DEFINE x == batches[log[i]].epoch
                       y == batches[log[i]].seq
            <6>1. x \in Nat /\ y \in Nat /\ ~Before(sEpoch, sLast, x, y) /\ Before(sEpoch, sLast, e, q)
              BY <1>5, <5>1, <5>3
            <6> HIDE DEF x, y
            <6>2. ~Before(e, q, x, y)
              BY <1>2, <1>5, <6>1 DEF Before
            <6> QED BY <6>2 DEF x, y
          <5> QED BY <1>5, <5>1, <5>2, <5>4
        <4> QED BY <2>2, <4>1, <4>2
      <3>2. sEpoch' \in Nat /\ sLast' \in Int
        BY <1>5
      <3> QED BY <1>r, <2>1, <3>1, <3>2 DEF Stored, Before
    <2>4. LogSorted'
      <3>1. SUFFICES ASSUME NEW i \in 1..(n + 1), NEW j \in 1..(n + 1), i < j
                     PROVE  log'[i] # 0 /\ (log'[j] # 0 => log'[i] < log'[j])
        BY <2>1 DEF LogSorted
      <3>2. i \in 1..n /\ log'[i] = log[i] /\ log[i] # 0
        BY <1>2, <1>5, <2>1, <3>1
      <3>3. CASE j = n + 1
        BY <1>5, <2>1, <3>2, <3>3
      <3>4. CASE j \in 1..n
        BY <2>1, <3>1, <3>2, <3>4 DEF OrderInv, LogSorted
      <3> QED BY <2>2, <3>3, <3>4
    <2> QED BY <1>1, <2>3, <2>4 DEF OrderInv
  <1>6. ASSUME NEW b \in 1..Len(batches), Accepts(TupleOf(b)), Store(b, TupleOf(b))
        PROVE  OrderInv'
    <2>1. sClosed = NoRequest
      BY <1>6 DEF Accepts
    <2>2. /\ Before(sEpoch, sLast, batches[b].epoch, batches[b].seq)
          /\ \A i \in 1..Len(log) : log[i] # 0 /\ log[i] < b
      BY <1>6, <2>1, StoredBefore
    <2>3. sEpoch' = batches[b].epoch /\ sLast' = batches[b].seq /\ log' = Append(log, b)
      BY <1>6 DEF Store, TupleOf
    <2>4. batches[b].epoch \in Nat /\ batches[b].seq \in Int /\ b # 0 /\ b \in 0..Len(batches)
      BY <1>2
    <2> QED BY <1>5, <2>1, <2>2, <2>3, <2>4
  <1>7. CASE Accepts(closeReq) /\ Store(0, closeReq)
    <2>1. sClosed = NoRequest /\ sEpoch' = closeReq.epoch /\ sLast' = closeReq.seq /\ log' = Append(log, 0)
          /\ sClosed' = closeReq
      BY <1>7 DEF Accepts, Store
    <2>2. closeReq \in [epoch : Int, seq : Int]
      BY DEF OrderInv, Stored
    <2>3. Before(sEpoch, sLast, closeReq.epoch, closeReq.seq) /\ closeReq.epoch \in Nat /\ closeReq.seq \in Int
      BY <1>2, <1>7, <2>2 DEF Accepts, Before
    <2>4. sClosed' # NoRequest
      BY <2>1, <2>3 DEF NoRequest
    <2>5. \A i \in 1..Len(log) : log[i] # 0
      BY <2>1 DEF OrderInv, Stored
    <2> QED BY <1>2, <1>5, <2>1, <2>3, <2>4, <2>5
  <1> QED BY <1>3, <1>4, <1>6, <1>7 DEF Storing

-----------------------------------------------------------------------------
(* The order of admission. *)

LEMMA Admits ==
  ASSUME AdmitInv, NEW i \in Appends, Admit(i)
  PROVE  /\ stage' = [stage EXCEPT ![i] = "admitted"]
         /\ admitted' \in Seq(Appends)
         /\ \A p \in 1..Len(admitted') : admitted'[p] = i \/ \E q \in 1..Len(admitted) : admitted'[p] = admitted[q]
         /\ (\A p \in 1..Len(admitted) : admitted[p] < i) =>
              \A p, q \in 1..Len(admitted') : p < q => admitted'[p] < admitted'[q]
  <1>0. admitted \in Seq(Appends) /\ Len(admitted) \in Nat /\ (\A p \in 1..Len(admitted) : admitted[p] \in Appends)
    BY LenProperties, ElementOfSeq DEF AdmitInv
  <1>1. stage' = [stage EXCEPT ![i] = "admitted"]
    BY DEF Admit
  <1>2. CASE admitted' = admitted
    BY <1>0, <1>1, <1>2 DEF AdmitInv
  <1>3. CASE admitted' = Append(admitted, i)
    <2> DEFINE n == Len(admitted)
    <2>1. /\ admitted' \in Seq(Appends) /\ Len(admitted') = n + 1 /\ admitted'[n + 1] = i
          /\ \A p \in 1..n : admitted'[p] = admitted[p]
      BY <1>0, <1>3, AppendProperties
    <2>2. \A p \in 1..(n + 1) : p \in 1..n \/ p = n + 1
      BY <1>0
    <2>3. ASSUME \A p \in 1..n : admitted[p] < i, NEW p \in 1..(n + 1), NEW q \in 1..(n + 1), p < q
          PROVE  admitted'[p] < admitted'[q]
      <3>1. p \in 1..n /\ admitted'[p] = admitted[p]
        BY <1>0, <2>1, <2>3
      <3>2. CASE q = n + 1
        BY <2>1, <2>3, <3>1, <3>2
      <3>3. CASE q \in 1..n
        <4>1. admitted'[q] = admitted[q]
          BY <2>1, <3>3
        <4> QED BY <2>3, <3>1, <3>3, <4>1 DEF AdmitInv
      <3> QED BY <2>2, <3>2, <3>3
    <2> QED BY <1>1, <2>1, <2>2, <2>3
  <1> QED BY <1>2, <1>3 DEF Admit

LEMMA AdmitStep ==
  ASSUME AdmitInv, [Next]_vars
  PROVE  AdmitInv'
  <1> USE DEF ingress, entries
  <1>0. /\ MaxAppends \in Nat /\ made \in 0..MaxAppends
        /\ stage \in [Appends -> {"new", "chained", "admitted", "settled"}]
        /\ admitted \in Seq(Appends) /\ Len(admitted) \in Nat
        /\ \A p \in 1..Len(admitted) : admitted[p] \in Appends /\ admitted[p] <= made
        /\ \A i \in Appends : i \in Nat \ {0} /\ i <= MaxAppends
    BY AsyncAssumption, LenProperties, ElementOfSeq DEF AdmitInv, Appends
  <1>1. CASE AppendCall
    <2> DEFINE i == made + 1
    <2>1. i \in Appends /\ made' = i /\ i \in 0..MaxAppends
      BY <1>0, <1>1 DEF AppendCall, Appends
    <2>2. stage[i] = "new" /\ \A p \in 1..Len(admitted) : admitted[p] < i /\ admitted[p] <= i
      BY <1>0, <2>1 DEF AdmitInv
    <2> HIDE DEF i
    <2>3. CASE Direct /\ Admit(made') /\ UNCHANGED waits
      <3>1. Admit(i) /\ waits = {} /\ waits' = waits
        BY <2>1, <2>3 DEF Direct
      <3>2. /\ stage' = [stage EXCEPT ![i] = "admitted"] /\ admitted' \in Seq(Appends)
            /\ \A p \in 1..Len(admitted') : admitted'[p] = i \/ \E q \in 1..Len(admitted) : admitted'[p] = admitted[q]
            /\ \A p, q \in 1..Len(admitted') : p < q => admitted'[p] < admitted'[q]
        BY <2>1, <2>2, <3>1, Admits
      <3>3. \A k \in Appends : stage'[k] # "chained"
        BY <1>0, <3>1, <3>2 DEF AdmitInv
      <3>4. \A k \in Appends : stage'[k] = "new" <=> k > made'
        BY <1>0, <2>1, <3>2 DEF AdmitInv, i
      <3>5. \A p \in 1..Len(admitted') : admitted'[p] <= made'
        <4>1. i <= made'
          BY <1>0, <2>1
        <4> QED BY <2>1, <2>2, <3>2, <4>1
      <3>6. stage' \in [Appends -> {"new", "chained", "admitted", "settled"}]
        BY <1>0, <3>2
      <3> QED BY <2>1, <3>2, <3>3, <3>4, <3>5, <3>6 DEF AdmitInv
    <2>4. CASE waits' = waits \cup {made'} /\ stage' = [stage EXCEPT ![made'] = "chained"] /\ UNCHANGED entries
      <3>1. /\ waits' = waits \cup {i} /\ stage' = [stage EXCEPT ![i] = "chained"] /\ admitted' = admitted
        BY <2>1, <2>4
      <3>2. \A k \in Appends : stage'[k] = "new" <=> k > made'
        BY <1>0, <2>1, <3>1 DEF AdmitInv, i
      <3>3. \A p \in 1..Len(admitted') : admitted'[p] <= made'
        BY <2>1, <2>2, <3>1
      <3>4. stage' \in [Appends -> {"new", "chained", "admitted", "settled"}]
        BY <1>0, <3>1
      <3>5. \A k \in Appends : stage'[k] = "chained" =>
              k \in waits' /\ \A p \in 1..Len(admitted') : admitted'[p] < k
        BY <1>0, <2>2, <3>1 DEF AdmitInv
      <3> QED BY <2>1, <3>1, <3>2, <3>3, <3>4, <3>5 DEF AdmitInv
    <2> QED BY <1>1, <2>3, <2>4 DEF AppendCall
  <1>2. ASSUME NEW i \in Appends, Ingress(i)
        PROVE  AdmitInv'
    <2>0. made' = made /\ \A j \in Appends : j < i => stage[j] = "settled"
      <3>1. \A j \in Appends : j < i => j \in 1..(i - 1)
        BY <1>0
      <3> QED BY <1>2, <3>1 DEF Ingress
    <2>1. CASE stage[i] = "chained" /\ Admit(i) /\ UNCHANGED waits
      <3>1. i <= made /\ \A p \in 1..Len(admitted) : admitted[p] < i
        BY <1>0, <2>1 DEF AdmitInv
      <3>2. /\ stage' = [stage EXCEPT ![i] = "admitted"] /\ admitted' \in Seq(Appends)
            /\ \A p \in 1..Len(admitted') : admitted'[p] = i \/ \E q \in 1..Len(admitted) : admitted'[p] = admitted[q]
            /\ \A p, q \in 1..Len(admitted') : p < q => admitted'[p] < admitted'[q]
        BY <2>1, <3>1, Admits
      <3>3. ASSUME NEW k \in Appends, stage'[k] = "chained"
            PROVE  k \in waits' /\ \A p \in 1..Len(admitted') : admitted'[p] < k
        <4>1. k # i /\ stage[k] = "chained"
          BY <1>0, <3>2, <3>3
        <4>2. i < k
          BY <1>0, <2>0, <4>1
        <4>3. k \in waits /\ \A p \in 1..Len(admitted) : admitted[p] < k
          BY <4>1 DEF AdmitInv
        <4> QED BY <2>1, <3>2, <4>2, <4>3
      <3>4. \A k \in Appends : stage'[k] = "new" <=> k > made'
        BY <1>0, <2>0, <2>1, <3>2 DEF AdmitInv
      <3>5. \A p \in 1..Len(admitted') : admitted'[p] <= made'
        BY <1>0, <2>0, <3>1, <3>2
      <3>6. stage' \in [Appends -> {"new", "chained", "admitted", "settled"}]
        BY <1>0, <3>2
      <3> QED BY <1>0, <2>0, <3>2, <3>3, <3>4, <3>5, <3>6 DEF AdmitInv
    <2>2. CASE /\ stage[i] \in {"chained", "admitted"} /\ admitted' = admitted
               /\ \/ stage' = [stage EXCEPT ![i] = "admitted"] /\ waits' = waits
                  \/ stage' = [stage EXCEPT ![i] = "settled"] /\ waits' = waits \ {i}
      <3>1. ASSUME NEW k \in Appends, stage'[k] = "chained"
            PROVE  k \in waits' /\ \A p \in 1..Len(admitted') : admitted'[p] < k
        <4>1. k # i /\ stage[k] = "chained"
          BY <1>0, <2>2, <3>1
        <4> QED BY <2>2, <4>1 DEF AdmitInv
      <3>2. \A k \in Appends : stage'[k] = "new" <=> k > made'
        BY <1>0, <2>0, <2>2 DEF AdmitInv
      <3>3. stage' \in [Appends -> {"new", "chained", "admitted", "settled"}]
        BY <1>0, <2>2
      <3> QED BY <1>0, <2>0, <2>2, <3>1, <3>2, <3>3 DEF AdmitInv
    <2> QED BY <1>2, <2>1, <2>2 DEF Ingress
  <1>3. CASE UNCHANGED <<made, stage, waits, admitted>>
    BY <1>3 DEF AdmitInv
  <1>4. Started \/ Worker \/ Linger \/ Answering \/ Fault \/ Abort => UNCHANGED <<made, stage, waits, admitted>>
    BY DEF Started, Worker, Linger, Answering, Serve, ServeClose, Fault, Abort
  <1>5. ASSUME NEW c \in Calls, Begin(c) \/ Call(c)
        PROVE  UNCHANGED <<made, stage, waits, admitted>>
    BY <1>5 DEF Begin, Call, IngressDone, Drained, Acquire, Unacquired, Enter, InnerDrained, CloseAnswered,
                Release, Rejected
  <1>6. CASE UNCHANGED vars
    BY <1>6, <1>3 DEF vars
  <1> QED BY <1>1, <1>2, <1>3, <1>4, <1>5, <1>6 DEF Next, Client

-----------------------------------------------------------------------------
(* The theorem. *)

LEMMA InitOrder == Init => OrderInv /\ AdmitInv
  <1> SUFFICES ASSUME Init PROVE OrderInv /\ AdmitInv
    OBVIOUS
  <1>1. /\ batches = <<>> /\ epoch = 0 /\ nextSeq = 0 /\ log = <<>> /\ admitted = <<>> /\ made = 0
        /\ stage = [i \in Appends |-> "new"] /\ sEpoch = 0 /\ sLast = -1 /\ closeReq = NoRequest
    BY DEF Init
  <1>2. \A S : <<>> \in Seq(S) /\ Len(<<>>) = 0
    BY EmptySeq
  <1>3. Batches /\ Numbered /\ Sorted
    BY <1>1, <1>2 DEF Batches, IsSeq, Numbered, Sorted
  <1>4. Stored /\ LogSorted
    BY <1>1, <1>2 DEF Stored, LogSorted, NoRequest
  <1>5. AdmitInv
    BY <1>1, <1>2, AsyncAssumption DEF AdmitInv, Appends
  <1> QED BY <1>3, <1>4, <1>5 DEF OrderInv

(* What is stored is stored in the order the appends were called, for any  *)
(* number of calls and appends, batch sizes and workers: batches that      *)
(* overtake each other, restarted epochs, appends that join while the      *)
(* coordinator starts, and nothing after the close (IdempotentProducer in  *)
(* async-await.ts over the coordinator of producer.ts).                    *)
THEOREM CallOrder == Spec => []LogInCallOrder
  <1>1. OrderInv /\ AdmitInv /\ [Next]_vars => (OrderInv /\ AdmitInv)'
    BY OrderStep, AdmitStep
  <1>2. OrderInv /\ AdmitInv => LogInCallOrder
    BY DEF OrderInv, LogSorted, AdmitInv, LogInCallOrder
  <1> QED BY <1>1, <1>2, InitOrder, PTL DEF Spec

-----------------------------------------------------------------------------
(* Types. *)

BatchRecord ==
  [first : Nat, last : Nat, epoch : Nat, seq : Nat, want : Int, on : Nat,
   state : Settled \cup Working \cup {"queued"}]

\* There are no more batches than entries, nor sequences than batches; the
\* close takes one more, once.
CountInv ==
  /\ \A p \in 1..Len(admitted) : p <= admitted[p]
  /\ Len(batches) <= emitted
  /\ nextSeq <= Len(batches) + (IF closeResult THEN 1 ELSE 0)
  /\ \A b \in 1..Len(batches) : batches[b].seq <= b
  /\ through \in -1..MaxAppends

\* Between entering and leaving, close and restart hold the semaphore.
UnderLifecycle ==
  \A c \in Calls :
    /\ pc[c] \in {"inner", "sending", "answered"} => lifecycle = c
    /\ pc[c] \in {"inner", "sending", "answered"} /\ c \in Closes => ~closeResult
    /\ pc[c] \in {"sending", "answered"} => c \in Closes

AsyncInv == OrderInv /\ AdmitInv /\ AsyncTypeOK /\ CountInv /\ UnderLifecycle

LEMMA LeastOf ==
  ASSUME NEW S \in SUBSET Nat, S # {}
  PROVE  \E x \in S : \A y \in S : x <= y
  <1> DEFINE less == OpToRel(<, Nat)
  <1>1. \E x \in S : \A y \in S : <<y, x>> \notin less
    <2>1. IsWellFoundedOn(less, Nat)
      BY NatLessThanWellFounded
    <2> HIDE DEF less
    <2> QED BY WFMin, <2>1
  <1>2. \A x, y \in Nat : <<y, x>> \notin less => x <= y
    BY DEF OpToRel
  <1> HIDE DEF less
  <1> QED BY <1>1, <1>2

LEMMA AsyncFacts ==
  ASSUME AsyncInv
  PROVE  /\ Len(batches) \in Nat /\ Len(admitted) \in Nat /\ emitted \in Nat /\ made \in Nat
         /\ MaxAppends \in Nat /\ BatchSize \in Nat \ {0} /\ made <= MaxAppends
         /\ epoch \in Nat /\ nextSeq \in Nat /\ through \in Int /\ failSeq \in Int
         /\ emitted <= Len(admitted) /\ Len(admitted) <= made /\ Len(batches) <= emitted
         /\ batches \in Seq(BatchRecord) /\ batches \in [1..Len(batches) -> BatchRecord]
         /\ admitted \in Seq(Appends)
         /\ known \in [0..MaxAppends -> 0..Len(batches)]
         /\ \A b \in 1..Len(batches) : batches[b] \in BatchRecord
  <1>1. /\ emitted \in 0..Len(admitted) /\ made \in 0..MaxAppends
        /\ epoch \in Nat /\ nextSeq \in Nat /\ through \in Int /\ failSeq \in Int
        /\ known \in [0..MaxAppends -> 0..Len(batches)] /\ admitted \in Seq(Appends)
    BY DEF AsyncInv, AsyncTypeOK
  <1>2. batches \in Seq(BatchRecord)
    BY DEF AsyncInv, AsyncTypeOK, BatchRecord
  <1>3. Len(batches) \in Nat /\ Len(admitted) \in Nat
    BY <1>1, <1>2, LenProperties
  <1>4. batches \in [1..Len(batches) -> BatchRecord]
    BY <1>2, LenProperties
  <1>5. Len(admitted) <= made
    <2>1. CASE Len(admitted) = 0
      BY <1>1, <2>1, AsyncAssumption
    <2>2. CASE Len(admitted) # 0
      <3>1. Len(admitted) \in 1..Len(admitted)
        BY <1>3, <2>2
      <3>2. /\ Len(admitted) <= admitted[Len(admitted)] /\ admitted[Len(admitted)] <= made
            /\ admitted[Len(admitted)] \in Appends
        BY <1>1, <3>1, ElementOfSeq DEF AsyncInv, CountInv, AdmitInv
      <3> QED
        BY <1>1, <1>3, <3>2, AsyncAssumption DEF Appends
    <2> QED
      BY <2>1, <2>2
  <1> QED
    BY <1>1, <1>2, <1>3, <1>4, <1>5, AsyncAssumption DEF AsyncInv, CountInv

\* A batch of what is pending, if anything is.
LEMMA EmitShape ==
  ASSUME AsyncInv, NEW adm, Len(adm) \in Nat, emitted <= Len(adm), Emit(adm)
  PROVE  \/ /\ emitted = Len(adm) /\ UNCHANGED <<emitted, batches, nextSeq, known>>
         \/ /\ emitted < Len(adm) /\ emitted' = Len(adm) /\ nextSeq' = nextSeq + 1
            /\ Len(batches') = Len(batches) + 1 /\ batches' \in Seq(BatchRecord)
            /\ \A b \in 1..Len(batches) : batches'[b] = batches[b]
            /\ batches'[Len(batches) + 1] =
                 [first |-> emitted + 1, last |-> Len(adm), epoch |-> epoch, seq |-> nextSeq,
                  state |-> "queued", want |-> 0, on |-> 0]
            /\ known' = [known EXCEPT ![nextSeq] = Len(batches) + 1]
            /\ known' \in [0..MaxAppends -> 0..Len(batches')]
  <1>1. CASE emitted = Len(adm)
    BY <1>1 DEF Emit
  <1>2. CASE emitted # Len(adm)
    <2> DEFINE r == [first |-> emitted + 1, last |-> Len(adm), epoch |-> epoch, seq |-> nextSeq,
                     state |-> "queued", want |-> 0, on |-> 0]
    <2>1. /\ emitted < Len(adm) /\ emitted' = Len(adm) /\ nextSeq' = nextSeq + 1
          /\ batches' = Append(batches, r)
          /\ known' = [known EXCEPT ![nextSeq] = Len(batches) + 1]
      BY <1>2, AsyncFacts DEF Emit
    <2>2. r \in BatchRecord
      BY AsyncFacts DEF BatchRecord
    <2>3. r = [first |-> emitted + 1, last |-> Len(adm), epoch |-> epoch, seq |-> nextSeq,
               state |-> "queued", want |-> 0, on |-> 0]
      OBVIOUS
    <2> HIDE DEF r
    <2>4. /\ batches' \in Seq(BatchRecord) /\ Len(batches') = Len(batches) + 1
          /\ batches'[Len(batches) + 1] = r
          /\ \A b \in 1..Len(batches) : batches'[b] = batches[b]
      BY <2>1, <2>2, AsyncFacts, AppendProperties
    <2>5. known' \in [0..MaxAppends -> 0..Len(batches')]
      <3>1. known \in [0..MaxAppends -> 0..Len(batches)] /\ Len(batches) \in Nat
        BY AsyncFacts
      <3>2. known \in [0..MaxAppends -> 0..Len(batches')] /\ Len(batches) + 1 \in 0..Len(batches')
        BY <2>4, <3>1
      <3> QED
        BY <2>1, <3>2
    <2> QED
      BY <2>1, <2>3, <2>4, <2>5
  <1> QED
    BY <1>1, <1>2

\* What settling a batch does to the sequencing.
LEMMA CompleteShape ==
  ASSUME AsyncInv, NEW b \in 1..Len(batches), NEW outcome, Complete(b, outcome)
  PROVE  /\ batches' = [batches EXCEPT ![b].state = outcome]
         /\ through' \in -1..MaxAppends /\ through <= through'
         /\ known' = [s \in 0..MaxAppends |->
                        IF s \in (through + 1)..through' THEN 0 ELSE known[s]]
         /\ failSeq' = IF outcome = "fail" /\ (failSeq = -1 \/ batches[b].seq < failSeq)
                       THEN batches[b].seq ELSE failSeq
  <1> DEFINE done(s) == /\ s \in DOMAIN known /\ known[s] # 0
                        /\ (known[s] = b \/ batches[known[s]].state \in Settled)
             Good(t) == (\A s \in (through + 1)..t : done(s)) /\ ~done(t + 1)
             reached == CHOOSE t \in through..MaxAppends : Good(t)
  <1>1. /\ through \in -1..MaxAppends /\ MaxAppends \in Nat /\ DOMAIN known = 0..MaxAppends
    BY AsyncFacts DEF AsyncInv, CountInv
  <1>2. \E t \in through..MaxAppends : Good(t)
    <2> DEFINE S == {n \in Nat : n - 1 \in through..MaxAppends /\ ~done(n)}
    <2>1. MaxAppends + 1 \in S
      BY <1>1
    <2>2. PICK n \in S : \A m \in S : n <= m
      <3>1. S \in SUBSET Nat /\ S # {}
        BY <2>1
      <3> HIDE DEF S
      <3> QED
        BY <3>1, LeastOf
    <2>3. n \in Nat /\ n - 1 \in through..MaxAppends /\ ~done(n)
      OBVIOUS
    <2>4. ASSUME NEW s \in (through + 1)..(n - 1) PROVE done(s)
      <3>1. s \in Nat /\ s - 1 \in through..MaxAppends /\ ~(n <= s)
        BY <1>1, <2>3
      <3>2. s \notin S
        BY <2>2, <3>1
      <3> QED
        BY <3>1, <3>2
    <2>5. (n - 1) + 1 = n
      BY <2>3
    <2> HIDE DEF done
    <2>6. Good(n - 1)
      BY <2>3, <2>4, <2>5
    <2> QED
      BY <2>3, <2>6
  <1>3. reached \in through..MaxAppends
    <2> HIDE DEF Good
    <2> QED
      BY <1>2
  <1>4. /\ batches' = [batches EXCEPT ![b].state = outcome]
        /\ failSeq' = IF outcome = "fail" /\ (failSeq = -1 \/ batches[b].seq < failSeq)
                      THEN batches[b].seq ELSE failSeq
        /\ through' = reached
        /\ known' = [s \in DOMAIN known |-> IF s \in (through + 1)..reached THEN 0 ELSE known[s]]
    BY DEF Complete
  <1> HIDE DEF reached
  <1> QED
    BY <1>1, <1>3, <1>4

LEMMA Edited ==
  ASSUME NEW r \in BatchRecord, NEW st \in Settled \cup Working \cup {"queued"},
         NEW w \in Int, NEW o \in Nat
  PROVE  /\ [r EXCEPT !.state = st] \in BatchRecord
         /\ [r EXCEPT !.state = st].seq = r.seq /\ [r EXCEPT !.state = st].first = r.first
         /\ [r EXCEPT !.state = st].state = st
         /\ [r EXCEPT !.state = st, !.want = w, !.on = o] \in BatchRecord
         /\ [r EXCEPT !.state = st, !.want = w, !.on = o].seq = r.seq
         /\ [r EXCEPT !.state = st, !.want = w, !.on = o].first = r.first
         /\ [r EXCEPT !.state = st, !.want = w, !.on = o].state = st
  BY DEF BatchRecord

\* A request that is not accepted is rejected, or told of a gap.
LEMMA RefusalShape ==
  ASSUME AsyncInv, NEW t, NEW answer \in Refusals(t)
  PROVE  answer.state \in {"refused", "gap"} /\ answer.want \in Int
  <1>1. sLast \in Int
    BY DEF AsyncInv, AsyncTypeOK
  <1> QED
    BY <1>1 DEF Refusals

LEMMA StateOnly ==
  ASSUME AsyncInv, NEW b \in 1..Len(batches), NEW st \in Settled \cup Working \cup {"queued"},
         batches' = [batches EXCEPT ![b].state = st]
  PROVE  batches' = [batches EXCEPT ![b] = [batches[b] EXCEPT !.state = st]]
         /\ [batches[b] EXCEPT !.state = st] \in BatchRecord
  <1>1. batches[b] \in BatchRecord /\ batches \in [1..Len(batches) -> BatchRecord]
    BY AsyncFacts
  <1> QED
    BY <1>1 DEF BatchRecord

\* A batch that met a gap is sent again, given up, or waits for the first
\* earlier one that is open.
LEMMA AwaitShape ==
  ASSUME AsyncInv, NEW b \in 1..Len(batches), AwaitEarlier(b)
  PROVE  \/ batches' = [batches EXCEPT ![b].state = "sent"] /\ UNCHANGED sequencing
         \/ \E s \in 0..MaxAppends :
              /\ s \in Earlier(b) /\ s > through
              /\ \/ known[s] = 0 /\ Complete(b, "fail") /\ UNCHANGED <<epoch, nextSeq>>
                 \/ /\ known[s] \in 1..Len(batches) /\ UNCHANGED sequencing
                    /\ batches' = [batches EXCEPT ![b].state = "gapwait", ![b].want = s + 1,
                                                  ![b].on = known[s]]
  <1> DEFINE open == {s \in Earlier(b) :
                        s > through /\ (known[s] = 0 \/ batches[known[s]].state \notin Settled)}
             s == CHOOSE t \in open : \A u \in open : t <= u
  <1>1. CASE open = {}
    BY <1>1 DEF AwaitEarlier
  <1>2. CASE open # {}
    <2>1. /\ batches[b].want \in Int /\ batches[b].seq \in Nat /\ batches[b].seq <= MaxAppends
          /\ through \in -1..MaxAppends /\ MaxAppends \in Nat
          /\ known \in [0..MaxAppends -> 0..Len(batches)]
      <3>1. batches[b].want \in Int /\ batches[b].seq \in Nat
        BY AsyncFacts DEF BatchRecord
      <3>2. batches[b].seq <= b /\ through \in -1..MaxAppends
        BY DEF AsyncInv, CountInv
      <3> QED
        BY <3>1, <3>2, AsyncFacts
    <2>2. \A t \in open : t \in Nat /\ t <= MaxAppends /\ t \in Earlier(b) /\ t > through
      BY <2>1 DEF Earlier
    <2>3. s \in open
      <3>1. \E x \in open : \A y \in open : x <= y
        <4> HIDE DEF open
        <4> QED
          BY <1>2, <2>2, LeastOf
      <3> HIDE DEF open
      <3> QED
        BY <3>1
    <2>4. s \in 0..MaxAppends /\ s \in Earlier(b) /\ s > through
      <3> HIDE DEF s, open
      <3> QED
        BY <2>1, <2>2, <2>3
    <2>5. IF known[s] = 0 THEN Complete(b, "fail") /\ UNCHANGED <<epoch, nextSeq>>
          ELSE /\ batches' = [batches EXCEPT ![b].state = "gapwait", ![b].want = s + 1,
                                             ![b].on = known[s]]
               /\ UNCHANGED sequencing
      BY <1>2 DEF AwaitEarlier
    <2> HIDE DEF s, open
    <2>6. known[s] \in 0..Len(batches)
      BY <2>1, <2>4
    <2>7. known[s] # 0 => known[s] \in 1..Len(batches)
      BY <2>6, AsyncFacts
    <2> QED
      BY <2>4, <2>5, <2>7
  <1> QED
    BY <1>1, <1>2

\* What a worker does, whichever case it is.
LEMMA WorkerShape ==
  ASSUME AsyncInv, NEW b \in 1..Len(batches), Take(b) \/ Reply(b)
  PROVE  /\ \E r \in BatchRecord : batches' = [batches EXCEPT ![b] = r]
         /\ through' \in -1..MaxAppends /\ failSeq' \in Int
         /\ known' \in [0..MaxAppends -> 0..Len(batches)]
         /\ UNCHANGED <<epoch, nextSeq>>
  <1>0. /\ batches[b] \in BatchRecord /\ known \in [0..MaxAppends -> 0..Len(batches)]
        /\ failSeq \in Int /\ through \in -1..MaxAppends /\ Len(batches) \in Nat
    BY AsyncFacts DEF AsyncInv, CountInv
  <1>1. ASSUME NEW st \in Settled \cup Working \cup {"queued"},
               batches' = [batches EXCEPT ![b].state = st]
        PROVE  \E r \in BatchRecord : batches' = [batches EXCEPT ![b] = r]
    BY <1>1, StateOnly
  <1>2. ASSUME NEW outcome \in {"ok", "fail"}, Complete(b, outcome)
        PROVE  /\ \E r \in BatchRecord : batches' = [batches EXCEPT ![b] = r]
               /\ through' \in -1..MaxAppends /\ failSeq' \in Int
               /\ known' \in [0..MaxAppends -> 0..Len(batches)]
    <2>1. /\ batches' = [batches EXCEPT ![b].state = outcome]
          /\ through' \in -1..MaxAppends
          /\ known' = [s \in 0..MaxAppends |->
                        IF s \in (through + 1)..through' THEN 0 ELSE known[s]]
          /\ failSeq' \in {batches[b].seq, failSeq}
      BY <1>2, CompleteShape
    <2>2. failSeq' \in Int
      BY <1>0, <2>1 DEF BatchRecord
    <2>3. known' \in [0..MaxAppends -> 0..Len(batches)]
      BY <1>0, <2>1
    <2>4. outcome \in Settled
      BY DEF Settled
    <2> QED
      BY <1>1, <2>1, <2>2, <2>3, <2>4
  <1>3. ASSUME AwaitEarlier(b)
        PROVE  /\ \E r \in BatchRecord : batches' = [batches EXCEPT ![b] = r]
               /\ through' \in -1..MaxAppends /\ failSeq' \in Int
               /\ known' \in [0..MaxAppends -> 0..Len(batches)]
               /\ UNCHANGED <<epoch, nextSeq>>
    <2>1. CASE batches' = [batches EXCEPT ![b].state = "sent"] /\ UNCHANGED sequencing
      BY <1>0, <1>1, <2>1 DEF sequencing, Working
    <2>2. CASE Complete(b, "fail") /\ UNCHANGED <<epoch, nextSeq>>
      BY <1>2, <2>2
    <2>3. ASSUME NEW s \in 0..MaxAppends, known[s] \in 1..Len(batches), UNCHANGED sequencing,
                 batches' = [batches EXCEPT ![b].state = "gapwait", ![b].want = s + 1,
                                            ![b].on = known[s]]
          PROVE  /\ \E r \in BatchRecord : batches' = [batches EXCEPT ![b] = r]
                 /\ UNCHANGED sequencing
      <3> DEFINE r == [batches[b] EXCEPT !.state = "gapwait", !.want = s + 1, !.on = known[s]]
      <3>1. s + 1 \in Int /\ known[s] \in Nat
        BY <1>0, <2>3
      <3>2. r \in BatchRecord
        BY <1>0, <3>1 DEF BatchRecord, Working
      <3>3. batches' = [batches EXCEPT ![b] = r]
        BY <2>3
      <3> QED
        BY <2>3, <3>2, <3>3
    <2> QED
      BY <1>0, <1>3, <2>1, <2>2, <2>3, AwaitShape DEF sequencing
  <1>4. CASE Take(b)
    BY <1>0, <1>1, <1>4 DEF Take, sequencing, Working
  <1>5. CASE Reply(b)
    BY <1>2, <1>3, <1>5 DEF Reply
  <1> QED
    BY <1>4, <1>5

\* A step that changes batches one at a time, or closes all.
LEMMA ReplacedShape ==
  ASSUME AsyncInv, NEW b \in 1..Len(batches), NEW r \in BatchRecord,
         batches' = [batches EXCEPT ![b] = r]
  PROVE  /\ batches' \in Seq(BatchRecord) /\ Len(batches') = Len(batches)
         /\ \A a \in 1..Len(batches) : batches'[a] = IF a = b THEN r ELSE batches[a]
  <1>1. batches \in Seq(BatchRecord)
    BY AsyncFacts
  <1> QED
    BY <1>1, ExceptSeq

LEMMA AbortShape ==
  ASSUME AsyncInv, Abort
  PROVE  /\ batches' \in Seq(BatchRecord) /\ Len(batches') = Len(batches)
         /\ known' \in [0..MaxAppends -> 0..Len(batches)]
         /\ \/ UNCHANGED <<mode, batches, known>>
            \/ /\ mode' = "stopped"
               /\ \A b \in 1..Len(batches) : batches[b].state \in Settled => batches'[b] = batches[b]
         /\ \A b \in 1..Len(batches) : batches'[b].first = batches[b].first
  <1>0. /\ batches \in [1..Len(batches) -> BatchRecord] /\ Len(batches) \in Nat
        /\ known \in [0..MaxAppends -> 0..Len(batches)] /\ batches \in Seq(BatchRecord)
    BY AsyncFacts
  <1>1. CASE UNCHANGED <<mode, batches, known>>
    BY <1>0, <1>1
  <1>2. CASE ~UNCHANGED <<mode, batches, known>>
    <2>1. /\ mode' = "stopped" /\ known' = [q \in DOMAIN known |-> 0]
          /\ batches' = [b \in 1..Len(batches) |->
                           IF batches[b].state \in Settled THEN batches[b]
                           ELSE [batches[b] EXCEPT !.state = "lost", !.want = 0, !.on = 0]]
      BY <1>2 DEF Abort
    <2>2. ASSUME NEW b \in 1..Len(batches)
          PROVE  /\ batches'[b] \in BatchRecord /\ batches'[b].first = batches[b].first
                 /\ batches[b].state \in Settled => batches'[b] = batches[b]
      <3>1. batches[b] \in BatchRecord
        BY <1>0
      <3> DEFINE st == "lost"
                 z == 0
      <3>2. batches'[b] = IF batches[b].state \in Settled THEN batches[b]
                          ELSE [batches[b] EXCEPT !.state = st, !.want = z, !.on = z]
        BY <2>1
      <3>3. st \in Settled \cup Working \cup {"queued"} /\ z \in Int /\ z \in Nat
        BY DEF Settled
      <3> HIDE DEF st, z
      <3>4. [batches[b] EXCEPT !.state = st, !.want = z, !.on = z] \in BatchRecord
            /\ [batches[b] EXCEPT !.state = st, !.want = z, !.on = z].first = batches[b].first
        BY <3>1, <3>3 DEF BatchRecord
      <3> QED
        BY <3>1, <3>2, <3>4
    <2>3. batches' \in [1..Len(batches) -> BatchRecord]
      BY <2>1, <2>2
    <2>4. batches' \in Seq(BatchRecord) /\ Len(batches') = Len(batches)
      <3>1. batches' \in Seq(BatchRecord)
        BY <1>0, <2>3, SeqDef
      <3> QED
        BY <1>0, <2>3, <3>1, LenProperties
    <2>5. known' \in [0..MaxAppends -> 0..Len(batches)]
      <3>1. DOMAIN known = 0..MaxAppends /\ 0 \in 0..Len(batches)
        BY <1>0
      <3> QED
        BY <2>1, <3>1
    <2> QED
      BY <2>1, <2>2, <2>4, <2>5
  <1> QED
    BY <1>1, <1>2

\* What is queued after any step: types, and the counts.
LEMMA QueueStep ==
  ASSUME AsyncInv, [Next]_vars
  PROVE  /\ batches' \in Seq(BatchRecord) /\ known' \in [0..MaxAppends -> 0..Len(batches')]
         /\ Len(batches) <= Len(batches') /\ Len(batches') <= emitted'
         /\ emitted' \in 0..Len(admitted') /\ through' \in -1..MaxAppends /\ failSeq' \in Int
         /\ nextSeq' <= Len(batches') + (IF closeResult' THEN 1 ELSE 0)
         /\ \A b \in 1..Len(batches') : batches'[b].seq <= b
  <1> USE DEF sequencing, server, closing, calls, ingress, entries, environment
  <1>0. /\ Len(batches) \in Nat /\ Len(admitted) \in Nat /\ emitted \in Nat /\ nextSeq \in Nat
        /\ emitted <= Len(admitted) /\ Len(batches) <= emitted /\ batches \in Seq(BatchRecord)
        /\ known \in [0..MaxAppends -> 0..Len(batches)]
        /\ (\A b \in 1..Len(batches) : batches[b] \in BatchRecord /\ batches[b].seq <= b)
        /\ through \in -1..MaxAppends /\ failSeq \in Int /\ closeResult \in BOOLEAN
        /\ nextSeq <= Len(batches) + (IF closeResult THEN 1 ELSE 0)
    BY AsyncFacts DEF AsyncInv, CountInv, AsyncTypeOK
  <1> DEFINE Goal ==
        /\ batches' \in Seq(BatchRecord) /\ known' \in [0..MaxAppends -> 0..Len(batches')]
        /\ Len(batches) <= Len(batches') /\ Len(batches') <= emitted'
        /\ emitted' \in 0..Len(admitted') /\ through' \in -1..MaxAppends /\ failSeq' \in Int
        /\ nextSeq' <= Len(batches') + (IF closeResult' THEN 1 ELSE 0)
        /\ \A b \in 1..Len(batches') : batches'[b].seq <= b
  <1>1. ASSUME UNCHANGED <<batches, known, emitted, through, failSeq, nextSeq, closeResult>>,
               Len(admitted') \in Nat, Len(admitted) <= Len(admitted')
        PROVE  Goal
    BY <1>0, <1>1
  <1>2. ASSUME NEW adm, Len(adm) \in Nat, emitted <= Len(adm), Emit(adm),
               Len(admitted') \in Nat, Len(adm) <= Len(admitted'),
               UNCHANGED <<through, failSeq, closeResult>>
        PROVE  Goal
    <2>1. CASE emitted = Len(adm) /\ UNCHANGED <<emitted, batches, nextSeq, known>>
      BY <1>0, <1>2, <2>1
    <2>2. CASE /\ emitted < Len(adm) /\ emitted' = Len(adm) /\ nextSeq' = nextSeq + 1
               /\ Len(batches') = Len(batches) + 1 /\ batches' \in Seq(BatchRecord)
               /\ \A b \in 1..Len(batches) : batches'[b] = batches[b]
               /\ batches'[Len(batches) + 1] =
                    [first |-> emitted + 1, last |-> Len(adm), epoch |-> epoch, seq |-> nextSeq,
                     state |-> "queued", want |-> 0, on |-> 0]
               /\ known' \in [0..MaxAppends -> 0..Len(batches')]
      <3>1. \A b \in 1..Len(batches') : batches'[b].seq <= b
        <4> SUFFICES ASSUME NEW b \in 1..Len(batches') PROVE batches'[b].seq <= b
          OBVIOUS
        <4>1. CASE b \in 1..Len(batches)
          BY <1>0, <2>2, <4>1
        <4>2. CASE b = Len(batches) + 1
          <5>1. batches'[b].seq = nextSeq
            BY <2>2, <4>2
          <5> QED
            BY <1>0, <4>2, <5>1
        <4> QED
          BY <1>0, <2>2, <4>1, <4>2
      <3> QED
        BY <1>0, <1>2, <2>2, <3>1
    <2> QED
      BY <1>2, <2>1, <2>2, EmitShape
  <1>3. ASSUME NEW b \in 1..Len(batches), NEW r \in BatchRecord,
               batches' = [batches EXCEPT ![b] = r], r.seq = batches[b].seq,
               known' \in [0..MaxAppends -> 0..Len(batches)],
               through' \in -1..MaxAppends, failSeq' \in Int,
               UNCHANGED <<admitted, emitted, nextSeq, closeResult>>
        PROVE  Goal
    <2>1. /\ batches' \in Seq(BatchRecord) /\ Len(batches') = Len(batches)
          /\ \A a \in 1..Len(batches) : batches'[a] = IF a = b THEN r ELSE batches[a]
      BY <1>3, ReplacedShape
    <2> QED
      BY <1>0, <1>3, <2>1
  <1>s. Batches /\ Numbered /\ Sorted
    BY DEF AsyncInv, OrderInv
  <1>g. Grown
    BY <1>s, BatchesStep
  <1>4. ASSUME NEW i \in Appends, Admit(i), UNCHANGED <<through, failSeq, closeResult>>
        PROVE  Goal
    <2>1. CASE admitted' = Append(admitted, i)
      <3>1. Len(admitted') = Len(admitted) + 1
        BY <2>1, AsyncFacts, AppendProperties
      <3>2. CASE Emit(admitted')
        <4>1. Len(admitted') \in Nat /\ emitted <= Len(admitted') /\ Len(admitted') <= Len(admitted')
          BY <1>0, <3>1
        <4> QED
          BY <1>2, <1>4, <3>2, <4>1
      <3>3. CASE UNCHANGED <<emitted, batches, nextSeq, known>>
        BY <1>0, <1>1, <1>4, <3>1, <3>3
      <3> QED
        BY <1>4, <2>1, <3>2, <3>3 DEF Admit
    <2>2. CASE UNCHANGED <<admitted, emitted, batches, nextSeq, known>>
      BY <1>0, <1>1, <1>4, <2>2
    <2> QED
      BY <1>4, <2>1, <2>2 DEF Admit
  <1>5. CASE AppendCall
    <2>1. made' = made + 1 /\ made < MaxAppends /\ UNCHANGED <<through, failSeq, closeResult>>
      BY <1>5 DEF AppendCall
    <2>2. made' \in Appends
      BY <2>1, AsyncFacts DEF Appends
    <2>3. CASE Admit(made')
      BY <1>4, <2>1, <2>2, <2>3
    <2>4. CASE UNCHANGED <<entries, batches, nextSeq, known>>
      BY <1>0, <1>1, <2>1, <2>4
    <2> QED
      BY <1>5, <2>3, <2>4 DEF AppendCall
  <1>6. ASSUME NEW i \in Appends, Ingress(i) PROVE Goal
    <2>1. UNCHANGED <<through, failSeq, closeResult>>
      BY <1>6 DEF Ingress
    <2>2. CASE Admit(i)
      BY <1>4, <2>1, <2>2
    <2>3. CASE UNCHANGED <<admitted, emitted, batches, nextSeq, known>>
      BY <1>0, <1>1, <2>1, <2>3
    <2> QED
      BY <1>6, <2>2, <2>3 DEF Ingress
  <1>7. CASE Started
    BY <1>0, <1>1, <1>7 DEF Started
  <1>8. CASE Linger
    BY <1>0, <1>2, <1>8 DEF Linger
  <1>9. CASE Worker
    <2>1. PICK b \in 1..Len(batches) : Take(b) \/ Reply(b)
      BY <1>9 DEF Worker
    <2>2. /\ through' \in -1..MaxAppends /\ failSeq' \in Int
          /\ known' \in [0..MaxAppends -> 0..Len(batches)]
          /\ UNCHANGED <<admitted, emitted, nextSeq, closeResult>>
      BY <1>9, <2>1, WorkerShape DEF Worker
    <2>3. PICK r \in BatchRecord : batches' = [batches EXCEPT ![b] = r]
      BY <2>1, WorkerShape
    <2>4. r.seq = batches[b].seq
      BY <1>0, <1>g, <2>3, ReplacedShape DEF Grown
    <2> QED
      BY <1>3, <2>2, <2>3, <2>4
  <1>10. ASSUME NEW b \in 1..Len(batches), Serve(b) PROVE Goal
    <2> DEFINE t == [epoch |-> batches[b].epoch, seq |-> batches[b].seq]
    <2>0. batches[b] \in BatchRecord /\ batches \in [1..Len(batches) -> BatchRecord]
      BY AsyncFacts
    <2>1. UNCHANGED <<known, through, failSeq, admitted, emitted, nextSeq, closeResult>>
      BY <1>10 DEF Serve
    <2>2. \E r \in BatchRecord : batches' = [batches EXCEPT ![b] = r] /\ r.seq = batches[b].seq
      <3>1. CASE batches' = [batches EXCEPT ![b].state = "stored"]
        <4> DEFINE st == "stored"
        <4>1. st \in Settled \cup Working \cup {"queued"}
          BY DEF Working
        <4>2. batches' = [batches EXCEPT ![b] = [batches[b] EXCEPT !.state = st]]
          BY <2>0, <3>1
        <4>3. 0 \in Int /\ 0 \in Nat
          OBVIOUS
        <4> HIDE DEF st
        <4>4. /\ [batches[b] EXCEPT !.state = st] \in BatchRecord
              /\ [batches[b] EXCEPT !.state = st].seq = batches[b].seq
          BY <2>0, <4>1, <4>3, Edited
        <4> QED
          BY <4>2, <4>4
      <3>2. ASSUME NEW answer \in Refusals(t),
                   batches' = [batches EXCEPT ![b].state = answer.state, ![b].want = answer.want]
            PROVE  \E r \in BatchRecord : batches' = [batches EXCEPT ![b] = r] /\ r.seq = batches[b].seq
        <4> DEFINE st == answer.state
                   w == answer.want
                   r == [batches[b] EXCEPT !.state = st, !.want = w]
        <4>1. st \in Settled \cup Working \cup {"queued"} /\ w \in Int
          <5> HIDE DEF t
          <5> QED
            BY RefusalShape DEF Working
        <4>3. batches' = [batches EXCEPT ![b] = r]
          BY <3>2
        <4> HIDE DEF st, w
        <4>4. r \in BatchRecord /\ r.seq = batches[b].seq
          BY <2>0, <4>1 DEF BatchRecord
        <4> QED
          BY <4>3, <4>4
      <3> QED
        BY <1>10, <3>1, <3>2 DEF Serve
    <2> QED
      BY <1>0, <1>3, <2>1, <2>2
  <1>11. CASE Fault
    <2>1. UNCHANGED <<known, through, failSeq, admitted, emitted, nextSeq, closeResult>>
      BY <1>11 DEF Fault
    <2>2. ASSUME NEW b \in 1..Len(batches), batches' = [batches EXCEPT ![b].state = "refused"]
          PROVE  Goal
      <3>1. /\ batches' = [batches EXCEPT ![b] = [batches[b] EXCEPT !.state = "refused"]]
            /\ [batches[b] EXCEPT !.state = "refused"] \in BatchRecord
        BY <2>2, StateOnly DEF Working
      <3>2. [batches[b] EXCEPT !.state = "refused"].seq = batches[b].seq
        BY <1>0 DEF BatchRecord
      <3> QED
        BY <1>0, <1>3, <2>1, <3>1, <3>2
    <2>3. CASE UNCHANGED batches
      BY <1>0, <1>1, <2>1, <2>3
    <2> QED
      BY <1>11, <2>2, <2>3 DEF Fault
  <1>12. CASE Abort
    <2>1. UNCHANGED <<through, failSeq, admitted, emitted, nextSeq, closeResult>>
      BY <1>12 DEF Abort
    <2>2. /\ batches' \in Seq(BatchRecord) /\ Len(batches') = Len(batches)
          /\ known' \in [0..MaxAppends -> 0..Len(batches)]
      BY <1>12, AbortShape
    <2>3. \A b \in 1..Len(batches) : batches'[b].seq = batches[b].seq
      BY <1>g DEF Grown
    <2>4. \A b \in 1..Len(batches') : batches'[b].seq <= b
      BY <1>0, <2>2, <2>3
    <2> QED
      BY <1>0, <2>1, <2>2, <2>4
  <1>13. ASSUME NEW c \in Closes, ServeClose(c) PROVE Goal
    BY <1>0, <1>1, <1>13 DEF ServeClose
  <1>14. ASSUME NEW c \in Calls, Begin(c) \/ Drained(c) \/ Acquire(c) \/ Unacquired(c) \/ Release(c) \/ Rejected(c)
         PROVE  Goal
    BY <1>0, <1>1, <1>14 DEF Begin, Drained, Acquire, Unacquired, Release, Rejected
  <1>15. ASSUME NEW c \in Calls, IngressDone(c) \/ Enter(c) PROVE Goal
    <2>1. UNCHANGED <<through, failSeq, admitted, closeResult>>
      BY <1>15 DEF IngressDone, Enter
    <2>2. CASE Emit(admitted)
      BY <1>0, <1>2, <2>1, <2>2
    <2>3. CASE UNCHANGED <<emitted, batches, nextSeq, known>>
      BY <1>0, <1>1, <2>1, <2>3
    <2> QED
      BY <1>15, <2>2, <2>3 DEF IngressDone, Enter, Drain
  <1>16. ASSUME NEW c \in Calls, InnerDrained(c) PROVE Goal
    <2>1. UNCHANGED <<batches, admitted, emitted, closeResult>>
      BY <1>16 DEF InnerDrained
    <2>2. CASE UNCHANGED sequencing
      BY <1>0, <1>1, <2>1, <2>2
    <2>3. CASE nextSeq' = 0 /\ through' = -1 /\ failSeq' = -1 /\ known' = [q \in DOMAIN known |-> 0]
      <3>1. known' \in [0..MaxAppends -> 0..Len(batches)] /\ -1 \in -1..MaxAppends
        <4>1. DOMAIN known = 0..MaxAppends /\ 0 \in 0..Len(batches) /\ MaxAppends \in Nat
          BY <1>0, AsyncAssumption
        <4> QED
          BY <2>3, <4>1
      <3> QED
        BY <1>0, <2>1, <2>3, <3>1
    <2> QED
      BY <1>16, <2>2, <2>3 DEF InnerDrained
  <1>17. ASSUME NEW c \in Calls, CloseAnswered(c) PROVE Goal
    <2>1. UNCHANGED <<batches, admitted, emitted, known, through, failSeq>> /\ pc[c] = "answered"
      BY <1>17 DEF CloseAnswered
    <2>2. ~closeResult
      BY <2>1 DEF AsyncInv, UnderLifecycle
    <2>3. CASE nextSeq' = nextSeq + 1 /\ closeResult' = TRUE
      BY <1>0, <2>1, <2>2, <2>3
    <2>4. CASE UNCHANGED <<nextSeq, closeResult>>
      BY <1>0, <1>1, <2>1, <2>4
    <2> QED
      BY <1>17, <2>3, <2>4 DEF CloseAnswered
  <1>18. CASE UNCHANGED vars
    BY <1>0, <1>1, <1>18 DEF vars
  <1> QED
    BY <1>5, <1>6, <1>7, <1>8, <1>9, <1>10, <1>11, <1>12, <1>13, <1>14, <1>15, <1>16, <1>17, <1>18
       DEF Next, Client, Answering, Call

\* Entries are at least as many appends as they are.
LEMMA AdmittedStep ==
  ASSUME AsyncInv, [Next]_vars
  PROVE  \A p \in 1..Len(admitted') : p <= admitted'[p]
  <1> USE DEF entries
  <1>0. /\ Len(admitted) \in Nat /\ admitted \in Seq(Appends)
        /\ \A p \in 1..Len(admitted) : p <= admitted[p] /\ admitted[p] \in Nat
    <2>1. \A p \in 1..Len(admitted) : admitted[p] \in Appends
      BY AsyncFacts, ElementOfSeq
    <2> QED
      BY <2>1, AsyncFacts DEF AsyncInv, CountInv, Appends
  <1>1. ASSUME NEW i \in Appends, Admit(i), \A p \in 1..Len(admitted) : admitted[p] < i
        PROVE  \A p \in 1..Len(admitted') : p <= admitted'[p]
    <2>1. CASE admitted' = admitted
      BY <1>0, <2>1
    <2>2. CASE admitted' = Append(admitted, i)
      <3> DEFINE n == Len(admitted)
      <3>1. /\ Len(admitted') = n + 1 /\ admitted'[n + 1] = i
            /\ \A p \in 1..n : admitted'[p] = admitted[p]
        BY <1>0, <2>2, AppendProperties
      <3>2. n + 1 <= i
        <4>1. CASE n = 0
          BY <4>1, AsyncFacts DEF Appends
        <4>2. CASE n # 0
          <5>1. n \in 1..n
            BY <1>0, <4>2
          <5>2. n <= admitted[n] /\ admitted[n] < i /\ admitted[n] \in Nat /\ i \in Nat
            BY <1>0, <1>1, <5>1 DEF Appends
          <5> QED
            BY <1>0, <5>2
        <4> QED
          BY <4>1, <4>2
      <3>3. \A p \in 1..(n + 1) : p \in 1..n \/ p = n + 1
        BY <1>0
      <3> QED
        BY <1>0, <3>1, <3>2, <3>3
    <2> QED
      BY <1>1, <2>1, <2>2 DEF Admit
  <1>2. CASE AppendCall
    <2>1. made' = made + 1 /\ made < MaxAppends
      BY <1>2 DEF AppendCall
    <2>2. made' \in Appends /\ \A p \in 1..Len(admitted) : admitted[p] < made'
      <3>1. \A p \in 1..Len(admitted) : admitted[p] <= made
        BY DEF AsyncInv, AdmitInv
      <3> QED
        BY <1>0, <2>1, <3>1, AsyncFacts DEF Appends
    <2>3. CASE Admit(made')
      BY <1>1, <2>2, <2>3
    <2>4. CASE UNCHANGED admitted
      BY <1>0, <2>4
    <2> QED
      BY <1>2, <2>3, <2>4 DEF AppendCall
  <1>3. ASSUME NEW i \in Appends, Ingress(i)
        PROVE  \A p \in 1..Len(admitted') : p <= admitted'[p]
    <2>1. CASE stage[i] = "chained" /\ Admit(i)
      BY <1>1, <2>1 DEF AsyncInv, AdmitInv
    <2>2. CASE UNCHANGED admitted
      BY <1>0, <2>2
    <2> QED
      BY <1>3, <2>1, <2>2 DEF Ingress
  <1>4. CASE UNCHANGED admitted
    BY <1>0, <1>4
  <1>5. Started \/ Worker \/ Linger \/ Answering \/ Fault \/ Abort => UNCHANGED admitted
    BY DEF Started, Worker, Linger, Answering, Serve, ServeClose, Fault, Abort
  <1>6. ASSUME NEW c \in Calls, Begin(c) \/ Call(c)
        PROVE  UNCHANGED admitted
    BY <1>6 DEF Begin, Call, IngressDone, Drained, Acquire, Unacquired, Enter, InnerDrained,
                CloseAnswered, Release, Rejected
  <1> QED
    BY <1>2, <1>3, <1>4, <1>5, <1>6 DEF Next, Client, vars

Places == {"new", "ingress", "drain", "acquire", "inner", "sending", "answered", "release", "done"}
PlainTypes ==
  /\ waits \subseteq Appends /\ coord \in {"none", "starting", "ready", "failed"}
  /\ mode \in {"open", "closing", "stopped"} /\ refused \subseteq Appends
  /\ lifecycle \in Calls \cup {Free} /\ closeResult \in BOOLEAN
  /\ released \in BOOLEAN /\ listening \in BOOLEAN
  /\ closed \in BOOLEAN /\ finalBody \in {"unset", "none", "body"}
  /\ pc \in [Calls -> Places] /\ mark \in [Calls -> 0..made]
  /\ result \in [Calls -> {"none", "ok", "fail"}]
  /\ faults \in Nat /\ aborted \in BOOLEAN

LEMMA PlainTyped == AsyncInv => PlainTypes
  BY DEF AsyncInv, AsyncTypeOK, PlainTypes, Places

\* Each step of a call goes to a place, with a result and a mark.
LEMMA CallTypes ==
  ASSUME AsyncInv, NEW c \in Calls, Begin(c) \/ Call(c)
  PROVE  PlainTypes'
  <1> USE DEF sequencing, server, closing, calls, ingress, entries, environment
  <1>0. PlainTypes /\ made \in Nat /\ Len(admitted) \in 0..made /\ made \in 0..made
    <2>1. PlainTypes
      BY PlainTyped
    <2> QED
      BY <2>1, AsyncFacts
  <1>w. ASSUME NEW m \in 0..made, Watch(c, m)
        PROVE  \E n \in 0..made : mark' = [mark EXCEPT ![c] = n]
    BY <1>w DEF Watch
  <1>z. 0 \in 0..made
    BY <1>0
  <1> DEFINE Rest == UNCHANGED <<waits, mode, refused, lifecycle, released, listening, closeResult, closed,
                                 finalBody, faults, aborted, made>>
             Moves == /\ \E w \in Places : pc' = [pc EXCEPT ![c] = w]
                      /\ mark' = mark \/ \E m \in 0..made : mark' = [mark EXCEPT ![c] = m]
                      /\ result' = result \/ \E r \in {"ok", "fail"} : result' = [result EXCEPT ![c] = r]
  <1>1. ASSUME Moves PROVE pc' \in [Calls -> Places] /\ mark' \in [Calls -> 0..made]
                           /\ result' \in [Calls -> {"none", "ok", "fail"}]
    BY <1>0, <1>1 DEF PlainTypes
  <1>2. ASSUME Looped(c) PROVE Moves
    <2>1. Flushed(c) => /\ \E w \in Places : pc' = [pc EXCEPT ![c] = w]
                        /\ result' = result \/ \E r \in {"ok", "fail"} : result' = [result EXCEPT ![c] = r]
      BY DEF Flushed, Go, End, Places
    <2> QED
      BY <1>0, <1>2, <2>1 DEF Looped, StartFlush, Go, Watch, Places
  <1>3. FlushRejected(c) => /\ \E w \in Places : pc' = [pc EXCEPT ![c] = w]
                            /\ result' = result \/ \E r \in {"ok", "fail"} : result' = [result EXCEPT ![c] = r]
    BY DEF FlushRejected, Go, End, Places
  <1>4. CASE Begin(c)
    <2>1. Moves
      BY <1>0, <1>4 DEF Begin, StartFlush, Go, Watch, End, Places
    <2>2. UNCHANGED <<waits, mode, refused, lifecycle, released, listening, closeResult, faults, aborted, made, coord>>
      BY <1>4 DEF Begin
    <2>3. closed' \in BOOLEAN /\ finalBody' \in {"unset", "none", "body"}
      BY <1>0, <1>4 DEF Begin, StartClosed, FirstBody, PlainTypes
    <2> QED
      BY <1>0, <1>1, <2>1, <2>2, <2>3 DEF PlainTypes
  <1>5. CASE IngressDone(c)
    <2>1. Rest /\ coord' = coord
      BY <1>5 DEF IngressDone
    <2>2. Moves
      <3>1. CASE Looped(c)
        BY <1>2, <3>1
      <3>2. CASE FlushRejected(c) /\ Watch(c, 0)
        BY <1>3, <1>w, <1>z, <3>2
      <3>3. CASE Drain(c) /\ Go(c, "drain") /\ UNCHANGED result
        BY <1>0, <3>3 DEF Drain, Watch, Watermark, Go, Places
      <3> QED
        BY <1>5, <3>1, <3>2, <3>3 DEF IngressDone
    <2> QED
      BY <1>0, <1>1, <2>1, <2>2 DEF PlainTypes
  <1>6. CASE Drained(c)
    <2>1. Rest /\ coord' = coord /\ Moves
      BY <1>2, <1>6 DEF Drained
    <2> QED
      BY <1>0, <1>1, <2>1 DEF PlainTypes
  <1>7. CASE Acquire(c)
    <2>1. Rest /\ UNCHANGED <<pc, mark, result>>
      BY <1>7 DEF Acquire
    <2>2. coord' \in {"none", "starting", "ready", "failed"}
      BY <1>0, <1>7 DEF Acquire, Acquired, PlainTypes
    <2> QED
      BY <1>0, <2>1, <2>2 DEF PlainTypes
  <1>8. CASE Unacquired(c)
    <2>1. Rest /\ coord' = coord
      BY <1>8 DEF Unacquired
    <2>2. Moves
      BY <1>8 DEF Unacquired, End, Places
    <2> QED
      BY <1>0, <1>1, <2>1, <2>2 DEF PlainTypes
  <1>9. CASE Enter(c)
    <2>1. UNCHANGED <<waits, refused, released, listening, closeResult, closed, finalBody, faults, aborted, made, coord>>
      BY <1>9 DEF Enter
    <2>2. lifecycle' \in Calls \cup {Free} /\ mode' \in {"open", "closing", "stopped"}
      BY <1>0, <1>9 DEF Enter, PlainTypes
    <2>3. Moves
      BY <1>0, <1>9 DEF Enter, Go, Drain, Watch, Watermark, Places
    <2> QED
      BY <1>0, <1>1, <2>1, <2>2, <2>3 DEF PlainTypes
  <1>10. CASE InnerDrained(c)
    <2>1. UNCHANGED <<waits, mode, refused, released, listening, closeResult, closed, finalBody, faults, aborted, made, coord>>
      BY <1>10 DEF InnerDrained
    <2>2. lifecycle' \in Calls \cup {Free}
      BY <1>0, <1>10 DEF InnerDrained, PlainTypes
    <2>3. Moves
      <3>1. \E w \in Places : pc' = [pc EXCEPT ![c] = w]
        BY <1>10 DEF InnerDrained, Go, End, Places
      <3>2. result' = result \/ \E r \in {"ok", "fail"} : result' = [result EXCEPT ![c] = r]
        BY <1>10 DEF InnerDrained, Go, End
      <3>3. \E m \in 0..made : mark' = [mark EXCEPT ![c] = m]
        BY <1>10, <1>w, <1>z DEF InnerDrained
      <3> QED
        BY <3>1, <3>2, <3>3
    <2> QED
      BY <1>0, <1>1, <2>1, <2>2, <2>3 DEF PlainTypes
  <1>11. CASE CloseAnswered(c)
    <2>1. UNCHANGED <<waits, mode, refused, released, listening, closed, finalBody, faults, aborted, made, coord>>
      BY <1>11 DEF CloseAnswered
    <2>2. lifecycle' = Free /\ closeResult' \in BOOLEAN
      BY <1>0, <1>11 DEF CloseAnswered, PlainTypes
    <2>3. Moves
      BY <1>0, <1>11 DEF CloseAnswered, Go, Places
    <2> QED
      BY <1>0, <1>1, <2>1, <2>2, <2>3 DEF PlainTypes
  <1>12. CASE Release(c)
    <2>1. UNCHANGED <<waits, mode, refused, lifecycle, closeResult, closed, finalBody, faults, aborted, made, coord, mark>>
      BY <1>12 DEF Release
    <2>2. released' \in BOOLEAN /\ listening' \in BOOLEAN
      BY <1>0, <1>12 DEF Release, PlainTypes
    <2>3. pc' \in [Calls -> Places]
      BY <1>0, <1>12 DEF Release, End, Places, PlainTypes
    <2>4. result' \in [Calls -> {"none", "ok", "fail"}]
      BY <1>0, <1>12 DEF Release, End, PlainTypes
    <2> QED
      BY <1>0, <2>1, <2>2, <2>3, <2>4 DEF PlainTypes
  <1>13. CASE Rejected(c)
    <2>1. UNCHANGED <<waits, mode, refused, released, listening, closeResult, closed, finalBody, faults, aborted, made, coord>>
      BY <1>13 DEF Rejected
    <2>2. lifecycle' \in Calls \cup {Free}
      BY <1>0, <1>13 DEF Rejected, PlainTypes
    <2>3. Moves
      <3>1. \E w \in Places : pc' = [pc EXCEPT ![c] = w]
        BY <1>3, <1>13 DEF Rejected, Go, End, Places
      <3>2. result' = result \/ \E r \in {"ok", "fail"} : result' = [result EXCEPT ![c] = r]
        BY <1>3, <1>13 DEF Rejected, Go, End
      <3>3. \E m \in 0..made : mark' = [mark EXCEPT ![c] = m]
        BY <1>13, <1>w, <1>z DEF Rejected
      <3> QED
        BY <3>1, <3>2, <3>3
    <2> QED
      BY <1>0, <1>1, <2>1, <2>2, <2>3 DEF PlainTypes
  <1> QED
    BY <1>4, <1>5, <1>6, <1>7, <1>8, <1>9, <1>10, <1>11, <1>12, <1>13 DEF Call

LEMMA PlainStep ==
  ASSUME AsyncInv, [Next]_vars
  PROVE  PlainTypes'
  <1> USE DEF sequencing, server, closing, calls, ingress, entries, environment
  <1>p. PlainTypes /\ made \in Nat
    BY AsyncFacts, PlainTyped
  <1>0. made < MaxAppends => made + 1 \in Appends
    BY AsyncFacts DEF Appends
  <1>1. CASE AppendCall
    <2>1. UNCHANGED <<mode, lifecycle, released, listening, closeResult, closed, finalBody, pc, mark, result,
                      faults, aborted>>
          /\ made' = made + 1 /\ made' \in Appends
      BY <1>0, <1>p, <1>1 DEF AppendCall
    <2>2. waits' \subseteq Appends /\ refused' \subseteq Appends
      BY <1>p, <1>1, <2>1 DEF AppendCall, Admit, PlainTypes
    <2>3. coord' \in {"none", "starting", "ready", "failed"}
      BY <1>p, <1>1 DEF AppendCall, Acquired, PlainTypes
    <2>4. mark' \in [Calls -> 0..made']
      <3>1. \A m \in 0..made : m \in 0..made'
        BY <1>p, <2>1
      <3> QED
        BY <1>p, <2>1, <3>1 DEF PlainTypes
    <2> QED
      BY <1>p, <2>1, <2>2, <2>3, <2>4 DEF PlainTypes
  <1>2. ASSUME NEW i \in Appends, Ingress(i) PROVE PlainTypes'
    <2>1. UNCHANGED <<mode, lifecycle, released, listening, closeResult, closed, finalBody, pc, mark, result,
                      faults, aborted, made, coord>>
      BY <1>2 DEF Ingress
    <2>2. waits' \subseteq Appends /\ refused' \subseteq Appends
      BY <1>p, <1>2 DEF Ingress, Admit, PlainTypes
    <2> QED
      BY <1>p, <2>1, <2>2 DEF PlainTypes
  <1>3. CASE Started
    BY <1>p, <1>3 DEF Started, PlainTypes
  <1>4. CASE Linger \/ Worker
    BY <1>p, <1>4 DEF Linger, Worker, PlainTypes
  <1>5. ASSUME NEW b, Serve(b) PROVE PlainTypes'
    BY <1>p, <1>5 DEF Serve, PlainTypes
  <1>6. ASSUME NEW c \in Closes, ServeClose(c) PROVE PlainTypes'
    <2>0. c \in Calls
      BY DEF Calls
    <2>1. UNCHANGED <<waits, coord, mode, refused, lifecycle, released, listening, closeResult, closed, finalBody,
                      mark, faults, aborted, made>>
      BY <1>6 DEF ServeClose
    <2>2. pc' = [pc EXCEPT ![c] = "answered"] /\ "answered" \in Places
      BY <1>6 DEF ServeClose, Go, Places
    <2>3. \E r \in {"ok", "fail"} : result' = [result EXCEPT ![c] = r]
      BY <1>6 DEF ServeClose
    <2> QED
      BY <1>p, <2>0, <2>1, <2>2, <2>3 DEF PlainTypes
  <1>7. CASE Fault
    <2>1. UNCHANGED <<waits, coord, mode, refused, lifecycle, released, listening, closeResult, closed, finalBody,
                      mark, aborted, made>> /\ faults' \in Nat
      BY <1>p, <1>7 DEF Fault, PlainTypes
    <2>2. CASE UNCHANGED <<pc, result>>
      BY <1>p, <2>1, <2>2 DEF PlainTypes
    <2>3. ASSUME NEW c \in Closes, Go(c, "answered"), result' = [result EXCEPT ![c] = "fail"]
          PROVE  PlainTypes'
      BY <1>p, <2>1, <2>3 DEF PlainTypes, Go, Calls, Places
    <2> QED
      BY <1>7, <2>2, <2>3 DEF Fault
  <1>8. CASE Abort
    <2>1. UNCHANGED <<waits, coord, refused, lifecycle, released, listening, closeResult, closed, finalBody,
                      pc, mark, result, made>>
          /\ faults' = faults + 1 /\ aborted' = TRUE /\ mode' \in {mode, "stopped"}
      BY <1>8 DEF Abort
    <2> QED
      BY <1>p, <2>1 DEF PlainTypes
  <1>9. CASE UNCHANGED vars
    BY <1>p, <1>9 DEF vars, PlainTypes
  <1> QED
    BY <1>1, <1>2, <1>3, <1>4, <1>5, <1>6, <1>7, <1>8, <1>9, CallTypes
       DEF Next, Client, Answering

Inside == {"inner", "sending", "answered"}

LEMMA LifecycleStep ==
  ASSUME AsyncInv, [Next]_vars
  PROVE  UnderLifecycle'
  <1> USE DEF closing, calls
  <1>0. /\ pc \in [Calls -> Places] /\ Free \notin Calls /\ UnderLifecycle
        /\ \A c \in Closes : c \in Calls
    BY PlainTyped, AsyncAssumption DEF AsyncInv, PlainTypes, Calls
  <1>1. CASE UNCHANGED <<pc, lifecycle, closeResult>>
    BY <1>0, <1>1 DEF UnderLifecycle
  \* A call that is outside, and goes elsewhere outside.
  <1>2. ASSUME NEW c \in Calls, NEW w \in Places \ Inside, pc' = [pc EXCEPT ![c] = w],
               UNCHANGED <<lifecycle, closeResult>>
        PROVE  UnderLifecycle'
    BY <1>0, <1>2 DEF UnderLifecycle, Inside
  <1>3. ASSUME NEW c \in Calls, Begin(c) \/ IngressDone(c) \/ Drained(c) \/ Acquire(c)
                                \/ Unacquired(c) \/ Release(c)
        PROVE  UnderLifecycle'
    <2>1. UNCHANGED <<lifecycle, closeResult>>
      BY <1>3 DEF Begin, IngressDone, Drained, Acquire, Unacquired, Release
    <2>2. Looped(c) => \E w \in Places \ Inside : pc' = [pc EXCEPT ![c] = w]
      BY DEF Looped, StartFlush, Flushed, Go, End, Places, Inside
    <2>3. FlushRejected(c) => \E w \in Places \ Inside : pc' = [pc EXCEPT ![c] = w]
      BY DEF FlushRejected, Go, End, Places, Inside
    <2>4. UNCHANGED pc \/ \E w \in Places \ Inside : pc' = [pc EXCEPT ![c] = w]
      BY <1>3, <2>2, <2>3
         DEF Begin, StartFlush, IngressDone, Drained, Acquire, Unacquired, Release, Go, End, Places, Inside
    <2> QED
      BY <1>1, <1>2, <2>1, <2>4
  <1>4. ASSUME NEW c \in Calls, Enter(c) PROVE UnderLifecycle'
    <2>1. closeResult' = closeResult /\ lifecycle = Free
      BY <1>4 DEF Enter
    <2>2. CASE Go(c, "release") /\ lifecycle' = lifecycle
      BY <1>0, <2>1, <2>2 DEF UnderLifecycle, Go
    <2>3. CASE /\ lifecycle' = c /\ (c \in Closes => ~closeResult)
               /\ (Go(c, "sending") /\ c \in Closes) \/ Go(c, "inner")
      BY <1>0, <2>1, <2>3 DEF UnderLifecycle, Go
    <2> QED
      BY <1>4, <2>2, <2>3 DEF Enter
  <1>5. ASSUME NEW c \in Calls, InnerDrained(c) PROVE UnderLifecycle'
    <2>1. closeResult' = closeResult /\ lifecycle = c /\ (c \in Closes => ~closeResult)
      BY <1>0, <1>5 DEF InnerDrained, UnderLifecycle
    <2>2. CASE c \in Closes /\ Go(c, "sending") /\ lifecycle' = lifecycle
      BY <1>0, <2>1, <2>2 DEF UnderLifecycle, Go
    <2>3. CASE lifecycle' = Free /\ End(c, "ok")
      BY <1>0, <2>1, <2>3 DEF UnderLifecycle, End
    <2> QED
      BY <1>5, <2>2, <2>3 DEF InnerDrained
  <1>6. ASSUME NEW c \in Calls, CloseAnswered(c) PROVE UnderLifecycle'
    <2>1. lifecycle = c /\ lifecycle' = Free /\ pc' = [pc EXCEPT ![c] = "release"]
      BY <1>0, <1>6 DEF CloseAnswered, UnderLifecycle, Go
    <2> QED
      BY <1>0, <2>1 DEF UnderLifecycle
  <1>7. ASSUME NEW c \in Calls, Rejected(c) PROVE UnderLifecycle'
    <2>1. \E w \in Places \ Inside : pc' = [pc EXCEPT ![c] = w]
      <3>1. FlushRejected(c) => \E w \in Places \ Inside : pc' = [pc EXCEPT ![c] = w]
        BY DEF FlushRejected, Go, End, Places, Inside
      <3> QED
        BY <1>7, <3>1 DEF Rejected, Go, End, Places, Inside
    <2>2. closeResult' = closeResult /\ lifecycle' = IF lifecycle = c THEN Free ELSE lifecycle
      BY <1>7 DEF Rejected
    <2> QED
      BY <1>0, <2>1, <2>2 DEF UnderLifecycle, Inside
  <1>8. ASSUME NEW c \in Closes, pc[c] \in {"sending", "answered"}, Go(c, "answered"),
               UNCHANGED <<lifecycle, closeResult>>
        PROVE  UnderLifecycle'
    BY <1>0, <1>8 DEF UnderLifecycle, Go
  <1>9. ASSUME NEW c \in Closes, ServeClose(c) PROVE UnderLifecycle'
    BY <1>8, <1>9 DEF ServeClose
  <1>10. CASE Fault
    <2>1. UNCHANGED <<lifecycle, closeResult>>
      BY <1>10 DEF Fault
    <2> QED
      BY <1>1, <1>8, <1>10, <2>1 DEF Fault
  <1>11. AppendCall \/ Client \/ Abort \/ (\E b \in 1..Len(batches) : Serve(b)) \/ UNCHANGED vars
           => UNCHANGED <<pc, lifecycle, closeResult>>
    BY DEF AppendCall, Client, Started, Worker, Linger, Ingress, Abort, Serve, vars
  <1> QED
    BY <1>1, <1>3, <1>4, <1>5, <1>6, <1>7, <1>9, <1>10, <1>11 DEF Next, Call, Answering

LEMMA AsyncStep ==
  ASSUME AsyncInv, [Next]_vars
  PROVE  AsyncInv'
  <1>1. OrderInv' /\ AdmitInv' /\ Grown
    BY OrderStep, AdmitStep, BatchesStep DEF AsyncInv, OrderInv
  <1>2. PlainTypes' /\ UnderLifecycle'
    BY PlainStep, LifecycleStep
  <1>3. CountInv'
    BY QueueStep, AdmittedStep DEF CountInv
  <1>4. sClosed' \in [epoch : Int, seq : Int]
    <2>1. Storing
      BY StepDoes DEF AsyncInv, OrderInv
    <2>2. sClosed' \in {sClosed, closeReq}
      BY <2>1 DEF Storing, Store, server
    <2> QED
      BY <2>2 DEF AsyncInv, AsyncTypeOK
  <1>5. log' \in Seq(0..Len(batches'))
    <2>1. log' \in Seq(Nat) /\ \A i \in 1..Len(log') : log'[i] \in 0..Len(batches')
      BY <1>1 DEF OrderInv, Stored
    <2>2. Len(log') \in Nat /\ log' \in [1..Len(log') -> 0..Len(batches')]
      BY <2>1, LenProperties
    <2> QED
      BY <2>2, SeqDef
  <1>6. /\ made' \in 0..MaxAppends /\ stage' \in [Appends -> {"new", "chained", "admitted", "settled"}]
        /\ admitted' \in Seq(Appends)
    BY <1>1 DEF AdmitInv
  <1>7. /\ epoch' \in Nat /\ nextSeq' \in Nat /\ sEpoch' \in Nat /\ sLast' \in Int
        /\ closeReq' \in [epoch : Int, seq : Int]
    BY <1>1 DEF OrderInv, Batches, Stored
  <1>8. /\ batches' \in Seq(BatchRecord) /\ known' \in [0..MaxAppends -> 0..Len(batches')]
        /\ emitted' \in 0..Len(admitted') /\ through' \in Int /\ failSeq' \in Int
    BY QueueStep, AsyncAssumption
  <1>9. AsyncTypeOK'
    BY <1>2, <1>4, <1>5, <1>6, <1>7, <1>8 DEF AsyncTypeOK, PlainTypes, Places, BatchRecord
  <1> QED
    BY <1>1, <1>2, <1>3, <1>9 DEF AsyncInv

LEMMA InitAsync == Init => AsyncInv
  <1> SUFFICES ASSUME Init PROVE AsyncInv
    OBVIOUS
  <1>1. \A S : <<>> \in Seq(S) /\ Len(<<>>) = 0
    BY EmptySeq
  <1>2. AsyncTypeOK
    <2>1. /\ closeReq \in [epoch : Int, seq : Int] /\ sClosed \in [epoch : Int, seq : Int]
          /\ made \in 0..MaxAppends /\ stage \in [Appends -> {"new", "chained", "admitted", "settled"}]
          /\ epoch \in Nat /\ nextSeq \in Nat /\ through \in Int /\ failSeq \in Int
          /\ sEpoch \in Nat /\ sLast \in Int
      BY AsyncAssumption DEF Init, NoRequest
    <2>2. PlainTypes
      <3>1. /\ pc \in [Calls -> Places] /\ mark \in [Calls -> 0..made]
            /\ result \in [Calls -> {"none", "ok", "fail"}]
        BY DEF Init, Places
      <3>2. /\ waits \subseteq Appends /\ coord \in {"none", "starting", "ready", "failed"}
            /\ mode \in {"open", "closing", "stopped"} /\ refused \subseteq Appends
            /\ lifecycle \in Calls \cup {Free} /\ finalBody \in {"unset", "none", "body"}
            /\ faults \in Nat
        BY DEF Init
      <3>3. /\ closeResult \in BOOLEAN /\ released \in BOOLEAN /\ listening \in BOOLEAN
            /\ closed \in BOOLEAN /\ aborted \in BOOLEAN
        BY Zenon DEF Init
      <3> QED
        BY <3>1, <3>2, <3>3, Zenon DEF PlainTypes
    <2>3. /\ admitted \in Seq(Appends) /\ emitted \in 0..Len(admitted)
          /\ batches \in Seq(BatchRecord) /\ log \in Seq(0..Len(batches))
          /\ known \in [0..MaxAppends -> 0..Len(batches)]
      BY <1>1, AsyncAssumption DEF Init
    <2> QED
      BY <2>1, <2>2, <2>3 DEF AsyncTypeOK, PlainTypes, Places, BatchRecord
  <1>3. CountInv
    BY <1>1, AsyncAssumption DEF Init, CountInv
  <1>4. UnderLifecycle
    BY DEF Init, UnderLifecycle
  <1> QED
    BY <1>2, <1>3, <1>4, InitOrder DEF AsyncInv

LEMMA AsyncHolds == Spec => []AsyncInv
  BY InitAsync, AsyncStep, PTL DEF Spec

(* The variables of the Promise producer have their types: what AwaitEarlier *)
(* waits for is a batch there is, sequences stay within the map of known   *)
(* batches, and no flush waits for more than was called.                   *)
THEOREM AsyncTypeCorrect == Spec => []AsyncTypeOK
  <1>1. AsyncInv => AsyncTypeOK
    BY DEF AsyncInv
  <1> QED
    BY <1>1, AsyncHolds, PTL

-----------------------------------------------------------------------------
(* What a flush leaves behind. *)

\* An append that is through was refused or is an entry.
Through ==
  \A i \in Appends : stage[i] \in {"admitted", "settled"} =>
    i \in refused \/ \E p \in 1..Len(admitted) : admitted[p] = i
Unready == coord # "ready" => Len(admitted) = 0
StoppedAborted == mode = "stopped" => aborted

\* Nothing waits, and every entry has its outcome.
Quiet == waits = {} /\ ResolvedTo(Len(admitted))
\* Once the flush of a close is over nothing is called any more.
CloseQuiet ==
  /\ \A c \in Closes : pc[c] # "new" => closed
  /\ \A c \in Closes : pc[c] \in {"acquire"} \cup Inside => Quiet
  /\ mode = "closing" => closed /\ Quiet

FlushInv == Through /\ Unready /\ StoppedAborted /\ CloseQuiet

LEMMA WorkerFirst ==
  ASSUME AsyncInv, NEW b \in 1..Len(batches), Take(b) \/ Reply(b),
         NEW r, batches' = [batches EXCEPT ![b] = r]
  PROVE  r.first = batches[b].first
  <1>0. /\ batches[b] \in BatchRecord /\ batches \in [1..Len(batches) -> BatchRecord]
        /\ r = batches'[b]
    BY AsyncFacts
  <1>1. ASSUME NEW st, batches' = [batches EXCEPT ![b].state = st]
        PROVE  r.first = batches[b].first
    BY <1>0, <1>1 DEF BatchRecord
  <1>2. ASSUME NEW outcome, Complete(b, outcome) PROVE r.first = batches[b].first
    BY <1>1, <1>2, CompleteShape
  <1>3. CASE AwaitEarlier(b)
    <2>1. ASSUME NEW s, NEW k, batches' = [batches EXCEPT ![b].state = "gapwait", ![b].want = s, ![b].on = k]
          PROVE  r.first = batches[b].first
      BY <1>0, <2>1 DEF BatchRecord
    <2>2. CASE batches' = [batches EXCEPT ![b].state = "sent"]
      BY <1>1, <2>2
    <2>3. CASE Complete(b, "fail")
      BY <1>2, <2>3
    <2>4. ASSUME NEW s \in 0..MaxAppends,
                 \/ known[s] = 0 /\ Complete(b, "fail") /\ UNCHANGED <<epoch, nextSeq>>
                 \/ /\ known[s] \in 1..Len(batches) /\ UNCHANGED sequencing
                    /\ batches' = [batches EXCEPT ![b].state = "gapwait", ![b].want = s + 1,
                                                  ![b].on = known[s]]
          PROVE  r.first = batches[b].first
      BY <2>1, <2>3, <2>4
    <2> QED
      BY <1>3, <2>2, <2>4, AwaitShape
  <1>4. CASE Take(b)
    BY <1>1, <1>4 DEF Take
  <1> QED
    BY <1>2, <1>3, <1>4 DEF Reply

\* A batch changes only as long as it is not settled.
LEMMA SettledStays ==
  ASSUME AsyncInv, [Next]_vars
  PROVE  /\ Len(batches) <= Len(batches') /\ Len(batches') \in Nat
         /\ \A b \in 1..Len(batches) :
              /\ batches'[b].first = batches[b].first
              /\ batches[b].state \in Settled => batches'[b] = batches[b]
         /\ \A b \in 1..Len(batches') : b > Len(batches) => batches'[b].first > emitted
         /\ emitted <= emitted' /\ emitted' <= Len(admitted')
         /\ emitted' # emitted => emitted < Len(admitted')
  <1> USE DEF sequencing, server, closing, calls, ingress, entries, environment
  <1>0. /\ Len(batches) \in Nat /\ Len(admitted) \in Nat /\ emitted \in Nat /\ emitted <= Len(admitted)
        /\ batches \in [1..Len(batches) -> BatchRecord]
        /\ \A b \in 1..Len(batches) : batches[b] \in BatchRecord
    BY AsyncFacts
  <1> DEFINE Goal ==
        /\ Len(batches) <= Len(batches') /\ Len(batches') \in Nat
        /\ \A b \in 1..Len(batches) :
             /\ batches'[b].first = batches[b].first
             /\ batches[b].state \in Settled => batches'[b] = batches[b]
        /\ \A b \in 1..Len(batches') : b > Len(batches) => batches'[b].first > emitted
        /\ emitted <= emitted'
        /\ emitted' # emitted => emitted < Len(admitted')
  <1>16. emitted' <= Len(admitted')
    <2>1. emitted' \in 0..Len(admitted')
      BY QueueStep
    <2>2. AsyncTypeOK'
      BY AsyncStep DEF AsyncInv
    <2>3. Len(admitted') \in Nat
      BY <2>2, LenProperties DEF AsyncTypeOK
    <2> QED
      BY <2>1, <2>3
  <1> SUFFICES Goal
    BY <1>16
  <1>1. ASSUME UNCHANGED <<batches, emitted>> PROVE Goal
    <2>1. batches' = batches /\ emitted' = emitted
      BY <1>1
    <2>2. \A b \in 1..Len(batches') : ~(b > Len(batches))
      BY <1>0, <2>1
    <2> QED
      BY <1>0, <2>1, <2>2
  <1>2. ASSUME NEW adm, Len(adm) \in Nat, emitted <= Len(adm), Emit(adm), Len(admitted') = Len(adm)
        PROVE  Goal
    <2>1. CASE UNCHANGED <<emitted, batches, nextSeq, known>>
      BY <1>0, <1>1, <2>1
    <2>2. CASE /\ emitted < Len(adm) /\ emitted' = Len(adm)
               /\ Len(batches') = Len(batches) + 1
               /\ \A b \in 1..Len(batches) : batches'[b] = batches[b]
               /\ batches'[Len(batches) + 1] =
                    [first |-> emitted + 1, last |-> Len(adm), epoch |-> epoch, seq |-> nextSeq,
                     state |-> "queued", want |-> 0, on |-> 0]
      <3>1. batches'[Len(batches) + 1].first = emitted + 1
        BY <2>2
      <3>2. ASSUME NEW b \in 1..Len(batches'), b > Len(batches) PROVE batches'[b].first > emitted
        <4>1. b = Len(batches) + 1
          BY <1>0, <2>2, <3>2
        <4> QED
          BY <1>0, <3>1, <4>1
      <3> QED
        BY <1>0, <1>2, <2>2, <3>2
    <2> QED
      BY <1>2, <2>1, <2>2, EmitShape
  <1>3. ASSUME NEW b \in 1..Len(batches), NEW r \in BatchRecord,
               batches' = [batches EXCEPT ![b] = r], r.first = batches[b].first,
               batches[b].state \notin Settled, UNCHANGED emitted
        PROVE  Goal
    <2>1. /\ Len(batches') = Len(batches)
          /\ \A a \in 1..Len(batches) : batches'[a] = IF a = b THEN r ELSE batches[a]
      BY <1>3, ReplacedShape
    <2> QED
      BY <1>0, <1>3, <2>1
  <1>r. ASSUME NEW b \in 1..Len(batches), NEW st \in Settled \cup Working \cup {"queued"},
               batches' = [batches EXCEPT ![b].state = st], batches[b].state \notin Settled, UNCHANGED emitted
        PROVE  Goal
    <2>1. batches' = [batches EXCEPT ![b] = [batches[b] EXCEPT !.state = st]]
          /\ [batches[b] EXCEPT !.state = st] \in BatchRecord
      BY <1>r, StateOnly
    <2>2. [batches[b] EXCEPT !.state = st].first = batches[b].first
      BY <1>0 DEF BatchRecord
    <2> QED
      BY <1>3, <1>r, <2>1, <2>2
  <1> HIDE DEF Goal
  <1>4. ASSUME NEW i \in Appends, Admit(i) PROVE Goal
    <2>1. CASE admitted' = Append(admitted, i) /\ Emit(admitted')
      <3>1. Len(admitted') = Len(admitted) + 1
        BY <2>1, AsyncFacts, AppendProperties
      <3>2. Len(admitted') \in Nat /\ emitted <= Len(admitted')
        BY <1>0, <3>1
      <3> QED
        BY <1>2, <2>1, <3>2
    <2>2. CASE UNCHANGED <<emitted, batches, nextSeq, known>>
      BY <1>1, <2>2
    <2> QED
      BY <1>4, <2>1, <2>2 DEF Admit
  <1>5. CASE AppendCall
    <2>1. made' \in Appends
      BY <1>5, AsyncFacts DEF AppendCall, Appends
    <2>2. CASE Admit(made')
      BY <1>4, <2>1, <2>2
    <2>3. CASE UNCHANGED <<entries, batches, nextSeq, known>>
      BY <1>1, <2>3
    <2> QED
      BY <1>5, <2>2, <2>3 DEF AppendCall
  <1>6. ASSUME NEW i \in Appends, Ingress(i) PROVE Goal
    <2>1. CASE Admit(i)
      BY <1>4, <2>1
    <2>2. CASE UNCHANGED <<admitted, emitted, batches, nextSeq, known>>
      BY <1>1, <2>2
    <2> QED
      BY <1>6, <2>1, <2>2 DEF Ingress
  <1>7. CASE Started
    BY <1>1, <1>7 DEF Started
  <1>8. CASE Linger
    <2>1. Emit(admitted) /\ admitted' = admitted
      BY <1>8 DEF Linger
    <2> QED
      BY <1>0, <1>2, <2>1
  <1>9. CASE Worker
    <2>1. PICK b \in 1..Len(batches) : Take(b) \/ Reply(b)
      BY <1>9 DEF Worker
    <2>2. UNCHANGED emitted /\ batches[b].state \notin Settled
      BY <1>9, <2>1 DEF Worker, Take, Reply, Settled
    <2>3. PICK r \in BatchRecord : batches' = [batches EXCEPT ![b] = r]
      BY <2>1, WorkerShape
    <2>4. r.first = batches[b].first
      BY <2>1, <2>3, WorkerFirst
    <2> QED
      BY <1>3, <2>2, <2>3, <2>4
  <1>10. ASSUME NEW b \in 1..Len(batches), Serve(b) PROVE Goal
    <2> DEFINE t == [epoch |-> batches[b].epoch, seq |-> batches[b].seq]
    <2>1. UNCHANGED emitted /\ batches[b].state \notin Settled
      BY <1>10 DEF Serve, Settled
    <2>2. CASE batches' = [batches EXCEPT ![b].state = "stored"]
      BY <1>r, <2>1, <2>2 DEF Working
    <2>3. ASSUME NEW answer \in Refusals(t),
                 batches' = [batches EXCEPT ![b].state = answer.state, ![b].want = answer.want]
          PROVE  Goal
      <3> DEFINE st == answer.state
                 w == answer.want
                 r == [batches[b] EXCEPT !.state = st, !.want = w]
      <3>1. st \in Settled \cup Working \cup {"queued"} /\ w \in Int
        <4> HIDE DEF t
        <4> QED
          BY RefusalShape DEF Working
      <3>3. batches' = [batches EXCEPT ![b] = r]
        BY <2>3
      <3> HIDE DEF st, w
      <3>4. r \in BatchRecord /\ r.first = batches[b].first
        BY <1>0, <3>1 DEF BatchRecord
      <3> HIDE DEF r
      <3> QED
        BY <1>3, <2>1, <3>3, <3>4
    <2> QED
      BY <1>10, <2>2, <2>3 DEF Serve
  <1>11. CASE Fault
    <2>1. UNCHANGED emitted
      BY <1>11 DEF Fault
    <2>2. ASSUME NEW b \in 1..Len(batches), batches[b].state \in {"sent", "stored"},
                 batches' = [batches EXCEPT ![b].state = "refused"]
          PROVE  Goal
      BY <1>r, <2>1, <2>2 DEF Working, Settled
    <2>3. CASE UNCHANGED batches
      BY <1>1, <2>1, <2>3
    <2> QED
      BY <1>11, <2>2, <2>3 DEF Fault
  <1>12. CASE Abort
    <2>1. UNCHANGED emitted
      BY <1>12 DEF Abort
    <2>2. Len(batches') = Len(batches) /\ \A b \in 1..Len(batches) : batches'[b].first = batches[b].first
      BY <1>12, AbortShape
    <2>3. \A b \in 1..Len(batches) : batches[b].state \in Settled => batches'[b] = batches[b]
      BY <1>12, AbortShape
    <2>4. \A b \in 1..Len(batches') : ~(b > Len(batches))
      BY <1>0, <2>2
    <2> QED
      BY <1>0, <2>1, <2>2, <2>3, <2>4 DEF Goal
  <1>13. ASSUME NEW c \in Closes, ServeClose(c) PROVE Goal
    BY <1>1, <1>13 DEF ServeClose
  <1>14. ASSUME NEW c \in Calls, Call(c) \/ Begin(c) PROVE Goal
    <2>1. CASE Emit(admitted) /\ UNCHANGED admitted
      BY <1>0, <1>2, <2>1
    <2> QED
      BY <1>1, <1>14, <2>1
         DEF Begin, Call, IngressDone, Drained, Acquire, Unacquired, Enter, InnerDrained, CloseAnswered,
             Release, Rejected, Drain
  <1>15. CASE UNCHANGED vars
    BY <1>1, <1>15 DEF vars
  <1> QED
    BY <1>5, <1>6, <1>7, <1>8, <1>9, <1>10, <1>11, <1>12, <1>13, <1>14, <1>15
       DEF Next, Client, Answering

LEMMA StoppedStays ==
  ASSUME AsyncInv, StoppedAborted, [Next]_vars
  PROVE  StoppedAborted' /\ (mode = "stopped" => mode' = "stopped")
  <1> USE DEF environment, calls, closing
  <1>1. ASSUME NEW c \in Calls, Begin(c) \/ Call(c)
        PROVE  /\ aborted' = aborted
               /\ mode' = mode \/ (~aborted /\ mode' \in {mode, "closing"})
    BY <1>1 DEF Begin, Call, IngressDone, Drained, Acquire, Unacquired, Enter, InnerDrained,
                CloseAnswered, Release, Rejected
  <1>2. AppendCall \/ Client \/ Answering \/ Fault => aborted' = aborted /\ mode' = mode
    BY DEF AppendCall, Client, Started, Worker, Linger, Ingress, Answering, Serve, ServeClose, Fault
  <1>3. Abort => aborted' = TRUE /\ mode' \in {mode, "stopped"}
    BY DEF Abort
  <1>4. UNCHANGED vars => aborted' = aborted /\ mode' = mode
    BY DEF vars
  <1> QED
    BY <1>1, <1>2, <1>3, <1>4 DEF Next, StoppedAborted

\* An entry that has its outcome keeps it.
LEMMA ResolvedStays ==
  ASSUME AsyncInv, StoppedAborted, [Next]_vars, NEW p \in Int, ResolvedTo(p)
  PROVE  ResolvedTo(p)'
  <1>1. mode = "stopped" => mode' = "stopped"
    BY StoppedStays
  <1>2. CASE mode = "stopped"
    BY <1>1, <1>2 DEF ResolvedTo
  <1>3. CASE mode # "stopped"
    <2>0. /\ emitted \in Int /\ emitted' \in Int /\ emitted <= emitted' /\ Len(batches) \in Nat
          /\ Len(batches') \in Nat
      BY SettledStays, QueueStep, AsyncFacts
    <2>1. emitted >= p /\ \A b \in 1..Len(batches) : batches[b].first <= p => batches[b].state \in Settled
      BY <1>3 DEF ResolvedTo
    <2>2. ASSUME NEW b \in 1..Len(batches'), batches'[b].first <= p
          PROVE  batches'[b].state \in Settled
      <3>1. b <= Len(batches)
        <4>1. b > Len(batches) => batches'[b].first > emitted
          BY SettledStays
        <4>2. batches'[b].first \in Nat
          <5>1. batches' \in Seq(BatchRecord)
            BY QueueStep
          <5>2. batches'[b] \in BatchRecord
            BY <5>1, ElementOfSeq
          <5> QED
            BY <5>2 DEF BatchRecord
        <4> QED
          BY <2>0, <2>1, <2>2, <4>1, <4>2
      <3>2. b \in 1..Len(batches)
        BY <2>0, <3>1
      <3>3. batches'[b].first = batches[b].first /\ (batches[b].state \in Settled => batches'[b] = batches[b])
        BY <3>2, SettledStays
      <3> QED
        BY <2>1, <2>2, <3>2, <3>3
    <2> QED
      BY <2>0, <2>1, <2>2 DEF ResolvedTo
  <1> QED
    BY <1>2, <1>3

LEMMA UnreadyStep ==
  ASSUME AsyncInv, Unready, [Next]_vars
  PROVE  Unready' /\ (coord = "ready" => coord' = "ready")
  <1> USE DEF ingress, entries
  <1>0. \A i \in Appends : Admit(i) => admitted' = admitted \/ admitted' = Append(admitted, i)
    BY DEF Admit
  <1>1. CASE AppendCall
    <2>1. coord = "ready" => coord' = "ready"
      BY <1>1 DEF AppendCall, Acquired
    <2>2. coord' # "ready" => admitted' = admitted
      BY <1>1 DEF AppendCall, Direct
    <2> QED
      BY <2>1, <2>2 DEF Unready
  <1>2. ASSUME NEW i \in Appends, Ingress(i)
        PROVE  coord' = coord /\ (admitted' = admitted \/ coord = "ready")
    BY <1>2 DEF Ingress
  <1>3. CASE Started
    BY <1>3 DEF Started, Unready
  <1>4. Worker \/ Linger \/ Answering \/ Fault \/ Abort \/ UNCHANGED vars => UNCHANGED <<coord, admitted>>
    BY DEF Worker, Linger, Answering, Serve, ServeClose, Fault, Abort, vars
  <1>5. ASSUME NEW c \in Calls, Begin(c) \/ Call(c)
        PROVE  admitted' = admitted /\ (coord' = coord \/ coord = "none")
    BY <1>5 DEF Begin, Call, IngressDone, Drained, Acquire, Unacquired, Enter, InnerDrained,
                CloseAnswered, Release, Rejected
  <1> QED
    BY <1>1, <1>2, <1>3, <1>4, <1>5 DEF Next, Client, Unready

LEMMA ThroughStep ==
  ASSUME AsyncInv, Through, [Next]_vars
  PROVE  Through'
  <1> USE DEF ingress, entries
  <1>0. /\ admitted \in Seq(Appends) /\ Len(admitted) \in Nat
        /\ stage \in [Appends -> {"new", "chained", "admitted", "settled"}]
    BY AsyncFacts DEF AsyncInv, AsyncTypeOK
  <1>1. ASSUME NEW i \in Appends, Admit(i) PROVE Through'
    <2>1. stage' = [stage EXCEPT ![i] = "admitted"]
      BY <1>1 DEF Admit
    <2>2. CASE refused' = refused \cup {i} /\ admitted' = admitted
      BY <1>0, <2>1, <2>2 DEF Through
    <2>3. CASE refused' = refused /\ admitted' = Append(admitted, i)
      <3> DEFINE n == Len(admitted)
      <3>1. /\ Len(admitted') = n + 1 /\ admitted'[n + 1] = i
            /\ \A p \in 1..n : admitted'[p] = admitted[p]
        BY <1>0, <2>3, AppendProperties
      <3>2. n + 1 \in 1..Len(admitted') /\ \A p \in 1..n : p \in 1..Len(admitted')
        BY <1>0, <3>1
      <3>3. ASSUME NEW j \in Appends, stage'[j] \in {"admitted", "settled"}
            PROVE  j \in refused' \/ \E p \in 1..Len(admitted') : admitted'[p] = j
        <4>1. CASE j = i
          BY <3>1, <3>2, <4>1
        <4>2. CASE j # i
          <5>1. j \in refused \/ \E p \in 1..n : admitted[p] = j
            BY <1>0, <2>1, <3>3, <4>2 DEF Through
          <5> QED
            BY <2>3, <3>1, <3>2, <5>1
        <4> QED
          BY <4>1, <4>2
      <3> QED
        BY <3>3 DEF Through
    <2> QED
      BY <1>1, <2>2, <2>3 DEF Admit
  <1>2. CASE AppendCall
    <2>1. made' \in Appends
      BY <1>2, AsyncFacts DEF AppendCall, Appends
    <2>2. CASE Admit(made')
      BY <1>1, <2>1, <2>2
    <2>3. CASE stage' = [stage EXCEPT ![made'] = "chained"] /\ UNCHANGED entries
      BY <1>0, <2>1, <2>3 DEF Through
    <2> QED
      BY <1>2, <2>2, <2>3 DEF AppendCall
  <1>3. ASSUME NEW i \in Appends, Ingress(i) PROVE Through'
    <2>1. CASE Admit(i)
      BY <1>1, <2>1
    <2>2. CASE stage' = [stage EXCEPT ![i] = "admitted"] /\ refused' = refused \cup {i} /\ admitted' = admitted
      BY <1>0, <2>2 DEF Through
    <2>3. CASE stage[i] = "admitted" /\ stage' = [stage EXCEPT ![i] = "settled"] /\ UNCHANGED entries
      BY <1>0, <2>3 DEF Through
    <2> QED
      BY <1>3, <2>1, <2>2, <2>3 DEF Ingress
  <1>4. CASE UNCHANGED <<stage, refused, admitted>>
    BY <1>4 DEF Through
  <1>5. Started \/ Worker \/ Linger \/ Answering \/ Fault \/ Abort \/ UNCHANGED vars
          => UNCHANGED <<stage, refused, admitted>>
    BY DEF Started, Worker, Linger, Answering, Serve, ServeClose, Fault, Abort, vars
  <1>6. ASSUME NEW c \in Calls, Begin(c) \/ Call(c)
        PROVE  UNCHANGED <<stage, refused, admitted>>
    BY <1>6 DEF Begin, Call, IngressDone, Drained, Acquire, Unacquired, Enter, InnerDrained,
                CloseAnswered, Release, Rejected
  <1> QED
    BY <1>2, <1>3, <1>4, <1>5, <1>6 DEF Next, Client

\* A loop that is left finds nothing waiting, pending or in flight.
LEMMA LeftQuiet ==
  ASSUME AsyncInv, Unready, ~Again
  PROVE  Quiet
  <1>1. waits = {}
    BY DEF Again
  <1>2. CASE mode = "stopped"
    BY <1>1, <1>2 DEF Quiet, ResolvedTo
  <1>3. CASE coord = "ready" /\ mode # "stopped"
    <2>1. emitted >= Len(admitted) /\ InFlight = {}
      BY <1>3, AsyncFacts DEF Again
    <2> QED
      BY <1>1, <2>1 DEF Quiet, ResolvedTo, InFlight
  <1>4. CASE coord # "ready" /\ mode # "stopped"
    <2>1. Len(admitted) = 0 /\ emitted = 0 /\ Len(batches) = 0
      BY <1>4, AsyncFacts DEF Unready
    <2> QED
      BY <1>1, <2>1 DEF Quiet, ResolvedTo
  <1> QED
    BY <1>2, <1>3, <1>4

\* With nothing waiting and all resolved, every append has its outcome.
LEMMA QuietEnds ==
  ASSUME AsyncInv, Through, Quiet
  PROVE  \A i \in 1..made : Ended(i)
  <1> SUFFICES ASSUME NEW i \in 1..made PROVE Ended(i)
    OBVIOUS
  <1>1. i \in Appends /\ stage[i] \in {"new", "chained", "admitted", "settled"}
    <2>1. i \in Appends
      BY AsyncFacts DEF Appends
    <2>2. stage \in [Appends -> {"new", "chained", "admitted", "settled"}]
      BY DEF AsyncInv, AsyncTypeOK
    <2> QED
      BY <2>1, <2>2
  <1>2. stage[i] \notin {"new", "chained"}
    BY <1>1, AsyncFacts DEF AsyncInv, AdmitInv, Quiet
  <1>3. CASE i \in refused
    BY <1>3 DEF Ended
  <1>4. ASSUME NEW p \in 1..Len(admitted), admitted[p] = i PROVE Ended(i)
    <2>1. ResolvedTo(Len(admitted)) /\ p <= Len(admitted) /\ Len(admitted) \in Nat /\ emitted \in Nat
      BY AsyncFacts DEF Quiet
    <2>2. \A b \in 1..Len(batches) : batches[b].first \in Nat
      BY AsyncFacts DEF BatchRecord
    <2>3. ResolvedTo(p)
      BY <2>1, <2>2 DEF ResolvedTo
    <2> QED
      BY <1>4, <2>3 DEF Ended
  <1> QED
    BY <1>1, <1>2, <1>3, <1>4 DEF Through

LEMMA QuietStays ==
  ASSUME AsyncInv, StoppedAborted, closed, Quiet, [Next]_vars
  PROVE  closed' /\ Quiet'
  <1> USE DEF ingress, entries, calls
  <1>1. /\ waits' = {} /\ admitted' = admitted
    <2>0. waits = {} /\ \A i \in Appends : stage[i] # "chained"
      BY DEF Quiet, AsyncInv, AdmitInv
    <2>1. ~AppendCall
      BY DEF AppendCall
    <2>2. ASSUME NEW i \in Appends, Ingress(i) PROVE waits' = {} /\ admitted' = admitted
      BY <2>0, <2>2 DEF Ingress
    <2>3. Started \/ Worker \/ Linger \/ Answering \/ Fault \/ Abort \/ UNCHANGED vars
            => UNCHANGED <<waits, admitted>>
      BY DEF Started, Worker, Linger, Answering, Serve, ServeClose, Fault, Abort, vars
    <2>4. ASSUME NEW c \in Calls, Begin(c) \/ Call(c) PROVE UNCHANGED <<waits, admitted>>
      BY <2>4 DEF Begin, Call, IngressDone, Drained, Acquire, Unacquired, Enter, InnerDrained,
                  CloseAnswered, Release, Rejected
    <2> QED
      BY <2>0, <2>1, <2>2, <2>3, <2>4 DEF Next, Client
  <1>2. closed'
    <2>1. ASSUME NEW c \in Calls, Begin(c) PROVE closed'
      BY <2>1 DEF Begin, StartClosed
    <2>2. ASSUME NEW c \in Calls, Call(c) PROVE closed' = closed
      BY <2>2 DEF Call, IngressDone, Drained, Acquire, Unacquired, Enter, InnerDrained,
                  CloseAnswered, Release, Rejected
    <2>3. AppendCall \/ Client \/ Answering \/ Fault \/ Abort \/ UNCHANGED vars => closed' = closed
      BY DEF AppendCall, Client, Started, Worker, Linger, Ingress, Answering, Serve, ServeClose, Fault, Abort, vars
    <2> QED
      BY <2>1, <2>2, <2>3 DEF Next
  <1>3. Len(admitted) \in Int
    BY AsyncFacts
  <1>4. ResolvedTo(Len(admitted))'
    <2> DEFINE n == Len(admitted)
    <2>1. ResolvedTo(n) /\ n \in Int
      BY <1>3 DEF Quiet
    <2>2. \A p \in Int : ResolvedTo(p) => (ResolvedTo(p))'
      BY ResolvedStays
    <2>3. Len(admitted') = n
      BY <1>1
    <2> HIDE DEF n
    <2>4. \/ mode' = "stopped"
          \/ emitted' >= n /\ \A b \in 1..Len(batches') : batches'[b].first <= n => batches'[b].state \in Settled
      BY <2>1, <2>2 DEF ResolvedTo
    <2> QED
      BY <2>3, <2>4 DEF ResolvedTo
  <1> QED
    BY <1>1, <1>2, <1>4 DEF Quiet


\* Where a call goes: on to "acquire" only once its flush left the loop.
LEMMA CallMoves ==
  ASSUME AsyncInv, [Next]_vars, NEW c \in Calls
  PROVE  /\ pc'[c] # "new" => pc[c] # "new" \/ (c \in Closes => closed')
         /\ c \in Closes /\ pc'[c] \in {"acquire"} \cup Inside =>
              pc[c] \in {"acquire"} \cup Inside \/ (pc[c] \in Flushing /\ ~Again)
         /\ pc[c] \in Flushing /\ pc'[c] \notin Flushing /\ ~aborted => ~Again
  <1> USE DEF calls, Inside, Flushing
  <1>0. /\ DOMAIN pc = Calls /\ pc \in [Calls -> Places] /\ \A d \in Closes : d \in Calls
    BY PlainTyped DEF PlainTypes, Calls
  <1> DEFINE Goal ==
        /\ pc'[c] # "new" => pc[c] # "new" \/ (c \in Closes => closed')
        /\ c \in Closes /\ pc'[c] \in {"acquire"} \cup Inside =>
             pc[c] \in {"acquire"} \cup Inside \/ (pc[c] \in Flushing /\ ~Again)
        /\ pc[c] \in Flushing /\ pc'[c] \notin Flushing /\ ~aborted => ~Again
  <1> SUFFICES Goal
    OBVIOUS
  <1>1. CASE pc'[c] = pc[c]
    BY <1>1
  <1>2. CASE Begin(c)
    <2>1. pc[c] = "new"
      BY <1>2 DEF Begin
    <2>2. CASE c \in Detaches /\ closed /\ End(c, "ok") /\ UNCHANGED <<mark, closed, finalBody>>
      BY <1>0, <2>1, <2>2 DEF End
    <2>3. CASE StartFlush(c) /\ closed' = StartClosed(c)
      <3>1. pc'[c] = "ingress"
        BY <1>0, <2>3 DEF StartFlush, Go
      <3>2. c \in Closes => closed'
        BY <2>3 DEF StartClosed
      <3> QED
        BY <2>1, <3>1, <3>2
    <2> QED
      BY <1>2, <2>2, <2>3 DEF Begin
  <1>3. ASSUME Looped(c), pc[c] \in Flushing PROVE Goal
    <2>1. CASE Again /\ StartFlush(c)
      <3>1. pc'[c] = "ingress"
        BY <1>0, <2>1 DEF StartFlush, Go
      <3> QED
        BY <1>3, <3>1
    <2>2. CASE ~Again
      BY <1>3, <2>2
    <2> QED
      BY <1>3, <2>1, <2>2 DEF Looped
  <1>4. ASSUME FlushRejected(c), aborted, pc[c] \in Flushing PROVE Goal
    <2>1. pc'[c] \in {"release", "done"}
      BY <1>0, <1>4 DEF FlushRejected, Go, End
    <2> QED
      BY <1>4, <2>1
  <1>5. CASE IngressDone(c)
    <2>1. pc[c] \in Flushing
      BY <1>5 DEF IngressDone
    <2>2. CASE Drain(c) /\ Go(c, "drain")
      <3>1. pc'[c] = "drain"
        BY <1>0, <2>2 DEF Go
      <3> QED
        BY <2>1, <3>1
    <2> QED
      BY <1>3, <1>4, <1>5, <2>1, <2>2 DEF IngressDone
  <1>6. CASE Drained(c)
    BY <1>3, <1>6 DEF Drained
  <1>7. ASSUME pc[c] \in {"acquire"} \cup Inside \cup {"release"},
               pc'[c] \in Inside \cup {"release", "done"},
               pc[c] = "release" => pc'[c] = "done"
        PROVE  Goal
    BY <1>7
  <1>8. CASE Acquire(c) \/ Unacquired(c) \/ Enter(c) \/ InnerDrained(c) \/ CloseAnswered(c) \/ Release(c)
    <2>1. CASE Acquire(c)
      BY <1>1, <2>1 DEF Acquire
    <2>2. CASE Unacquired(c)
      BY <1>0, <1>7, <2>2 DEF Unacquired, End
    <2>3. CASE Enter(c)
      BY <1>0, <1>7, <2>3 DEF Enter, Go
    <2>4. CASE InnerDrained(c)
      BY <1>0, <1>7, <2>4 DEF InnerDrained, Go, End
    <2>5. CASE CloseAnswered(c)
      BY <1>0, <1>7, <2>5 DEF CloseAnswered, Go
    <2>6. CASE Release(c)
      BY <1>0, <1>7, <2>6 DEF Release, End
    <2> QED
      BY <1>8, <2>1, <2>2, <2>3, <2>4, <2>5, <2>6
  <1>9. CASE Rejected(c)
    <2>1. CASE pc[c] = "drain" /\ FlushRejected(c)
      BY <1>4, <1>9, <2>1 DEF Rejected
    <2>2. CASE pc[c] \in {"acquire"} \cup Inside /\ (Go(c, "release") \/ End(c, "fail"))
      <3>1. pc'[c] \in {"release", "done"}
        BY <1>0, <2>2 DEF Go, End
      <3> QED
        BY <1>7, <2>2, <3>1
    <2> QED
      BY <1>9, <2>1, <2>2 DEF Rejected
  <1>10. ASSUME NEW d \in Calls, d # c, Begin(d) \/ Call(d) PROVE pc'[c] = pc[c]
    <2>1. \E w : pc' = [pc EXCEPT ![d] = w]
      <3>1. pc' = pc => pc' = [pc EXCEPT ![d] = pc[d]]
        BY <1>0
      <3> QED
        BY <1>10, <3>1
           DEF Begin, Call, IngressDone, Drained, Acquire, Unacquired, Enter, InnerDrained, CloseAnswered,
               Release, Rejected, Looped, Flushed, FlushRejected, StartFlush, Go, End
    <2> QED
      BY <1>0, <1>10, <2>1
  <1>11. CASE AppendCall \/ Client \/ Abort \/ UNCHANGED vars
    <2>1. pc' = pc
      BY <1>11 DEF AppendCall, Client, Started, Worker, Linger, Ingress, Abort, vars
    <2> QED
      BY <1>1, <2>1
  <1>12. CASE Answering
    <2>1. CASE pc' = pc
      BY <1>1, <2>1
    <2>2. ASSUME NEW d \in Closes, ServeClose(d) PROVE Goal
      <3>1. pc[d] = "sending" /\ pc' = [pc EXCEPT ![d] = "answered"] /\ d \in Calls
        BY <1>0, <2>2 DEF ServeClose, Go
      <3> QED
        BY <1>0, <1>1, <1>7, <3>1
    <2> QED
      BY <1>12, <2>1, <2>2 DEF Answering, Serve
  <1>13. CASE Fault
    <2>1. CASE pc' = pc
      BY <1>1, <2>1
    <2>2. ASSUME NEW d \in Closes, pc[d] \in {"sending", "answered"}, Go(d, "answered") PROVE Goal
      <3>1. pc' = [pc EXCEPT ![d] = "answered"] /\ d \in Calls
        BY <1>0, <2>2 DEF Go
      <3> QED
        BY <1>0, <1>1, <1>7, <2>2, <3>1
    <2> QED
      BY <1>13, <2>1, <2>2 DEF Fault
  <1> HIDE DEF Goal
  <1>14. ASSUME NEW d \in Calls, Begin(d) \/ Call(d) PROVE Goal
    <2>1. CASE d # c
      BY <1>1, <1>10, <1>14, <2>1
    <2>2. CASE d = c
      BY <1>2, <1>5, <1>6, <1>8, <1>9, <1>14, <2>2 DEF Call
    <2> QED
      BY <2>1, <2>2
  <1> QED
    BY <1>11, <1>12, <1>13, <1>14 DEF Next

LEMMA CloseQuietStep ==
  ASSUME AsyncInv, FlushInv, [Next]_vars
  PROVE  CloseQuiet'
  <1>0. \A c \in Closes : c \in Calls
    BY DEF Calls
  <1>1. StoppedAborted /\ Unready /\ CloseQuiet
    BY DEF FlushInv
  <1>2. closed => closed'
    <2>1. ASSUME NEW c \in Calls, Begin(c) PROVE closed => closed'
      BY <2>1 DEF Begin, StartClosed
    <2>2. ASSUME NEW c \in Calls, Call(c) PROVE closed' = closed
      BY <2>2 DEF Call, IngressDone, Drained, Acquire, Unacquired, Enter, InnerDrained,
                  CloseAnswered, Release, Rejected, calls
    <2>3. AppendCall \/ Client \/ Answering \/ Fault \/ Abort \/ UNCHANGED vars => closed' = closed
      BY DEF AppendCall, Client, Started, Worker, Linger, Ingress, Answering, Serve, ServeClose,
             Fault, Abort, vars, calls
    <2> QED
      BY <2>1, <2>2, <2>3 DEF Next
  <1>3. ASSUME NEW c \in Closes, pc'[c] # "new" PROVE closed'
    BY <1>0, <1>1, <1>2, <1>3, CallMoves DEF CloseQuiet
  <1>4. ASSUME NEW c \in Closes, pc'[c] \in {"acquire"} \cup Inside PROVE Quiet'
    <2>1. pc[c] # "new" /\ Quiet
      <3>1. CASE pc[c] \in {"acquire"} \cup Inside
        BY <1>1, <3>1 DEF CloseQuiet, Inside
      <3>2. CASE pc[c] \in Flushing /\ ~Again
        BY <1>1, <3>2, LeftQuiet DEF Flushing
      <3> QED
        BY <1>0, <1>4, <3>1, <3>2, CallMoves
    <2> QED
      BY <1>1, <2>1, QuietStays DEF CloseQuiet
  <1>5. ASSUME mode' = "closing" PROVE closed' /\ Quiet'
    <2>1. CASE mode = "closing"
      BY <1>1, <2>1, QuietStays DEF CloseQuiet
    <2>2. ASSUME NEW c \in Closes, pc[c] = "acquire" PROVE closed' /\ Quiet'
      BY <1>1, <2>2, QuietStays DEF CloseQuiet
    <2>3. CASE mode' = mode
      BY <1>5, <2>1, <2>3
    <2>4. ASSUME NEW c \in Calls, Begin(c) \/ Call(c)
          PROVE  mode' = mode \/ (c \in Closes /\ pc[c] = "acquire")
      BY <2>4 DEF Begin, Call, IngressDone, Drained, Acquire, Unacquired, Enter, InnerDrained,
                  CloseAnswered, Release, Rejected
    <2>5. AppendCall \/ Client \/ Answering \/ Fault \/ UNCHANGED vars => mode' = mode
      BY DEF AppendCall, Client, Started, Worker, Linger, Ingress, Answering, Serve, ServeClose,
             Fault, vars
    <2>6. Abort => mode' = mode \/ mode' = "stopped"
      BY DEF Abort
    <2> QED
      BY <1>5, <2>2, <2>3, <2>4, <2>5, <2>6 DEF Next
  <1> QED
    BY <1>3, <1>4, <1>5 DEF CloseQuiet

LEMMA InitFlush == Init => FlushInv
  <1> SUFFICES ASSUME Init PROVE FlushInv
    OBVIOUS
  <1>1. Len(admitted) = 0
    BY EmptySeq DEF Init
  <1>2. \A c \in Closes : pc[c] = "new"
    BY DEF Init, Calls
  <1> QED
    BY <1>1, <1>2 DEF Init, FlushInv, Through, Unready, StoppedAborted, CloseQuiet, Inside

LEMMA FlushHolds == Spec => [](AsyncInv /\ FlushInv)
  <1>1. AsyncInv /\ FlushInv /\ [Next]_vars => FlushInv'
    BY ThroughStep, UnreadyStep, StoppedStays, CloseQuietStep DEF FlushInv
  <1> QED
    BY <1>1, AsyncHolds, InitFlush, PTL DEF Spec

(* A flush that resolves leaves nothing behind (what was called while it   *)
(* drained included), and a close is stored only when every append called  *)
(* before it has its outcome.                                              *)
THEOREM FlushLeaves == Spec => FlushLeavesNothing
  <1> DEFINE Step ==
        /\ \A c \in Calls : pc[c] \in Flushing /\ pc'[c] \notin Flushing /\ ~aborted
                              => \A i \in 1..made : Ended(i)
        /\ sClosed' # sClosed => \A i \in 1..made : Ended(i)
  <1>1. ASSUME AsyncInv, FlushInv, [Next]_vars
        PROVE  Step
    <2>1. Quiet => \A i \in 1..made : Ended(i)
      BY <1>1, QuietEnds DEF FlushInv
    <2>2. ASSUME NEW c \in Calls, pc[c] \in Flushing, pc'[c] \notin Flushing, ~aborted
          PROVE  Quiet
      BY <1>1, <2>2, CallMoves, LeftQuiet DEF FlushInv
    <2>3. ASSUME sClosed' # sClosed PROVE Quiet
      <3>1. \E c \in Closes : ServeClose(c)
        <4>1. ASSUME NEW b \in 1..Len(batches), Serve(b) PROVE sClosed' = sClosed
          BY <1>1, <4>1, AsyncFacts DEF Serve, Store, server
        <4>2. AppendCall \/ Client \/ Fault \/ Abort \/ UNCHANGED vars => sClosed' = sClosed
          BY DEF AppendCall, Client, Started, Worker, Linger, Ingress, Fault, Abort, vars, server
        <4>3. ASSUME NEW c \in Calls, Begin(c) \/ Call(c) PROVE sClosed' = sClosed
          BY <4>3 DEF Begin, Call, IngressDone, Drained, Acquire, Unacquired, Enter, InnerDrained,
                      CloseAnswered, Release, Rejected, server
        <4> QED
          BY <1>1, <2>3, <4>1, <4>2, <4>3 DEF Next, Answering
      <3> QED
        BY <1>1, <3>1 DEF ServeClose, FlushInv, CloseQuiet, Inside
    <2> QED
      BY <2>1, <2>2, <2>3
  <1>2. Step <=> /\ \A c \in Calls : pc[c] \in Flushing /\ pc'[c] \notin Flushing /\ ~aborted
                                       => \A i \in 1..made : Ended(i)
                 /\ sClosed' # sClosed => \A i \in 1..made : Ended(i)
    OBVIOUS
  <1> HIDE DEF Step
  <1>3. [][Step]_vars <=> FlushLeavesNothing
    BY <1>2, PTL DEF FlushLeavesNothing
  <1> QED
    BY <1>1, <1>3, FlushHolds, PTL DEF Spec


-----------------------------------------------------------------------------
(* Pipelining and mixed calls fail nothing. *)

CleanStates == {"queued", "sent", "stored", "gap", "gapwait", "ok"}
CleanBatch(r, b) ==
  /\ r.epoch = 0 /\ r.seq = b - 1 /\ r.state \in CleanStates
  /\ r.state = "gap" => r.want < r.seq
  /\ r.state = "gapwait" => r.on \in 1..Len(batches)
  /\ b - 1 <= sLast => r.state \in {"stored", "ok"}

\* As long as nothing failed and no epoch was left: sequences count the
\* batches, what the server stored is a prefix of them, and a batch that is
\* not yet through is known.
Clean ==
  /\ refused = {} /\ sEpoch = 0 /\ -1 <= sLast /\ failSeq = -1
  /\ nextSeq = Len(batches) + (IF closeResult THEN 1 ELSE 0)
  /\ sClosed = NoRequest => sLast < Len(batches)
  /\ \A b \in 1..Len(batches) : CleanBatch(batches[b], b)
  /\ \A s \in 0..(Len(batches) - 1) : s > through => known[s] = s + 1

HarmInv ==
  /\ faults = 0 => ~aborted
  /\ coord = "failed" => aborted
  /\ closeReq.epoch <= epoch
  /\ \A b \in 1..Len(batches) : batches[b].first <= emitted
  /\ sClosed # NoRequest \/ closeResult => closed /\ Quiet
  /\ faults = 0 /\ epoch = 0 => Clean

CleanInv == AsyncInv /\ FlushInv /\ HarmInv /\ faults = 0 /\ epoch = 0

LEMMA CleanFacts ==
  ASSUME CleanInv
  PROVE  /\ Clean /\ ~aborted /\ mode # "stopped" /\ coord # "failed"
         /\ sLast \in Int /\ through \in -1..MaxAppends /\ closeResult \in BOOLEAN
         /\ closeReq.epoch <= 0 /\ closeReq.epoch \in Int /\ closeReq.seq \in Int
         /\ Quiet => emitted = Len(admitted) /\ \A b \in 1..Len(batches) : batches[b].state \in Settled
         /\ sClosed # NoRequest \/ closeResult => closed /\ Quiet
  <1>1. Clean /\ ~aborted /\ mode # "stopped" /\ coord # "failed"
    BY DEF CleanInv, HarmInv, FlushInv, StoppedAborted
  <1>2. /\ sLast \in Int /\ through \in -1..MaxAppends /\ closeReq \in [epoch : Int, seq : Int]
    BY DEF CleanInv, AsyncInv, AsyncTypeOK, CountInv
  <1>3. closeResult \in BOOLEAN
    BY PlainTyped DEF CleanInv, PlainTypes
  <1>4. closeReq.epoch <= 0
    BY DEF CleanInv, HarmInv
  <1>5. ASSUME Quiet
        PROVE  emitted = Len(admitted) /\ \A b \in 1..Len(batches) : batches[b].state \in Settled
    <2>1. /\ emitted <= Len(admitted) /\ emitted \in Nat /\ Len(admitted) \in Nat
          /\ \A b \in 1..Len(batches) : batches[b].first \in Nat /\ batches[b].first <= emitted
      BY AsyncFacts DEF CleanInv, HarmInv, BatchRecord
    <2>2. emitted >= Len(admitted) /\ \A b \in 1..Len(batches) :
                                        batches[b].first <= Len(admitted) => batches[b].state \in Settled
      BY <1>1, <1>5 DEF Quiet, ResolvedTo
    <2> QED
      BY <2>1, <2>2
  <1>6. sClosed # NoRequest \/ closeResult => closed /\ Quiet
    BY DEF CleanInv, HarmInv
  <1> QED
    BY <1>1, <1>2, <1>3, <1>4, <1>5, <1>6

LEMMA CleanEmit ==
  ASSUME CleanInv, NEW adm, Len(adm) \in Nat, emitted <= Len(adm), Emit(adm),
         emitted # Len(adm) => sClosed = NoRequest /\ ~closeResult,
         UNCHANGED <<refused, sEpoch, sLast, sClosed, failSeq, through, closeResult>>
  PROVE  Clean'
  <1>0. /\ Clean /\ sLast \in Int /\ through \in -1..MaxAppends /\ Len(batches) \in Nat
        /\ known \in [0..MaxAppends -> 0..Len(batches)] /\ AsyncInv /\ epoch = 0
        /\ Len(batches) <= emitted /\ emitted \in Nat /\ Len(admitted) <= MaxAppends
        /\ MaxAppends \in Nat /\ emitted <= Len(admitted) /\ Len(admitted) \in Nat
    BY CleanFacts, AsyncFacts DEF CleanInv
  <1>1. CASE UNCHANGED <<emitted, batches, nextSeq, known>>
    BY <1>0, <1>1 DEF Clean, CleanBatch
  <1>2. CASE /\ emitted < Len(adm) /\ emitted' = Len(adm) /\ nextSeq' = nextSeq + 1
             /\ Len(batches') = Len(batches) + 1
             /\ \A b \in 1..Len(batches) : batches'[b] = batches[b]
             /\ batches'[Len(batches) + 1] =
                  [first |-> emitted + 1, last |-> Len(adm), epoch |-> epoch, seq |-> nextSeq,
                   state |-> "queued", want |-> 0, on |-> 0]
             /\ known' = [known EXCEPT ![nextSeq] = Len(batches) + 1]
    <2> DEFINE n == Len(batches)
    <2>1. sClosed = NoRequest /\ ~closeResult /\ nextSeq = n /\ sLast < n /\ n \in 0..MaxAppends
      BY <1>0, <1>2 DEF Clean
    <2>2. /\ batches'[n + 1].epoch = 0 /\ batches'[n + 1].seq = n
          /\ batches'[n + 1].state = "queued"
      BY <1>0, <1>2, <2>1
    <2>3. ASSUME NEW b \in 1..Len(batches') PROVE CleanBatch(batches[b], b)'
      <3>1. CASE b = n + 1
        <4>1. ~(b - 1 <= sLast') /\ b - 1 = n
          BY <1>0, <2>1, <3>1
        <4> QED
          BY <1>0, <2>2, <3>1, <4>1 DEF CleanBatch, CleanStates
      <3>2. CASE b \in 1..n
        <4>1. CleanBatch(batches[b], b) /\ batches'[b] = batches[b]
          BY <1>0, <1>2, <3>2 DEF Clean
        <4>2. \A k \in 1..Len(batches) : k \in 1..Len(batches')
          BY <1>0, <1>2
        <4>3. sLast' = sLast
          OBVIOUS
        <4> HIDE DEF n
        <4> QED
          BY <4>1, <4>2, <4>3 DEF CleanBatch
      <3> QED
        BY <1>0, <1>2, <3>1, <3>2
    <2>4. ASSUME NEW s \in 0..(Len(batches') - 1), s > through' PROVE known'[s] = s + 1
      <3>1. known' = [known EXCEPT ![n] = n + 1]
        BY <1>2, <2>1
      <3>2. CASE s = n
        BY <1>0, <2>1, <3>1, <3>2
      <3>3. CASE s \in 0..(n - 1)
        <4>1. known[s] = s + 1
          BY <2>4, <3>3, <1>0 DEF Clean
        <4> QED
          BY <1>0, <2>1, <3>1, <3>3, <4>1
      <3> QED
        BY <1>0, <1>2, <3>2, <3>3
    <2>5. nextSeq' = Len(batches') + (IF closeResult' THEN 1 ELSE 0) /\ sLast' < Len(batches')
      BY <1>0, <1>2, <2>1
    <2>6. refused' = {} /\ sEpoch' = 0 /\ -1 <= sLast' /\ failSeq' = -1
      BY <1>0 DEF Clean
    <2>7. \A b \in 1..Len(batches') : (CleanBatch(batches[b], b))'
      BY <2>3
    <2> QED
      BY <2>4, <2>5, <2>6, <2>7 DEF Clean
  <1> QED
    BY <1>0, <1>1, <1>2, EmitShape

\* One batch changes; what is through is forgotten.
LEMMA CleanOne ==
  ASSUME CleanInv, NEW b \in 1..Len(batches), NEW r \in BatchRecord,
         batches' = [batches EXCEPT ![b] = r],
         r.epoch = 0, r.seq = b - 1, r.state \in CleanStates, r.state = "gap" => r.want < r.seq,
         r.state = "gapwait" => r.on \in 1..Len(batches),
         b - 1 <= sLast' => r.state \in {"stored", "ok"},
         sLast' = sLast \/ (sLast' = sLast + 1 /\ sLast' = b - 1),
         through' \in Int, through <= through',
         \A s \in 0..(Len(batches) - 1) : s > through' => known'[s] = known[s],
         UNCHANGED <<refused, sEpoch, sClosed, failSeq, nextSeq, closeResult>>
  PROVE  Clean'
  <1>0. /\ Clean /\ sLast \in Int /\ through \in Int /\ Len(batches) \in Nat
        /\ nextSeq \in Nat /\ closeResult \in BOOLEAN
    BY CleanFacts, AsyncFacts DEF CleanInv
  <1>1. /\ Len(batches') = Len(batches)
        /\ \A a \in 1..Len(batches) : batches'[a] = IF a = b THEN r ELSE batches[a]
    BY ReplacedShape DEF CleanInv
  <1>2. ASSUME NEW a \in 1..Len(batches') PROVE CleanBatch(batches[a], a)'
    <2>1. CASE a = b
      BY <1>1, <2>1 DEF CleanBatch
    <2>2. CASE a # b
      <3>1. CleanBatch(batches[a], a) /\ batches'[a] = batches[a]
        BY <1>0, <1>1, <2>2 DEF Clean
      <3>2. a - 1 <= sLast' => a - 1 <= sLast
        BY <1>0, <2>2
      <3> QED
        BY <1>1, <3>1, <3>2 DEF CleanBatch
    <2> QED
      BY <2>1, <2>2
  <1>3. ASSUME NEW s \in 0..(Len(batches') - 1), s > through' PROVE known'[s] = s + 1
    <2>1. s \in 0..(Len(batches) - 1) /\ s > through /\ known'[s] = known[s]
      BY <1>0, <1>1, <1>3
    <2> QED
      BY <1>0, <2>1 DEF Clean
  <1>4. /\ nextSeq' = Len(batches') + (IF closeResult' THEN 1 ELSE 0)
        /\ sClosed' = NoRequest => sLast' < Len(batches')
        /\ -1 <= sLast'
    <2>1. nextSeq' = Len(batches') + (IF closeResult' THEN 1 ELSE 0)
      BY <1>0, <1>1 DEF Clean
    <2>2. -1 <= sLast /\ (sClosed = NoRequest => sLast < Len(batches))
      BY <1>0 DEF Clean
    <2>3. b <= Len(batches)
      BY <1>0
    <2> QED
      BY <1>0, <1>1, <2>1, <2>2, <2>3
  <1>5. refused' = {} /\ sEpoch' = 0 /\ failSeq' = -1
    BY <1>0 DEF Clean
  <1> QED
    BY <1>2, <1>3, <1>4, <1>5 DEF Clean


LEMMA CleanSame ==
  ASSUME CleanInv, UNCHANGED <<refused, sEpoch, sLast, sClosed, failSeq, through, nextSeq, closeResult,
                               batches, known>>
  PROVE  Clean'
  BY CleanFacts DEF Clean, CleanBatch

LEMMA CleanAdmit ==
  ASSUME CleanInv, NEW i \in Appends, Admit(i), ~(closed /\ Quiet),
         UNCHANGED <<sEpoch, sLast, sClosed, failSeq, through, closeResult>>
  PROVE  Clean'
  <1>0. /\ sClosed = NoRequest /\ ~closeResult /\ mode = "open" /\ ~aborted
        /\ emitted \in Nat /\ Len(admitted) \in Nat /\ emitted <= Len(admitted)
        /\ admitted \in Seq(Appends)
    <2>1. mode \in {"open", "closing", "stopped"}
      BY PlainTyped DEF CleanInv, PlainTypes
    <2>2. mode = "closing" => closed /\ Quiet
      BY DEF CleanInv, FlushInv, CloseQuiet
    <2> QED
      BY <2>1, <2>2, CleanFacts, AsyncFacts DEF CleanInv
  <1>1. admitted' = Append(admitted, i) /\ UNCHANGED refused
    BY <1>0 DEF Admit
  <1>2. Emit(admitted') \/ UNCHANGED <<emitted, batches, nextSeq, known>>
    BY <1>0 DEF Admit
  <1>3. Len(admitted') \in Nat /\ emitted <= Len(admitted')
    BY <1>0, <1>1, AppendProperties
  <1> QED
    BY <1>0, <1>1, <1>2, <1>3, CleanEmit, CleanSame

\* What is pending is not emitted after the flush of a close.
LEMMA CleanPending ==
  ASSUME CleanInv, Emit(admitted),
         UNCHANGED <<refused, sEpoch, sLast, sClosed, failSeq, through, closeResult>>
  PROVE  Clean'
  <1>1. Len(admitted) \in Nat /\ emitted <= Len(admitted)
    BY AsyncFacts DEF CleanInv
  <1>2. emitted # Len(admitted) => sClosed = NoRequest /\ ~closeResult
    BY CleanFacts
  <1> QED
    BY <1>1, <1>2, CleanEmit

LEMMA CleanComplete ==
  ASSUME CleanInv, NEW b \in 1..Len(batches), batches[b].state = "stored", Complete(b, "ok"),
         UNCHANGED <<epoch, nextSeq, refused, sEpoch, sLast, sClosed, closeResult>>
  PROVE  Clean'
  <1> DEFINE st == "ok"
             r == [batches[b] EXCEPT !.state = st]
  <1>0. /\ Clean /\ batches[b] \in BatchRecord /\ CleanBatch(batches[b], b) /\ Len(batches) \in Nat
        /\ through \in -1..MaxAppends /\ MaxAppends \in Nat /\ failSeq = -1
    BY CleanFacts, AsyncFacts DEF Clean, CleanInv
  <1>1. /\ batches' = [batches EXCEPT ![b].state = st]
        /\ through' \in -1..MaxAppends /\ through <= through'
        /\ known' = [s \in 0..MaxAppends |->
                       IF s \in (through + 1)..through' THEN 0 ELSE known[s]]
        /\ failSeq' = failSeq
    BY CompleteShape DEF CleanInv
  <1>2. st \in Settled \cup Working \cup {"queued"} /\ st \in CleanStates /\ st = "ok"
    BY DEF Settled, CleanStates
  <1> HIDE DEF st
  <1>3. batches' = [batches EXCEPT ![b] = r] /\ r \in BatchRecord
    BY <1>1, <1>2, StateOnly DEF CleanInv
  <1>4. r.epoch = batches[b].epoch /\ r.seq = batches[b].seq /\ r.state = st
    BY <1>0 DEF BatchRecord
  <1> HIDE DEF r
  <1>5. r.epoch = 0 /\ r.seq = b - 1 /\ r.state \in CleanStates /\ r.state # "gap"
    BY <1>0, <1>2, <1>4 DEF CleanBatch
  <1>6. Len(batches) <= MaxAppends
    BY AsyncFacts DEF CleanInv
  <1>7. \A s \in 0..(Len(batches) - 1) : s > through' => known'[s] = known[s]
    BY <1>0, <1>1, <1>6
  <1>8. through' \in Int
    BY <1>0, <1>1
  <1> QED
    BY <1>1, <1>2, <1>3, <1>4, <1>5, <1>7, <1>8, CleanOne

\* A batch that met a gap is neither fatal nor given up.
LEMMA CleanAwait ==
  ASSUME CleanInv, NEW b \in 1..Len(batches), batches[b].state \in {"gap", "gapwait"}, AwaitEarlier(b),
         UNCHANGED <<refused, sEpoch, sLast, sClosed, closeResult>>
  PROVE  Clean'
  <1>0. /\ Clean /\ batches[b] \in BatchRecord /\ CleanBatch(batches[b], b) /\ Len(batches) \in Nat
        /\ through \in -1..MaxAppends /\ MaxAppends \in Nat /\ sLast \in Int
        /\ known \in [0..MaxAppends -> 0..Len(batches)]
        /\ batches \in [1..Len(batches) -> BatchRecord]
    BY CleanFacts, AsyncFacts DEF Clean, CleanInv
  <1>1. ~(b - 1 <= sLast) /\ batches[b].epoch = 0 /\ batches[b].seq = b - 1
    BY <1>0 DEF CleanBatch
  <1>2. ASSUME NEW r \in BatchRecord, batches' = [batches EXCEPT ![b] = r], UNCHANGED sequencing,
               r.epoch = 0, r.seq = b - 1, r.state \in {"sent", "gapwait"},
               r.state = "gapwait" => r.on \in 1..Len(batches)
        PROVE  Clean'
    <2>1. r.state \in CleanStates /\ r.state # "gap"
      BY <1>2 DEF CleanStates
    <2>2. UNCHANGED <<through, failSeq, nextSeq, known>> /\ through' \in Int /\ through <= through'
      BY <1>0, <1>2 DEF sequencing
    <2> QED
      BY <1>1, <1>2, <2>1, <2>2, CleanOne
  <1>3. CASE batches' = [batches EXCEPT ![b].state = "sent"] /\ UNCHANGED sequencing
    <2> DEFINE st == "sent"
               r == [batches[b] EXCEPT !.state = st]
    <2>1. st \in Settled \cup Working \cup {"queued"} /\ st = "sent"
      BY DEF Working
    <2>2. batches' = [batches EXCEPT ![b].state = st]
      BY <1>3
    <2> HIDE DEF st
    <2>3. batches' = [batches EXCEPT ![b] = r] /\ r \in BatchRecord
      BY <2>1, <2>2, StateOnly DEF CleanInv
    <2>4. r.epoch = batches[b].epoch /\ r.seq = batches[b].seq /\ r.state = st
      BY <1>0 DEF BatchRecord
    <2> HIDE DEF r
    <2> QED
      BY <1>1, <1>2, <1>3, <2>1, <2>3, <2>4
  <1>4. ASSUME NEW s \in 0..MaxAppends, known[s] \in 1..Len(batches), UNCHANGED sequencing,
               batches' = [batches EXCEPT ![b].state = "gapwait", ![b].want = s + 1, ![b].on = known[s]]
        PROVE  Clean'
    <2> DEFINE st == "gapwait"
               w == s + 1
               o == known[s]
               r == [batches[b] EXCEPT !.state = st, !.want = w, !.on = o]
    <2>1. /\ st \in Settled \cup Working \cup {"queued"} /\ st = "gapwait" /\ w \in Int
          /\ o \in Nat /\ o \in 1..Len(batches)
      BY <1>0, <1>4 DEF Working
    <2>2. batches' = [batches EXCEPT ![b] = r]
      BY <1>4
    <2> HIDE DEF st, w, o
    <2>3. /\ r \in BatchRecord /\ r.epoch = batches[b].epoch /\ r.seq = batches[b].seq
          /\ r.state = st /\ r.on = o
      BY <1>0, <2>1 DEF BatchRecord
    <2> HIDE DEF r
    <2> QED
      BY <1>1, <1>2, <1>4, <2>1, <2>2, <2>3
  <1>5. ASSUME NEW s \in 0..MaxAppends, s \in Earlier(b), s > through PROVE known[s] # 0
    <2>1. s \in 0..(Len(batches) - 1)
      BY <1>0, <1>1, <1>5 DEF Earlier, BatchRecord
    <2>2. known[s] = s + 1
      BY <1>5, <2>1, <1>0 DEF Clean
    <2> QED
      BY <2>2
  <1>6. ASSUME NEW s \in 0..MaxAppends, s \in Earlier(b), s > through,
               \/ known[s] = 0 /\ Complete(b, "fail") /\ UNCHANGED <<epoch, nextSeq>>
               \/ /\ known[s] \in 1..Len(batches) /\ UNCHANGED sequencing
                  /\ batches' = [batches EXCEPT ![b].state = "gapwait", ![b].want = s + 1,
                                                ![b].on = known[s]]
        PROVE  Clean'
    BY <1>4, <1>5, <1>6
  <1> QED
    BY <1>3, <1>6, AwaitShape DEF CleanInv

LEMMA CleanWorker ==
  ASSUME CleanInv, NEW b \in 1..Len(batches), Take(b) \/ Reply(b),
         UNCHANGED <<refused, sEpoch, sLast, sClosed, closeResult>>
  PROVE  Clean'
  <1>0. /\ Clean /\ batches[b] \in BatchRecord /\ CleanBatch(batches[b], b) /\ Len(batches) \in Nat
        /\ through \in -1..MaxAppends /\ MaxAppends \in Nat /\ failSeq = -1 /\ epoch = 0
    BY CleanFacts, AsyncFacts DEF Clean, CleanInv
  <1>1. CASE Take(b)
    <2> DEFINE st == "sent"
               r == [batches[b] EXCEPT !.state = st]
    <2>1. st \in Settled \cup Working \cup {"queued"} /\ st = "sent" /\ st \in CleanStates
      BY DEF Working, CleanStates
    <2>2. batches' = [batches EXCEPT ![b].state = st] /\ UNCHANGED <<through, failSeq, nextSeq, known>>
      BY <1>1 DEF Take, sequencing
    <2>3. batches[b].state = "queued" /\ through' \in Int /\ through <= through'
      BY <1>0, <1>1, <2>2 DEF Take
    <2> HIDE DEF st
    <2>4. batches' = [batches EXCEPT ![b] = r] /\ r \in BatchRecord
      BY <2>1, <2>2, StateOnly DEF CleanInv
    <2>5. r.epoch = batches[b].epoch /\ r.seq = batches[b].seq /\ r.state = st
      BY <1>0 DEF BatchRecord
    <2> HIDE DEF r
    <2>6. r.epoch = 0 /\ r.seq = b - 1 /\ ~(b - 1 <= sLast)
      BY <1>0, <2>3, <2>5 DEF CleanBatch
    <2>7. /\ r.state \in CleanStates /\ r.state # "gap" /\ r.state # "gapwait"
          /\ \A s \in 0..(Len(batches) - 1) : s > through' => known'[s] = known[s]
      BY <2>1, <2>2, <2>5
    <2> QED
      BY <2>2, <2>3, <2>4, <2>6, <2>7, CleanOne
  <1>2. batches[b].state # "refused"
    BY <1>0 DEF CleanBatch, CleanStates
  <1>3. batches[b].state = "gap" => ~GapIsFatal(b)
    BY <1>0 DEF GapIsFatal, CleanBatch, BatchRecord
  <1>4. CASE Reply(b)
    <2>1. CASE batches[b].state = "stored" /\ Complete(b, "ok") /\ UNCHANGED <<epoch, nextSeq>>
      BY <2>1, CleanComplete
    <2>2. CASE batches[b].state \in {"gap", "gapwait"} /\ AwaitEarlier(b)
      BY <2>2, CleanAwait
    <2>3. batches[b].state = "gapwait" => Awaited(b) # "fail"
      BY <1>0 DEF Awaited, Clean, CleanBatch, CleanStates
    <2> QED
      BY <1>2, <1>3, <1>4, <2>1, <2>2, <2>3 DEF Reply
  <1> QED
    BY <1>1, <1>4


LEMMA CleanServe ==
  ASSUME CleanInv, NEW b \in 1..Len(batches), Serve(b)
  PROVE  Clean'
  <1> DEFINE t == [epoch |-> batches[b].epoch, seq |-> batches[b].seq]
  <1>0. /\ Clean /\ batches[b] \in BatchRecord /\ CleanBatch(batches[b], b) /\ Len(batches) \in Nat
        /\ through \in Int /\ sLast \in Int /\ -1 <= sLast /\ sEpoch = 0 /\ b \in Nat /\ b >= 1
    BY CleanFacts, AsyncFacts DEF Clean, CleanInv
  <1>1. /\ batches[b].state = "sent" /\ UNCHANGED <<refused, failSeq, nextSeq, closeResult, through, known>>
    BY <1>0 DEF Serve, entries, sequencing, closing
  <1>2. sClosed = NoRequest
    BY <1>1, CleanFacts DEF Settled
  <1>3. /\ t.epoch = 0 /\ t.seq = b - 1 /\ ~(b - 1 <= sLast)
    BY <1>0, <1>1 DEF CleanBatch
  <1>4. IF Accepts(t)
        THEN Store(b, t) /\ batches' = [batches EXCEPT ![b].state = "stored"]
        ELSE /\ \E answer \in Refusals(t) :
                  batches' = [batches EXCEPT ![b].state = answer.state, ![b].want = answer.want]
             /\ UNCHANGED server
    BY DEF Serve
  <1> HIDE DEF t
  <1>5. CASE Accepts(t)
    <2> DEFINE st == "stored"
               r == [batches[b] EXCEPT !.state = st]
    <2>1. st \in Settled \cup Working \cup {"queued"} /\ st = "stored" /\ st \in CleanStates
      BY DEF Working, CleanStates
    <2>2. batches' = [batches EXCEPT ![b].state = st]
      BY <1>4, <1>5
    <2>3. sEpoch' = 0 /\ sLast' = b - 1 /\ sClosed' = sClosed /\ b - 1 = sLast + 1
      BY <1>0, <1>3, <1>4, <1>5 DEF Accepts, Store
    <2> HIDE DEF st
    <2>4. batches' = [batches EXCEPT ![b] = r] /\ r \in BatchRecord
      BY <2>1, <2>2, StateOnly DEF CleanInv
    <2>5. r.epoch = batches[b].epoch /\ r.seq = batches[b].seq /\ r.state = st
      BY <1>0 DEF BatchRecord
    <2> HIDE DEF r
    <2>6. /\ r.epoch = 0 /\ r.seq = b - 1 /\ r.state \in CleanStates /\ r.state # "gap"
          /\ r.state = "stored" /\ through' \in Int /\ through <= through'
          /\ \A s \in 0..(Len(batches) - 1) : s > through' => known'[s] = known[s]
      BY <1>0, <1>1, <2>1, <2>5 DEF CleanBatch
    <2> QED
      BY <1>0, <1>1, <2>3, <2>4, <2>6, CleanOne
  <1>6. CASE ~Accepts(t)
    <2> DEFINE st == "gap"
               w == sLast + 1
               r == [batches[b] EXCEPT !.state = st, !.want = w]
    <2>1. w < b - 1 /\ w \in Int
      <3>1. t.seq # sLast + 1
        BY <1>0, <1>2, <1>3, <1>6 DEF Accepts
      <3> QED
        BY <1>0, <1>3, <3>1
    <2>2. batches' = [batches EXCEPT ![b].state = st, ![b].want = w] /\ UNCHANGED server
      <3>1. Refusals(t) = {[state |-> "gap", want |-> sLast + 1]}
        BY <1>0, <1>2, <1>3 DEF Refusals
      <3> QED
        BY <1>4, <1>6, <3>1
    <2>3. batches' = [batches EXCEPT ![b] = r]
      BY <2>2
    <2>4. st \in Settled \cup Working \cup {"queued"} /\ st \in CleanStates /\ st = "gap"
      BY DEF Working, CleanStates
    <2> HIDE DEF st, w
    <2>5. /\ r \in BatchRecord /\ r.epoch = batches[b].epoch /\ r.seq = batches[b].seq
          /\ r.state = st /\ r.want = w
      BY <1>0, <2>1, <2>4 DEF BatchRecord
    <2> HIDE DEF r
    <2>6. /\ r.epoch = 0 /\ r.seq = b - 1 /\ r.state \in CleanStates /\ r.want < r.seq
          /\ r.state # "gapwait" /\ through' \in Int /\ through <= through'
          /\ \A s \in 0..(Len(batches) - 1) : s > through' => known'[s] = known[s]
      BY <1>0, <1>1, <2>1, <2>4, <2>5 DEF CleanBatch
    <2>7. UNCHANGED <<sEpoch, sLast, sClosed>>
      BY <2>2 DEF server
    <2> QED
      BY <1>1, <1>3, <2>3, <2>5, <2>6, <2>7, CleanOne
  <1> QED
    BY <1>5, <1>6

\* The close comes when all is stored.
LEMMA CleanServeClose ==
  ASSUME CleanInv, NEW c \in Closes, ServeClose(c)
  PROVE  Clean'
  <1>1. /\ Clean /\ closeReq.epoch \in Int /\ closeReq.seq \in Int /\ closeReq.epoch <= 0
        /\ sLast \in Int /\ -1 <= sLast /\ sEpoch = 0
    BY CleanFacts DEF Clean
  <1>2. UNCHANGED <<refused, failSeq, through, nextSeq, closeResult, batches, known>>
    BY DEF ServeClose, entries, sequencing, closing
  <1>3. CASE UNCHANGED server
    BY <1>2, <1>3, CleanSame DEF server
  <1>4. CASE Accepts(closeReq) /\ Store(0, closeReq)
    <2>1. Quiet
      BY DEF ServeClose, CleanInv, FlushInv, CloseQuiet, Inside
    <2>2. \A b \in 1..Len(batches) : batches[b].state = "ok"
      BY <1>1, <2>1, CleanFacts DEF Clean, CleanBatch, CleanStates, Settled
    <2>3. sEpoch' = 0 /\ -1 <= sLast' /\ sLast' # -1 /\ sLast' = closeReq.seq /\ sClosed' = closeReq
      BY <1>1, <1>4 DEF Accepts, Store
    <2>4. sClosed' # NoRequest
      BY <2>3 DEF NoRequest
    <2>5. ASSUME NEW b \in 1..Len(batches) PROVE CleanBatch(batches[b], b)'
      <3>1. CleanBatch(batches[b], b) /\ batches[b].state = "ok" /\ batches'[b] = batches[b]
        BY <1>1, <1>2, <2>2 DEF Clean
      <3> QED
        BY <3>1 DEF CleanBatch
    <2> QED
      BY <1>1, <1>2, <2>3, <2>4, <2>5 DEF Clean
  <1> QED
    BY <1>3, <1>4 DEF ServeClose

LEMMA CleanStep ==
  ASSUME AsyncInv, FlushInv, HarmInv, [Next]_vars, faults' = 0, epoch' = 0
  PROVE  Clean'
  <1> USE DEF sequencing, server, closing, calls, ingress, entries, environment
  <1>0. faults \in Nat /\ epoch \in Nat /\ \A c \in Closes : c \in Calls
    BY PlainTyped, AsyncFacts DEF PlainTypes, Calls
  <1>1. faults = 0 /\ ~Fault /\ ~Abort
    <2>1. ~Fault /\ ~Abort
      <3>1. Fault \/ Abort => faults' = faults + 1
        BY DEF Fault, Abort
      <3> QED
        BY <1>0, <3>1
    <2>2. ASSUME NEW c \in Calls, Begin(c) \/ Call(c) PROVE faults' = faults
      BY <2>2 DEF Begin, Call, IngressDone, Drained, Acquire, Unacquired, Enter, InnerDrained,
                  CloseAnswered, Release, Rejected
    <2>3. AppendCall \/ Client \/ Answering \/ UNCHANGED vars => faults' = faults
      BY DEF AppendCall, Client, Started, Worker, Linger, Ingress, Answering, Serve, ServeClose, vars
    <2> QED
      BY <2>1, <2>2, <2>3 DEF Next
  <1>2. epoch = 0
    <2>1. ASSUME NEW c \in Calls, Begin(c) \/ Call(c) PROVE epoch' = epoch \/ epoch' = epoch + 1
      BY <2>1 DEF Begin, Call, IngressDone, Drained, Acquire, Unacquired, Enter, InnerDrained,
                  CloseAnswered, Release, Rejected
    <2>2. ASSUME NEW b \in 1..Len(batches), Take(b) \/ Reply(b) PROVE epoch' = epoch
      BY <2>2, WorkerShape
    <2>3. AppendCall \/ Started \/ Linger \/ Answering \/ UNCHANGED vars => epoch' = epoch
      BY DEF AppendCall, Started, Linger, Answering, Serve, ServeClose, vars
    <2>4. ASSUME NEW i \in Appends, Ingress(i) PROVE epoch' = epoch
      BY <2>4 DEF Ingress
    <2> QED
      BY <1>0, <1>1, <2>1, <2>2, <2>3, <2>4 DEF Next, Client, Worker
  <1>3. CleanInv
    BY <1>1, <1>2 DEF CleanInv
  <1>4. CASE AppendCall
    <2>1. made' \in Appends
      BY <1>4, AsyncFacts DEF AppendCall, Appends
    <2>2. CASE Admit(made')
      BY <1>3, <1>4, <2>1, <2>2, CleanAdmit DEF AppendCall
    <2>3. CASE UNCHANGED <<entries, batches, nextSeq, known>>
      BY <1>3, <1>4, <2>3, CleanSame DEF AppendCall
    <2> QED
      BY <1>4, <2>2, <2>3 DEF AppendCall
  <1>5. ASSUME NEW i \in Appends, Ingress(i) PROVE Clean'
    <2>1. CASE stage[i] = "chained" /\ Admit(i)
      <3>1. ~Quiet
        BY <2>1 DEF AsyncInv, AdmitInv, Quiet
      <3> QED
        BY <1>3, <1>5, <2>1, <3>1, CleanAdmit DEF Ingress
    <2>2. coord # "failed"
      BY <1>3, CleanFacts
    <2>3. CASE UNCHANGED <<entries, batches, nextSeq, known>>
      BY <1>3, <1>5, <2>3, CleanSame DEF Ingress
    <2> QED
      BY <1>5, <2>1, <2>2, <2>3 DEF Ingress
  <1>6. CASE Started
    BY <1>3, <1>6, CleanSame DEF Started
  <1>7. CASE Linger
    BY <1>3, <1>7, CleanPending DEF Linger
  <1>8. CASE Worker
    <2>1. UNCHANGED <<refused, sEpoch, sLast, sClosed, closeResult>>
      BY <1>8 DEF Worker
    <2> QED
      BY <1>3, <1>8, <2>1, CleanWorker DEF Worker
  <1>9. CASE Answering
    BY <1>3, <1>9, CleanServe, CleanServeClose DEF Answering
  <1>10. ASSUME NEW c \in Calls, Begin(c) \/ Call(c) PROVE Clean'
    <2>1. CASE /\ Emit(admitted)
               /\ UNCHANGED <<refused, sEpoch, sLast, sClosed, failSeq, through, closeResult>>
      BY <1>3, <2>1, CleanPending
    <2>2. CASE UNCHANGED <<refused, sEpoch, sLast, sClosed, failSeq, through, nextSeq, closeResult,
                           batches, known>>
      BY <1>3, <2>2, CleanSame
    <2>3. CASE InnerDrained(c)
      <3>1. epoch' # epoch + 1
        BY <1>2
      <3>2. UNCHANGED sequencing
        BY <2>3, <3>1 DEF InnerDrained
      <3> QED
        BY <2>2, <2>3, <3>2 DEF InnerDrained
    <2>4. CASE CloseAnswered(c)
      <3>1. ~closeResult
        <4>1. pc[c] = "answered"
          BY <2>4 DEF CloseAnswered
        <4> QED
          BY <4>1 DEF AsyncInv, UnderLifecycle
      <3>2. CASE nextSeq' = nextSeq + 1 /\ closeResult' = TRUE
        <4>1. UNCHANGED <<refused, sEpoch, sLast, sClosed, failSeq, through, batches, known>>
          BY <2>4 DEF CloseAnswered
        <4>2. Clean /\ Len(batches) \in Nat
          BY <1>3, CleanFacts, AsyncFacts
        <4>3. nextSeq' = Len(batches') + (IF closeResult' THEN 1 ELSE 0)
          BY <3>1, <3>2, <4>1, <4>2 DEF Clean
        <4> QED
          BY <4>1, <4>2, <4>3 DEF Clean, CleanBatch
      <3> QED
        BY <2>2, <2>4, <3>2 DEF CloseAnswered
    <2>5. CASE Begin(c)
      BY <2>2, <2>5 DEF Begin
    <2>6. CASE IngressDone(c)
      BY <2>1, <2>2, <2>6 DEF IngressDone, Drain
    <2>7. CASE Enter(c)
      <3>1. UNCHANGED <<refused, sEpoch, sLast, sClosed, failSeq, through, closeResult>>
        BY <2>7 DEF Enter
      <3> QED
        BY <2>1, <2>2, <2>7, <3>1 DEF Enter, Drain
    <2>8. CASE Drained(c) \/ Acquire(c) \/ Unacquired(c) \/ Release(c) \/ Rejected(c)
      BY <2>2, <2>8 DEF Drained, Acquire, Unacquired, Release, Rejected
    <2> QED
      BY <1>10, <2>3, <2>4, <2>5, <2>6, <2>7, <2>8 DEF Call
  <1>11. CASE UNCHANGED vars
    BY <1>3, <1>11, CleanSame DEF vars
  <1> QED
    BY <1>1, <1>4, <1>5, <1>6, <1>7, <1>8, <1>9, <1>10, <1>11 DEF Next, Client


LEMMA FirstStep ==
  ASSUME AsyncInv, HarmInv, [Next]_vars
  PROVE  \A b \in 1..Len(batches') : batches'[b].first <= emitted'
  <1> USE DEF entries
  <1>0. /\ Len(batches) \in Nat /\ emitted \in Nat /\ Len(admitted) \in Nat /\ emitted <= Len(admitted)
        /\ \A b \in 1..Len(batches) : batches[b].first \in Nat /\ batches[b].first <= emitted
    BY AsyncFacts DEF HarmInv, BatchRecord
  <1> DEFINE Goal == \A b \in 1..Len(batches') : batches'[b].first <= emitted'
  <1> SUFFICES Goal
    OBVIOUS
  <1>1. CASE Len(batches') = Len(batches)
    <2>1. ASSUME NEW b \in 1..Len(batches) PROVE batches'[b].first = batches[b].first
      BY SettledStays
    <2>2. emitted <= emitted' /\ emitted' \in Int
      BY SettledStays, QueueStep
    <2> QED
      BY <1>0, <1>1, <2>1, <2>2
  <1>2. ASSUME NEW adm, Len(adm) \in Nat, emitted <= Len(adm), Emit(adm)
        PROVE  Goal
    <2>1. CASE UNCHANGED <<emitted, batches, nextSeq, known>>
      BY <1>1, <2>1
    <2>2. CASE /\ emitted < Len(adm) /\ emitted' = Len(adm)
               /\ Len(batches') = Len(batches) + 1
               /\ \A b \in 1..Len(batches) : batches'[b] = batches[b]
               /\ batches'[Len(batches) + 1] =
                    [first |-> emitted + 1, last |-> Len(adm), epoch |-> epoch, seq |-> nextSeq,
                     state |-> "queued", want |-> 0, on |-> 0]
      <3>1. batches'[Len(batches) + 1].first = emitted + 1
        BY <2>2
      <3>2. ASSUME NEW b \in 1..Len(batches') PROVE batches'[b].first <= emitted'
        <4>1. CASE b = Len(batches) + 1
          BY <1>0, <1>2, <2>2, <3>1, <4>1
        <4>2. CASE b \in 1..Len(batches)
          BY <1>0, <1>2, <2>2, <4>2
        <4> QED
          BY <1>0, <2>2, <4>1, <4>2
      <3> QED
        BY <3>2
    <2> QED
      BY <1>2, <2>1, <2>2, EmitShape
  <1> HIDE DEF Goal
  <1>3. ASSUME NEW i \in Appends, Admit(i) PROVE Goal
    <2>1. CASE admitted' = Append(admitted, i) /\ Emit(admitted')
      <3>1. Len(admitted') = Len(admitted) + 1
        BY <2>1, AsyncFacts, AppendProperties
      <3>2. Len(admitted') \in Nat /\ emitted <= Len(admitted')
        BY <1>0, <3>1
      <3> QED
        BY <1>2, <2>1, <3>2
    <2>2. CASE UNCHANGED <<emitted, batches, nextSeq, known>>
      BY <1>1, <2>2
    <2> QED
      BY <1>3, <2>1, <2>2 DEF Admit
  <1>4. CASE AppendCall
    <2>1. made' \in Appends
      BY <1>4, AsyncFacts DEF AppendCall, Appends
    <2>2. CASE UNCHANGED <<entries, batches, nextSeq, known>>
      BY <1>1, <2>2
    <2> QED
      BY <1>3, <1>4, <2>1, <2>2 DEF AppendCall
  <1>5. ASSUME NEW i \in Appends, Ingress(i) PROVE Goal
    <2>1. CASE UNCHANGED batches
      BY <1>1, <2>1
    <2> QED
      BY <1>3, <1>5, <2>1 DEF Ingress
  <1>6. CASE Linger
    BY <1>0, <1>2, <1>6 DEF Linger
  <1>7. CASE Worker
    <2>1. PICK b \in 1..Len(batches) : Take(b) \/ Reply(b)
      BY <1>7 DEF Worker
    <2>2. \E r \in BatchRecord : batches' = [batches EXCEPT ![b] = r]
      BY <2>1, WorkerShape
    <2> QED
      BY <1>1, <2>2, ReplacedShape
  <1>8. ASSUME NEW b, NEW w, Len(batches') = Len(batches) \/ batches' = [batches EXCEPT ![b] = w]
        PROVE  Goal
    <2>1. CASE batches' = [batches EXCEPT ![b] = w]
      <3>1. batches \in Seq(BatchRecord) /\ DOMAIN batches = 1..Len(batches)
        BY AsyncFacts
      <3>2. batches' \in Seq(BatchRecord) /\ DOMAIN batches' = 1..Len(batches)
        BY <2>1, <3>1, QueueStep
      <3>3. Len(batches') = Len(batches)
        BY <1>0, <3>2, LenProperties
      <3> QED
        BY <1>1, <3>3
    <2> QED
      BY <1>1, <1>8, <2>1
  <1>9. ASSUME NEW b \in 1..Len(batches), Serve(b) PROVE Goal
    <2>1. CASE batches' = [batches EXCEPT ![b].state = "stored"]
      BY <1>8, <2>1
    <2>2. ASSUME NEW st, NEW w, batches' = [batches EXCEPT ![b].state = st, ![b].want = w]
          PROVE  Goal
      <3>1. batches' = [batches EXCEPT ![b] = [batches[b] EXCEPT !.state = st, !.want = w]]
        BY <2>2, AsyncFacts
      <3> QED
        BY <1>8, <3>1
    <2> QED
      BY <1>9, <2>1, <2>2 DEF Serve
  <1>10. CASE Fault
    BY <1>8, <1>10 DEF Fault
  <1>11. CASE Abort
    BY <1>1, <1>11, AbortShape
  <1>12. CASE Started \/ UNCHANGED vars
    BY <1>1, <1>12 DEF Started, vars
  <1>13. ASSUME NEW c \in Closes, ServeClose(c) PROVE Goal
    BY <1>1, <1>13 DEF ServeClose
  <1>14. ASSUME NEW c \in Calls, Call(c) \/ Begin(c) PROVE Goal
    <2>1. CASE Emit(admitted) /\ UNCHANGED admitted
      BY <1>0, <1>2, <2>1
    <2>2. CASE UNCHANGED batches
      BY <1>1, <2>2
    <2> QED
      BY <1>14, <2>1, <2>2
         DEF Begin, Call, IngressDone, Drained, Acquire, Unacquired, Enter, InnerDrained, CloseAnswered,
             Release, Rejected, Drain
  <1> QED
    BY <1>4, <1>5, <1>6, <1>7, <1>9, <1>10, <1>11, <1>12, <1>13, <1>14 DEF Next, Client, Answering

LEMMA HarmStep ==
  ASSUME AsyncInv, FlushInv, HarmInv, [Next]_vars
  PROVE  HarmInv'
  <1> USE DEF sequencing, server, closing, calls, ingress, entries, environment
  <1>0. /\ faults \in Nat /\ epoch \in Nat /\ closeReq \in [epoch : Int, seq : Int]
        /\ \A c \in Closes : c \in Calls
    BY PlainTyped, AsyncFacts DEF PlainTypes, Calls, AsyncInv, AsyncTypeOK
  <1>1. /\ faults' = 0 => ~aborted'
        /\ aborted => aborted'
    <2>1. ASSUME NEW c \in Calls, Begin(c) \/ Call(c) PROVE UNCHANGED <<faults, aborted>>
      BY <2>1 DEF Begin, Call, IngressDone, Drained, Acquire, Unacquired, Enter, InnerDrained,
                  CloseAnswered, Release, Rejected
    <2>2. AppendCall \/ Client \/ Answering \/ UNCHANGED vars => UNCHANGED <<faults, aborted>>
      BY DEF AppendCall, Client, Started, Worker, Linger, Ingress, Answering, Serve, ServeClose, vars
    <2>3. Fault => faults' = faults + 1 /\ UNCHANGED aborted
      BY DEF Fault
    <2>4. Abort => faults' = faults + 1 /\ aborted'
      BY DEF Abort
    <2> QED
      BY <1>0, <2>1, <2>2, <2>3, <2>4 DEF Next, HarmInv
  <1>2. coord' = "failed" => aborted'
    <2>1. AppendCall \/ Started => coord' \notin {"failed"} \/ coord' = coord \/ aborted
      BY DEF AppendCall, Started, Acquired
    <2>2. ASSUME NEW c \in Calls, Begin(c) \/ Call(c)
          PROVE  coord' \notin {"failed"} \/ coord' = coord \/ aborted
      BY <2>2 DEF Begin, Call, IngressDone, Drained, Acquire, Unacquired, Enter, InnerDrained,
                  CloseAnswered, Release, Rejected, Acquired
    <2>3. Worker \/ Linger \/ Answering \/ Fault \/ Abort \/ UNCHANGED vars => coord' = coord
      BY DEF Worker, Linger, Answering, Serve, ServeClose, Fault, Abort, vars
    <2>4. ASSUME NEW i \in Appends, Ingress(i) PROVE coord' = coord
      BY <2>4 DEF Ingress
    <2> QED
      BY <1>1, <2>1, <2>2, <2>3, <2>4 DEF Next, Client, HarmInv
  <1>3. closeReq'.epoch <= epoch'
    <2>0. closeReq.epoch <= epoch /\ closeReq.epoch \in Int
      BY <1>0 DEF HarmInv
    <2>1. CASE closeReq' = closeReq /\ epoch' = epoch
      BY <2>0, <2>1
    <2>2. ASSUME NEW c \in Calls, InnerDrained(c) PROVE closeReq'.epoch <= epoch'
      <3>1. CASE closeReq' = [epoch |-> epoch, seq |-> nextSeq] /\ epoch' = epoch
        BY <1>0, <3>1
      <3>2. CASE epoch' = epoch + 1 /\ closeReq' = closeReq
        BY <1>0, <2>0, <3>2
      <3>3. CASE epoch' = epoch + 1 /\ closeReq' = NoRequest
        BY <1>0, <3>3 DEF NoRequest
      <3> QED
        BY <2>2, <3>1, <3>2, <3>3 DEF InnerDrained
    <2>3. ASSUME NEW c \in Calls, Begin(c) \/ (Call(c) /\ ~InnerDrained(c))
          PROVE  closeReq' = closeReq /\ epoch' = epoch
      BY <2>3 DEF Begin, Call, IngressDone, Drained, Acquire, Unacquired, Enter,
                  CloseAnswered, Release, Rejected
    <2>4. ASSUME NEW b \in 1..Len(batches), Take(b) \/ Reply(b) PROVE epoch' = epoch
      BY <2>4, WorkerShape
    <2>5. AppendCall \/ Started \/ Linger \/ Answering \/ Fault \/ Abort \/ UNCHANGED vars
            => closeReq' = closeReq /\ epoch' = epoch
      BY DEF AppendCall, Started, Linger, Answering, Serve, ServeClose, Fault, Abort, vars
    <2>6. ASSUME NEW i \in Appends, Ingress(i) PROVE closeReq' = closeReq /\ epoch' = epoch
      BY <2>6 DEF Ingress
    <2>7. Worker => closeReq' = closeReq
      BY DEF Worker
    <2> QED
      BY <2>1, <2>2, <2>3, <2>4, <2>5, <2>6, <2>7 DEF Next, Client, Worker
  <1>4. \A b \in 1..Len(batches') : batches'[b].first <= emitted'
    BY FirstStep
  <1>5. ASSUME sClosed' # NoRequest \/ closeResult' PROVE closed' /\ Quiet'
    <2>1. ASSUME closed, Quiet PROVE closed' /\ Quiet'
      BY <2>1, QuietStays DEF FlushInv
    <2>2. CASE sClosed' = sClosed /\ closeResult' = closeResult
      BY <1>5, <2>1, <2>2 DEF HarmInv
    <2>3. ASSUME NEW c \in Closes, pc[c] \in Inside PROVE closed' /\ Quiet'
      BY <2>1, <2>3 DEF FlushInv, CloseQuiet, Inside
    <2>4. ASSUME NEW c \in Calls, CloseAnswered(c) PROVE c \in Closes /\ pc[c] \in Inside
      BY <2>4 DEF CloseAnswered, Inside, AsyncInv, UnderLifecycle
    <2>5. ASSUME NEW c \in Closes, ServeClose(c) PROVE pc[c] \in Inside
      BY <2>5 DEF ServeClose, Inside
    <2>6. ASSUME NEW b \in 1..Len(batches), Serve(b) PROVE UNCHANGED <<sClosed, closeResult>>
      BY <2>6, AsyncFacts DEF Serve, Store
    <2>7. ASSUME NEW c \in Calls, Begin(c) \/ (Call(c) /\ ~CloseAnswered(c))
          PROVE  UNCHANGED <<sClosed, closeResult>>
      BY <2>7 DEF Begin, Call, IngressDone, Drained, Acquire, Unacquired, Enter, InnerDrained,
                  Release, Rejected
    <2>8. AppendCall \/ Client \/ Fault \/ Abort \/ UNCHANGED vars => UNCHANGED <<sClosed, closeResult>>
      BY DEF AppendCall, Client, Started, Worker, Linger, Ingress, Fault, Abort, vars
    <2> QED
      BY <2>2, <2>3, <2>4, <2>5, <2>6, <2>7, <2>8 DEF Next, Answering
  <1>6. ASSUME faults' = 0, epoch' = 0 PROVE Clean'
    BY <1>6, CleanStep
  <1> QED
    BY <1>1, <1>2, <1>3, <1>4, <1>5, <1>6 DEF HarmInv

LEMMA InitHarm == Init => HarmInv
  <1> SUFFICES ASSUME Init PROVE HarmInv
    OBVIOUS
  <1>1. Len(batches) = 0
    BY EmptySeq DEF Init
  <1>2. Clean
    BY <1>1, AsyncAssumption DEF Init, Clean
  <1> QED
    BY <1>1, <1>2 DEF Init, HarmInv, NoRequest

(* Pipelining, batches that overtake each other, and any mix of repeated   *)
(* flush, detach and close calls fail nothing by themselves: without a     *)
(* failed request, an abort or a restart, a gap the server reports always  *)
(* ends in sending the batch again.                                        *)
THEOREM CallsHarmless == Spec => []CallsAreHarmless
  <1>1. AsyncInv /\ FlushInv /\ HarmInv /\ [Next]_vars => HarmInv'
    BY HarmStep
  <1>2. HarmInv => CallsAreHarmless
    BY DEF HarmInv, CallsAreHarmless, Clean, CleanBatch, CleanStates
  <1> QED
    BY <1>1, <1>2, FlushHolds, InitHarm, PTL DEF Spec
=============================================================================
