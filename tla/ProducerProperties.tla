------------------------- MODULE ProducerProperties -------------------------
(***************************************************************************)
(* What the native producer promises to its callers, stated over the       *)
(* states and steps of Producer.                                           *)
(***************************************************************************)
EXTENDS Producer

AdmissionType ==
  /\ mode \in {"open", "closing", "detached", "stopped"}
  /\ id \in 0..MaxEntries /\ emitted \in 0..MaxEntries /\ timer \in BOOLEAN
  /\ mutex \in Calls \cup {Free, Timer} /\ lifecycle \in Calls \cup {Free}
SequencingType ==
  /\ epoch \in Nat /\ nextSeq \in Nat
  /\ tuple \in [Ids -> Tuple] /\ sequences \in [Seqs -> 0..MaxEntries]
  /\ through \in Int /\ failure \in [seq : Int, out : Failures] \cup {NoFailure}
ClaimType ==
  claimed \in BOOLEAN /\ claiming \in BOOLEAN /\ claim \in Outcomes \cup {"open"}
RequestType ==
  /\ from \in [Ids -> Nat] /\ first \in [Ids -> BOOLEAN] /\ phase \in [Slots -> Phases]
  /\ req \in [Slots -> Tuple] /\ reply \in [Slots -> Answer]
  /\ waitFor \in [Ids -> 0..MaxEntries]
SettledType ==
  /\ receipt \in [Ids -> Outcomes \cup {"open"}]
  /\ firstFailure \in Nat /\ offset \in Nat
ClosingType ==
  closeBody \in Closes \cup {Free} /\ closeRequest \in Tuple /\ closeResult \in BOOLEAN
CallType ==
  /\ pc \in [Calls -> Locations] /\ result \in [Calls -> Outcomes \cup {"none", "closed"}]
  /\ mark \in [Calls -> 0..MaxEntries] /\ fed \in [Calls -> Nat]
ServerType ==
  /\ sEpoch \in Nat \cup {-1} /\ sLast \in Nat \cup {-1} /\ sClosed \in Tuple
  /\ log \in Seq(Slots \cup {Foreign}) /\ strays \subseteq [slot : Slots, req : Tuple]
EnvironmentType ==
  faults \in Nat /\ foreign \in Nat /\ scope \in {"live", "closing", "closed"}

(* Every variable of the coordinator, its requests, its callers and the     *)
(* server stays in its range.                                               *)
TypeOK ==
  /\ AdmissionType /\ SequencingType /\ ClaimType /\ RequestType /\ SettledType
  /\ ClosingType /\ CallType /\ ServerType /\ EnvironmentType

(* A value whose append succeeded is in the server's log, within           *)
(* lastSuccessfulOffset in whatever order the answers came, and no batch   *)
(* (nor the close) is there twice: what a success of the code's send loop, *)
(* be it 200 or a deduplicated 204, has to mean.                           *)
AckedIsLogged ==
  \A e \in Ids : receipt[e] = "ok" =>
     \E i \in 1..Len(log) : i <= offset /\ log[i] \in Ids /\ e \in Entries(log[i])
AppliedOnce ==
  \A i, j \in 1..Len(log) : log[i] = log[j] /\ log[i] # Foreign => i = j
ExactlyOnce == AckedIsLogged /\ AppliedOnce

(* The log holds our values in admission order and without a hole: a batch *)
(* behind a failed one is not stored (producer-sequence gaps).             *)
Ours == {i \in 1..Len(log) : log[i] \in Ids}
LogIsPrefix ==
  \A j \in Ours :
     IF \E i \in Ours : i < j
     THEN \E i \in Ours : /\ i < j /\ from[log[j]] = log[i] + 1
                          /\ \A k \in Ours : k < j => k <= i
     ELSE from[log[j]] = 1

(* An (epoch, sequence) pair is sent with one body only, so that the        *)
(* server's deduplication never confuses two batches, or one with the close.*)
TupleNamesOneBody ==
  \A s, t \in Slots : req[s] = req[t] /\ req[s] # NoTuple => s = t

(* Requests overtaking each other on the wire fail nothing: without a lost  *)
(* or rejected request and without another writer no append fails.          *)
ReorderingIsHarmless ==
  faults = 0 /\ foreign = 0 => \A e \in Ids : receipt[e] # "fail"

(* A flush, and a sink, detach or restart, that reports success leaves      *)
(* nothing behind: every value up to its watermark was delivered.           *)
FlushComplete ==
  \A c \in Calls \ (Appends \cup Closes) : result[c] = "ok" =>
     \A e \in 1..mark[c] : receipt[e] = "ok"

(* A successful close is the last thing in the stream, once, and comes      *)
(* after every admitted value, however often it was retried.                *)
CloseIsLast ==
  closeResult => /\ Len(log) > 0 /\ log[Len(log)] = 0
                 /\ \A e \in 1..id : receipt[e] = "ok"

(* Once close has captured its body, or the finalizer has settled what was *)
(* unresolved, nothing more is admitted: nobody would deliver or settle it *)
(* (README.md:220 "scope finalization cancels unresolved work").           *)
AdmissionStaysShut == [][closeBody # Free \/ scope = "closed" => id' = id]_vars

(* Interrupting some call does not cancel what another one admitted: until  *)
(* the finalizer starts, no append finds its receipt interrupted.           *)
DeliveryOwnedByProducer ==
  scope = "live" =>
    \A c \in Appends : pc[c] = "await" => receipt[mark[c]] # "int"

(* Epoch and next sequence only move forward, so that no tuple is handed    *)
(* out twice.                                                               *)
TuplesMoveForward ==
  [][epoch' > epoch \/ (epoch' = epoch /\ nextSeq' >= nextSeq)]_vars

Active == Working \cup {"offer", "queued"}
\* Some step of this batch can be taken, by its worker, by the server or by
\* whoever emitted it.
Runnable(b) ==
  \/ phase[b] = "sent"
  \/ phase[b] = "replied" /\ reply[b].kind # "none"
  \/ phase[b] = "gapwait" /\ phase[waitFor[b]] \in Outcomes
  \/ phase[b] = "claimwait" /\ claim # "open"
  \/ /\ phase[b] = "queued" /\ \A c \in Queued : b <= c
     /\ Cardinality(InWork \cup Dead) < MaxInFlight
  \/ phase[b] = "offer" /\ mutex # Free /\ ~QueueFull
(* While the producer lives and a batch is on its way, some batch can move:  *)
(* the workers, who keep their places while they await the claim or the      *)
(* batches before theirs, never all wait for batches behind them in the      *)
(* queue, for the claim, or for each other.                                  *)
NeverStuck ==
  scope = "live" /\ (\E b \in Ids : phase[b] \in Active) => \E b \in Ids : Runnable(b)

(* Again and again no call is under way: each that begins returns, with     *)
(* what it waits for settled.                                               *)
CallsReturn == []<>(\A c \in Calls : pc[c] \in {"new", "done"})
=============================================================================
