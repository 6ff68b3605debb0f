--------------------------- MODULE OrdinaryAppend ---------------------------
(***************************************************************************)
(* Ordinary (not idempotent) appends of one client handle with batching    *)
(* on: src/src/append.ts, with the retry loop of sendMutation in           *)
(* src/src/transport.ts below it.                                          *)
(*                                                                         *)
(* The first append on an idle handle starts a burst: a fiber that sends   *)
(* one request at a time, promoting what was buffered meanwhile to the     *)
(* next batch.  Every append of the burst holds a lease on it; the last    *)
(* one to leave closes the burst's scope and with it that fiber.           *)
(*                                                                         *)
(* Appends are numbered in the order they join, which is the order of the  *)
(* code's arrays, so a batch and a buffer are sets; a burst has the number *)
(* of the append that started it.                                          *)
(***************************************************************************)
EXTENDS Integers, Sequences, FiniteSets

CONSTANTS
  MaxAppends,         \* bound: appends made on the handle
  Groups,             \* pairs of content type and execution context in use
  Interruptible,      \* the appends whose fiber may be interrupted
  MaxRetries,         \* backoffOptions.maxRetries
  MaxFaults           \* bound: lost requests, lost replies, rejections

ASSUME OrdinaryAssumption ==
  /\ MaxAppends \in Nat \ {0} /\ MaxRetries \in Nat /\ MaxFaults \in Nat
  /\ Groups # {}
  /\ \A g, h \in Groups : g.type = h.type /\ g.context = h.context => g = h

VARIABLES
  current,                                  \* the Ref: the burst to join, or 0
  active, buffer, leases, loop, closing,    \* bursts
  net, attempts,                            \* the request of a burst
  pc, joined, group, cancelled, owner, receipt, result,  \* appends
  log, strays, faults                       \* server and network

bursts == <<active, buffer, leases, loop, closing>>
request == <<net, attempts>>
entry == <<joined, group, cancelled, owner, receipt>>
server == <<log, strays, faults>>
vars == <<current, bursts, request, pc, entry, result, server>>

Appends == 1..MaxAppends
Outcomes == {"ok", "unknown", "rejected"}
\* "ready": about to send `active`.  "send": its request is under way, or in
\* backoff.  "cleanup": it was cancelled and its HTTP cleanup is awaited.
\* "stopping": the fiber was interrupted by its scope.
Loops == {"none", "ready", "send", "cleanup", "stopping", "ended"}
\* "cancelled": interrupted, `cancelled` completed.  "drain": waits for the
\* receipt of its active batch.  "release", "closing": gives back its lease.
Locations == {"new", "await", "cancelled", "drain", "release", "closing", "done"}

Init ==
  /\ current = 0
  /\ active = [b \in Appends |-> {}] /\ buffer = [b \in Appends |-> {}]
  /\ leases = [b \in Appends |-> 0] /\ loop = [b \in Appends |-> "none"]
  /\ closing = [b \in Appends |-> FALSE]
  /\ net = [b \in Appends |-> "none"] /\ attempts = [b \in Appends |-> 0]
  /\ pc = [e \in Appends |-> "new"] /\ joined = [e \in Appends |-> 0]
  /\ group = [e \in Appends |-> CHOOSE g \in Groups : TRUE]
  /\ cancelled = [e \in Appends |-> FALSE] /\ owner = [e \in Appends |-> TRUE]
  /\ receipt = [e \in Appends |-> "open"] /\ result = [e \in Appends |-> "none"]
  /\ log = <<>> /\ strays = {} /\ faults = 0

-----------------------------------------------------------------------------
(* The fiber of a burst. *)

First(S) == CHOOSE e \in S : \A f \in S : e <= f

\* Whether the buffered entry e can share a request with the first one.
Compatible_AnyContext(e, f) == group[e].type = group[f].type           \* mutant
Compatible(e, f) ==
  /\ group[e].type = group[f].type
  /\ owner[e] /\ owner[f] => group[e].context = group[f].context

\* The leading entries of the buffer that can share a request.
Promoted_Late(S) == {e \in S : ~Compatible(First(S), e) \/ \A f \in S : Compatible(First(S), f)}
                                                     \* mutant: what differs first
Promoted(S) == {e \in S : \A f \in S : f <= e => Compatible(First(S), f)}

\* A failure takes the buffered entries with it.
TakenAlong_None(b, out) == {}                        \* mutant
TakenAlong_Always(b, out) == buffer[b]               \* mutant: a success too
TakenAlong(b, out) == IF out = "ok" THEN {} ELSE buffer[b]

Remaining_Active(b) == active[b]                     \* mutant
Remaining(b) == active[b] \cup buffer[b]

ReceiptsDone(S, out) ==
  /\ receipt' = [e \in Appends |-> IF e \in S /\ receipt[e] = "open" THEN out ELSE receipt[e]]
  /\ owner' = [e \in Appends |-> owner[e] /\ e \notin S]

Vacated_Early(b, next) == IF current = b THEN 0 ELSE current   \* mutant
Vacated(b, next) == IF current = b /\ next = {} THEN 0 ELSE current

\* The outcome of the active batch is known: settle it and promote the next.
Settle(b, out) ==
  LET left == buffer[b] \ TakenAlong(b, out)
      next == IF left = {} THEN {} ELSE Promoted(left)
  IN /\ ReceiptsDone(active[b] \cup TakenAlong(b, out), out)
     /\ active' = [active EXCEPT ![b] = next]
     /\ buffer' = [buffer EXCEPT ![b] = left \ next]
     /\ current' = Vacated(b, next)
     /\ loop' = [loop EXCEPT ![b] = IF next = {} THEN "ended" ELSE "ready"]
     /\ net' = [net EXCEPT ![b] = "none"] /\ attempts' = [attempts EXCEPT ![b] = 0]

\* Nothing is sent for a batch with an interrupted append in it.
Sendable_First(b) == owner[First(active[b])]         \* mutant: others unchecked
Sendable(b) == owner[First(active[b])] /\ \A e \in active[b] : ~cancelled[e]

Dispatch(b) ==
  /\ loop[b] = "ready"
  /\ IF Sendable(b)
     THEN /\ net' = [net EXCEPT ![b] = "sent"] /\ loop' = [loop EXCEPT ![b] = "send"]
          /\ UNCHANGED <<current, active, buffer, attempts, owner, receipt>>
     ELSE Settle(b, "unknown")
  /\ UNCHANGED <<leases, closing, pc, joined, group, cancelled, result, server>>

Answered(b) ==
  /\ loop[b] = "send" /\ net[b] \in {"ok", "rejected"}
  /\ Settle(b, net[b])
  /\ UNCHANGED <<leases, closing, pc, joined, group, cancelled, result, server>>

\* A retryable failure: the same request again after its delay, or give up.
Retry(b) ==
  /\ loop[b] = "send" /\ net[b] = "retryable"
  /\ IF attempts[b] < MaxRetries
     THEN /\ net' = [net EXCEPT ![b] = "sent"]
          /\ attempts' = [attempts EXCEPT ![b] = @ + 1]
          /\ UNCHANGED <<current, active, buffer, loop, owner, receipt>>
     ELSE Settle(b, "unknown")
  /\ UNCHANGED <<leases, closing, pc, joined, group, cancelled, result, server>>

\* What is on the wire when its client lets go may still arrive.
Abandoned(b) == IF net[b] = "sent" THEN strays \cup {[batch |-> active[b], try |-> attempts[b]]}
                                   ELSE strays

\* An append of the active batch is interrupted: that ends the race, the
\* request is aborted and its cleanup awaited ...
CancelWins(b) ==
  /\ loop[b] = "send" /\ \E e \in active[b] : cancelled[e]
  /\ loop' = [loop EXCEPT ![b] = "cleanup"]
  /\ strays' = Abandoned(b) /\ net' = [net EXCEPT ![b] = "none"]
  /\ UNCHANGED <<current, active, buffer, leases, closing, attempts, pc, entry, result, log,
                 faults>>

\* ... before the batch fails.
CleanedUp(b) ==
  /\ loop[b] = "cleanup"
  /\ Settle(b, "unknown")
  /\ UNCHANGED <<leases, closing, pc, joined, group, cancelled, result, server>>

\* The scope of the burst is closed: its fiber is interrupted ...
Stop(b) ==
  /\ closing[b] /\ loop[b] \in {"ready", "send", "cleanup"}
  /\ loop' = [loop EXCEPT ![b] = "stopping"]
  /\ strays' = Abandoned(b) /\ net' = [net EXCEPT ![b] = "none"]
  /\ UNCHANGED <<current, active, buffer, leases, closing, attempts, pc, entry, result, log,
                 faults>>

\* ... and on its way out fails whatever is left.
StopEnd(b) ==
  /\ loop[b] = "stopping" /\ loop' = [loop EXCEPT ![b] = "ended"]
  /\ ReceiptsDone(Remaining(b), "unknown")
  /\ active' = [active EXCEPT ![b] = {}] /\ buffer' = [buffer EXCEPT ![b] = {}]
  /\ current' = Vacated(b, {})
  /\ UNCHANGED <<leases, closing, request, pc, joined, group, cancelled, result, server>>

-----------------------------------------------------------------------------
(* A call of append. *)

StartLeases_None == 0                                \* mutant: not counted
StartLeases == 1

\* Join the current burst or start one, in one modification of the Ref.
Join(e) ==
  /\ pc[e] = "new" /\ \A f \in 1..(e - 1) : pc[f] # "new"
  /\ pc' = [pc EXCEPT ![e] = "await"]
  /\ \E g \in Groups : group' = [group EXCEPT ![e] = g]
  /\ IF current = 0
     THEN /\ current' = e /\ joined' = [joined EXCEPT ![e] = e]
          /\ active' = [active EXCEPT ![e] = {e}] /\ leases' = [leases EXCEPT ![e] = StartLeases]
          /\ loop' = [loop EXCEPT ![e] = "ready"] /\ UNCHANGED buffer
     ELSE /\ joined' = [joined EXCEPT ![e] = current]
          /\ buffer' = [buffer EXCEPT ![current] = @ \cup {e}]
          /\ leases' = [leases EXCEPT ![current] = @ + 1]
          /\ UNCHANGED <<current, active, loop>>
  /\ UNCHANGED <<closing, request, cancelled, owner, receipt, result, server>>

Receive(e) ==
  /\ pc[e] = "await" /\ receipt[e] # "open"
  /\ pc' = [pc EXCEPT ![e] = "release"] /\ result' = [result EXCEPT ![e] = receipt[e]]
  /\ UNCHANGED <<current, bursts, request, entry, server>>

\* The caller is interrupted while it waits for its receipt.
Interrupt(e) ==
  /\ e \in Interruptible /\ pc[e] = "await"
  /\ pc' = [pc EXCEPT ![e] = "cancelled"] /\ result' = [result EXCEPT ![e] = "interrupted"]
  /\ cancelled' = [cancelled EXCEPT ![e] = TRUE]
  /\ UNCHANGED <<current, bursts, request, joined, group, owner, receipt, server>>

\* In the active batch it stays for the cleanup; in the buffer it only leaves
\* its entry without a context.
LookActive(e) ==
  /\ pc[e] = "cancelled"
  /\ IF e \in active[joined[e]]
     THEN pc' = [pc EXCEPT ![e] = "drain"] /\ UNCHANGED owner
     ELSE pc' = [pc EXCEPT ![e] = "release"] /\ owner' = [owner EXCEPT ![e] = FALSE]
  /\ UNCHANGED <<current, bursts, request, joined, group, cancelled, receipt, result, server>>

Drain(e) ==
  /\ pc[e] = "drain" /\ receipt[e] # "open"
  /\ pc' = [pc EXCEPT ![e] = "release"]
  /\ UNCHANGED <<current, bursts, request, entry, result, server>>

\* The lease is given back; the last one closes the scope.
LastLease_Early(b) == leases[b] <= 2                 \* mutant
LastLease(b) == leases[b] = 1
Release(e) ==
  LET b == joined[e]
  IN /\ pc[e] = "release"
     /\ leases' = [leases EXCEPT ![b] = @ - 1]
     /\ closing' = [closing EXCEPT ![b] = @ \/ LastLease(b)]
     /\ pc' = [pc EXCEPT ![e] = IF LastLease(b) /\ ~closing[b] THEN "closing" ELSE "done"]
     /\ UNCHANGED <<current, active, buffer, loop, request, entry, result, server>>

\* Scope.close returns once the fiber has ended.
Closed(e) ==
  /\ pc[e] = "closing" /\ loop[joined[e]] = "ended"
  /\ pc' = [pc EXCEPT ![e] = "done"]
  /\ UNCHANGED <<current, bursts, request, entry, result, server>>

-----------------------------------------------------------------------------
(* The server and the network (external). *)

Serve(b) ==
  /\ net[b] = "sent" /\ net' = [net EXCEPT ![b] = "ok"]
  /\ log' = Append(log, active[b])
  /\ UNCHANGED <<current, bursts, attempts, pc, entry, result, strays, faults>>

ServeStray ==
  /\ \E r \in strays : strays' = strays \ {r} /\ log' = Append(log, r.batch)
  /\ UNCHANGED <<current, bursts, request, pc, entry, result, faults>>

\* A transport failure, 429, 3xx or 5xx, before or after the server stored it;
\* or what is not retried: a rejection, or a success (which the server may have
\* stored) whose status or headers are none of the protocol's.
Fault(b) ==
  /\ faults < MaxFaults /\ faults' = faults + 1
  /\ \/ /\ net[b] \in {"sent", "ok"} /\ net' = [net EXCEPT ![b] = "retryable"]
        /\ strays' = Abandoned(b)
     \/ /\ net[b] \in {"sent", "ok"} /\ net' = [net EXCEPT ![b] = "rejected"]
        /\ UNCHANGED strays
  /\ UNCHANGED <<current, bursts, attempts, pc, entry, result, log>>

-----------------------------------------------------------------------------

Loop(b) ==
  \/ Dispatch(b) \/ Answered(b) \/ Retry(b) \/ CancelWins(b) \/ CleanedUp(b)
  \/ Stop(b) \/ StopEnd(b)

Call(e) == Receive(e) \/ LookActive(e) \/ Drain(e) \/ Release(e) \/ Closed(e)

Terminated == (\A e \in Appends : pc[e] = "done") /\ UNCHANGED vars

Next ==
  \/ \E b \in Appends : Loop(b) \/ Serve(b) \/ Fault(b)
  \/ \E e \in Appends : Join(e) \/ Interrupt(e) \/ Call(e)
  \/ ServeStray
  \/ Terminated

Spec == Init /\ [][Next]_vars

\* Fibers that can run are scheduled and requests are answered in the end;
\* nobody has to call or to interrupt append.
FairSpec ==
  /\ Spec
  /\ \A b \in Appends : WF_vars(Loop(b)) /\ WF_vars(Serve(b))
  /\ \A e \in Appends : WF_vars(Call(e))

-----------------------------------------------------------------------------
(* Properties. *)

(* Every variable stays in its range.                                       *)
OrdinaryTypeOK ==
  /\ current \in 0..MaxAppends
  /\ active \in [Appends -> SUBSET Appends] /\ buffer \in [Appends -> SUBSET Appends]
  /\ leases \in [Appends -> Nat] /\ loop \in [Appends -> Loops]
  /\ closing \in [Appends -> BOOLEAN]
  /\ net \in [Appends -> {"none", "sent", "retryable"} \cup Outcomes]
  /\ attempts \in [Appends -> Nat]
  /\ pc \in [Appends -> Locations] /\ joined \in [Appends -> 0..MaxAppends]
  /\ group \in [Appends -> Groups] /\ cancelled \in [Appends -> BOOLEAN]
  /\ owner \in [Appends -> BOOLEAN] /\ receipt \in [Appends -> Outcomes \cup {"open"}]
  /\ result \in [Appends -> Outcomes \cup {"none", "interrupted"}]
  /\ log \in Seq(SUBSET Appends) /\ strays \subseteq [batch : SUBSET Appends, try : Nat]
  /\ faults \in Nat

Stores(e) == {i \in 1..Len(log) : e \in log[i]}

(* What append reports as stored is in the stream, and appends that were    *)
(* both stored are first found there in the order they joined.              *)
AckedInOrder ==
  \A e \in Appends : receipt[e] = "ok" =>
     /\ Stores(e) # {}
     /\ \A f \in 1..(e - 1) : receipt[f] = "ok" => First(Stores(f)) <= First(Stores(e))

(* Within a burst a failure is final: nothing that joined behind a failed   *)
(* append is stored around it and acknowledged.                             *)
BurstIsPrefix ==
  \A e, f \in Appends :
     e < f /\ joined[e] = joined[f] /\ receipt[f] = "ok" => receipt[e] = "ok"

Busy(b) == loop[b] \in {"send", "cleanup"}

(* Batching keeps at most one request of the handle on the way, also when   *)
(* one burst is still winding down and the next has begun.                  *)
OneRequestAtATime == \A b, c \in Appends : Busy(b) /\ Busy(c) => b = c

(* Every value goes out with the services of its own caller: appends from    *)
(* different HTTP or authentication contexts never share a request, though  *)
(* an interrupted one, which has lost its context, may be batched with any. *)
OneContextPerRequest ==
  \A b \in Appends : Busy(b) =>
     \A e, f \in active[b] : owner[e] /\ group[e] = group[f]

(* When append returns, interrupted or not, no request with its value is    *)
(* running or in cleanup, and none will be sent: a cancelled buffered entry *)
(* is never dispatched.                                                     *)
NothingOutlivesItsCall ==
  \A b \in Appends : Busy(b) => \A e \in active[b] : pc[e] \notin {"closing", "done"}

(* Overlapping appends never hurt each other by themselves: without a        *)
(* failed request no value is stored twice, interrupted or not, and without *)
(* an interruption either every append succeeds.                            *)
OverlapIsHarmless ==
  faults = 0 =>
    /\ \A e \in Appends : Cardinality(Stores(e)) <= 1
    /\ (\A e \in Appends : ~cancelled[e]) => \A e \in Appends : receipt[e] \in {"open", "ok"}

(* A waiting append is in a burst whose fiber lives: however leases, joins  *)
(* and interruptions interleave, nobody waits for a fiber that is gone.     *)
NobodyIsForgotten ==
  \A e \in Appends : pc[e] \in {"await", "drain"} /\ receipt[e] = "open" =>
     /\ e \in active[joined[e]] \cup buffer[joined[e]]
     /\ loop[joined[e]] # "ended"

(* Every append that has joined a burst returns, whatever was interrupted   *)
(* around it: time and again no call of the handle is left waiting.         *)
EveryAppendReturns == []<>(\A e \in Appends : pc[e] \in {"new", "done"})
=============================================================================
