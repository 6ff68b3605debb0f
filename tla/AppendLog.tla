------------------------------ MODULE AppendLog -----------------------------
(***************************************************************************)
(* What an idempotent producer promises, whatever its batching, pipelining *)
(* and recovery: admitted values 1, 2, ... reach the stream in admission   *)
(* order, without a hole and at most once; a value is acknowledged only    *)
(* once it is stored, and settled once; the stream is closed only when it  *)
(* holds every admitted value, and nothing is admitted or stored after.    *)
(* A value reported as failed may be stored or not.                        *)
(*                                                                         *)
(* An entry of the stream is the set of our values it holds: the empty set *)
(* is another writer's entry, or the close.                                *)
(***************************************************************************)
EXTENDS Naturals, Sequences

CONSTANT MaxEntries
VARIABLES admitted, status, stored, closed

logVars == <<admitted, status, stored, closed>>
Values == 1..MaxEntries
StoredValues == {e \in Values : \E i \in 1..Len(stored) : e \in stored[i]}

LogInit ==
  /\ admitted = 0 /\ status = [e \in Values |-> "open"]
  /\ stored = <<>> /\ closed = FALSE

AdmitValue ==
  /\ admitted < MaxEntries /\ ~closed
  /\ admitted' = admitted + 1
  /\ UNCHANGED <<status, stored, closed>>

\* One request stores the next few values: all up to n that are not there yet.
Store ==
  /\ ~closed
  /\ \E n \in 1..admitted :
       LET new == (1..n) \ StoredValues
       IN new # {} /\ stored' = Append(stored, new)
  /\ UNCHANGED <<admitted, status, closed>>

OtherWrites ==
  /\ ~closed
  /\ stored' = Append(stored, {})
  /\ UNCHANGED <<admitted, status, closed>>

Settle(S, outcome) ==
  /\ S # {} /\ \A e \in S : status[e] = "open"
  /\ outcome = "ok" => S \subseteq StoredValues
  /\ status' = [e \in Values |-> IF e \in S THEN outcome ELSE status[e]]
  /\ UNCHANGED <<admitted, stored, closed>>

CloseStream ==
  /\ ~closed /\ StoredValues = 1..admitted
  /\ closed' = TRUE /\ stored' = Append(stored, {})
  /\ UNCHANGED <<admitted, status>>

LogNext ==
  \/ AdmitValue \/ Store \/ OtherWrites \/ CloseStream
  \/ \E S \in SUBSET (1..admitted) : \E outcome \in {"ok", "fail", "int"} : Settle(S, outcome)

LogSpec == LogInit /\ [][LogNext]_logVars
=============================================================================
