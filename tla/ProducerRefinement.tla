------------------------- MODULE ProducerRefinement -------------------------
(***************************************************************************)
(* The producer implements AppendLog: a batch in the log stands for the    *)
(* set of its values, the close and other writers' entries for none.       *)
(***************************************************************************)
EXTENDS ProducerProperties

Stored == [i \in 1..Len(log) |-> IF log[i] \in Ids THEN Entries(log[i]) ELSE {}]

Abstract == INSTANCE AppendLog
  WITH admitted <- id, status <- receipt, stored <- Stored, closed <- sClosed # NoTuple

(* The producer, its retries, reordered requests, faults, strays, closes    *)
(* and finalizer included, behaves as the abstract append log.              *)
ImplementsAppendLog == Abstract!LogSpec
=============================================================================
