----------------------------- MODULE MCOrdinary -----------------------------
(* Instances of OrdinaryAppend for TLC.                                      *)
EXTENDS OrdinaryAppend

\* One content type under two execution contexts.
TwoContexts == {[type |-> "bytes", context |-> c] : c \in {"A", "B"}}
=============================================================================
