------------------------------ MODULE MCFraming ------------------------------
(* Instances of EventFraming for TLC.                                        *)
EXTENDS EventFraming

FieldWords == {"event", "data"}        \* serve as contents, too
=============================================================================
