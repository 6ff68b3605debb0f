------------------------------- MODULE MCAsync -------------------------------
(* Instances of AsyncProducer for TLC.                                       *)
EXTENDS AsyncProducer
=============================================================================
