----------------------------- MODULE MCProducer -----------------------------
(* Instances of Producer for TLC.                                            *)
EXTENDS ProducerRefinement

Unknown == -1                          \* the server has not seen the producer id
=============================================================================
