---------------------------- MODULE StreamReader ----------------------------
(***************************************************************************)
(* What a reader that keeps its offset promises its application: values    *)
(* arrive in the log's order without a hole, an offset it may resume from  *)
(* covers only values that arrived, and a restart goes back to that offset *)
(* and no further.                                                         *)
(***************************************************************************)
EXTENDS Naturals, Sequences

VARIABLES
  log,    \* the stream, which others append to
  at,     \* how much of it the current session has handed over
  saved   \* the offset the application resumes from

readerVars == <<log, at, saved>>

ReaderInit == log = <<>> /\ at = 0 /\ saved = 0

Grow ==
  /\ Len(log') = Len(log) + 1 /\ SubSeq(log', 1, Len(log)) = log
  /\ UNCHANGED <<at, saved>>

Deliver ==
  /\ at' \in at + 1 .. Len(log)
  /\ UNCHANGED <<log, saved>>

Save ==
  /\ saved' \in saved + 1 .. at
  /\ UNCHANGED <<log, at>>

Resume ==
  /\ at' = saved
  /\ UNCHANGED <<log, saved>>

ReaderNext == Grow \/ Deliver \/ Save \/ Resume

ReaderSpec == ReaderInit /\ [][ReaderNext]_readerVars
=============================================================================
