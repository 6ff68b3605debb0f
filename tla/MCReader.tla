------------------------------ MODULE MCReader ------------------------------
(* Instances of ReadSession for TLC.                                         *)
EXTENDS ReadSession

Mode(view, live, stop) == [view |-> view, live |-> live, stopAtTail |-> stop]

\* Text in every live mode, messages over events, and the batches of the Promise
\* client's responses, which stop at the tail (body, text, json) or do not.
ReaderModes ==
  {Mode("text", l, FALSE) : l \in {"off", "long-poll", "sse"}} \cup {Mode("json", "sse", FALSE)} \cup
  {Mode("batch", "sse", stop) : stop \in BOOLEAN}
=============================================================================
