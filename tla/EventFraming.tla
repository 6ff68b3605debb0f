---------------------------- MODULE EventFraming ----------------------------
(***************************************************************************)
(* The parser of server-sent events, parseSse of src/src/sse.ts: decoded   *)
(* text arrives in chunks cut anywhere, lines end with CR, LF or CR LF, a  *)
(* blank line dispatches what the lines before it said.  Each connection   *)
(* has a parser of its own.                                                *)
(*                                                                         *)
(* A character is a line break, a colon, a space, or a word that stands    *)
(* for its letters.                                                        *)
(***************************************************************************)
EXTENDS Naturals, Sequences, FiniteSets

CONSTANTS
  Words,            \* "event" and "data", the fields that count, and others
  MaxText,          \* bound: characters of a connection
  MaxChunk,         \* bound: characters of a chunk
  MaxConnections    \* bound: connections

ASSUME FramingAssumption ==
  /\ {"event", "data"} \subseteq Words
  /\ {"CR", "LF", ":", " "} \cap Words = {}
  /\ MaxText \in Nat /\ MaxChunk \in Nat \ {0} /\ MaxConnections \in Nat

VARIABLES
  text,             \* all the connection has sent so far
  parser,           \* state: line, afterCr, event, data; out, the events of a chunk
  events,           \* the events dispatched
  connections

vars == <<text, parser, events, connections>>

Breaks == {"CR", "LF"}
Chars == Words \cup Breaks \cup {":", " "}
Chunks == UNION {[1..n -> Chars] : n \in 1..MaxChunk}

Fresh == [line |-> <<>>, afterCr |-> FALSE, event |-> <<>>, data |-> <<>>, out |-> <<>>]

Init == text = <<>> /\ parser = Fresh /\ events = <<>> /\ connections = 1
-----------------------------------------------------------------------------

\* The field of a line ends at its first colon; one space may follow that.
Colon(l) ==
  CHOOSE i \in 1..Len(l) + 1 :
    (i <= Len(l) => l[i] = ":") /\ \A j \in 1..i - 1 : l[j] # ":"
Field(l) == SubSeq(l, 1, Colon(l) - 1)
Content(l) ==
  LET raw == SubSeq(l, Colon(l) + 1, Len(l))
  IN IF raw # <<>> /\ Head(raw) = " " THEN Tail(raw) ELSE raw

\* line(): the line read so far has ended.
EndLine(p) ==
  LET l == p.line
  IN IF l = <<>>
     THEN [p EXCEPT !.out = Append(@, [event |-> p.event, data |-> p.data]),
                    !.event = <<>>, !.data = <<>>]
     ELSE [p EXCEPT !.line = <<>>,
                    !.event = IF Field(l) = <<"event">> THEN Content(l) ELSE @,
                    !.data = IF Field(l) = <<"data">> THEN Append(@, Content(l)) ELSE @]

Read(p, c) ==
  LET q == [p EXCEPT !.afterCr = (c = "CR")]
  IN IF p.afterCr /\ c = "LF" THEN [p EXCEPT !.afterCr = FALSE]
     ELSE IF c \in Breaks THEN EndLine(q)
     ELSE [q EXCEPT !.line = Append(@, c)]

\* What a chunk finds of the one before.
Resumed_NoCr == [parser EXCEPT !.afterCr = FALSE]  \* mutant: state of the chunk
Resumed == parser

\* The characters of a chunk, one after the other.
ReadAll(start, chunk) ==
  LET after[i \in 0..Len(chunk)] ==
        IF i = 0 THEN start ELSE Read(after[i - 1], chunk[i])
  IN after[Len(chunk)]

Feed(chunk) ==
  LET p == ReadAll(Resumed, chunk) IN
  /\ Len(text) + Len(chunk) <= MaxText
  /\ text' = text \o chunk
  /\ parser' = [p EXCEPT !.out = <<>>]
  /\ events' = events \o p.out
  /\ UNCHANGED connections

\* The body ended, at any character; the next connection is parsed afresh.
Reconnect ==
  /\ connections < MaxConnections
  /\ text' = <<>> /\ parser' = Fresh /\ events' = <<>> /\ connections' = connections + 1

Next == Reconnect \/ \E chunk \in Chunks : Feed(chunk)

Spec == Init /\ [][Next]_vars
-----------------------------------------------------------------------------
(* The events of a text, by the positions of its characters.               *)

\* The elements of a finite set of positions, first to last.
InOrder(S) ==
  [k \in 1..Cardinality(S) |-> CHOOSE x \in S : Cardinality({y \in S : y <= x}) = k]

\* A line feed behind a carriage return ends no line.
Ends(t) == {i \in DOMAIN t : t[i] \in Breaks /\ ~(i > 1 /\ t[i] = "LF" /\ t[i - 1] = "CR")}
\* What stands between a position and the break before it.
LineStart(t, i) ==
  CHOOSE j \in 1..i : (j > 1 => t[j - 1] \in Breaks) /\ \A k \in j..i - 1 : t[k] \notin Breaks
LineAt(t, i) == SubSeq(t, LineStart(t, i), i - 1)
Blanks(t) == {i \in Ends(t) : LineAt(t, i) = <<>>}
\* The ends of the lines between a position and the blank line before it.
Block(t, i) == {j \in Ends(t) : j < i /\ \A b \in Blanks(t) : b < i => b < j}

Says(l, field) == l # <<>> /\ l[1] = field /\ (Len(l) = 1 \/ l[2] = ":")
Value(l) == SubSeq(l, IF Len(l) > 2 /\ l[3] = " " THEN 4 ELSE 3, Len(l))
Values(t, i, field) ==
  LET said == InOrder({j \in Block(t, i) : Says(LineAt(t, j), field)})
  IN [k \in DOMAIN said |-> Value(LineAt(t, said[k]))]

EventAt(t, i) ==
  LET names == Values(t, i, "event")
  IN [event |-> IF names = <<>> THEN <<>> ELSE names[Len(names)],
      data |-> Values(t, i, "data")]
EventsOf(t) ==
  LET blanks == InOrder(Blanks(t)) IN [k \in DOMAIN blanks |-> EventAt(t, blanks[k])]

(* However the text is cut into chunks, also between a CR and its LF or    *)
(* within a field, and whatever an earlier connection left unfinished, the *)
(* parser dispatches the events of the text, each once and at its blank    *)
(* line, and nothing of an event that was not ended (sse.ts:22-52).        *)
EventsAreFramed == events = EventsOf(text)
=============================================================================
