----------------------------- MODULE ReadSession -----------------------------
(***************************************************************************)
(* One application reading a stream that grows: read sessions of           *)
(* src/src/read.ts, one after the other, each started from the offset the  *)
(* application saved.  A session catches up page by page, then, when live, *)
(* long-polls or follows server-sent events, and falls back from those to  *)
(* long-polling when connections keep ending early.                        *)
(*                                                                         *)
(* The log is a sequence of units: a number w > 0 starts a character of w  *)
(* units, 0 continues one.  A JSON message is a unit on its own.  What     *)
(* travels is the index of a unit in the log; an offset is the index of    *)
(* the last unit before it.                                                *)
(***************************************************************************)
EXTENDS Integers, Sequences

CONSTANTS
  Modes,              \* records of a view, a live mode and stopAtTail
  Widths,             \* widths of characters in units
  MaxRetries,         \* backoffOptions.maxRetries
  MaxShort,           \* sseResilience.maxShortConnections
  MaxLog,             \* bound: units appended to the stream
  MaxSessions,        \* bound: read sessions
  MaxLongDrops        \* bound: event connections that end after a long time

ASSUME ReadAssumption ==
  /\ Widths \subseteq Nat \ {0} /\ MaxRetries \in Nat /\ MaxShort \in Nat \ {0}
  /\ MaxLog \in Nat /\ MaxSessions \in Nat /\ MaxLongDrops \in Nat
  /\ \A m \in Modes :
       /\ m.view \in {"bytes", "text", "json", "batch"}
       /\ m.live \in {"off", "long-poll", "sse"}
       /\ m.stopAtTail \in BOOLEAN

VARIABLES
  log, closed,                                 \* the server
  mode, phase, failure, sessions, saved,       \* the application
  start, checkpoint, position, longPoll, sse, fallback, shorts, longDrops,
  attempts, initial, boundary, collected, parts,   \* the page being read
  pending, served,                             \* the event connection
  needed, given, at                            \* the view

server == <<log, closed>>
state == <<position, longPoll, sse, fallback, shorts, longDrops>>
page == <<attempts, initial, boundary, collected, parts>>
events == <<pending, served>>
output == <<needed, given, at>>
session == <<sessions, saved, mode, start>>
vars == <<server, session, phase, failure, checkpoint, state, page, events, output>>

None == -1                  \* Option.none, undefined
Phases == {"none", "idle", "page", "http", "sse", "delay", "done", "failed", "stopped"}
Running == {"page", "http", "sse", "delay"}
Streaming == {"bytes", "text"}      \* views that emit a body as it arrives
NoBoundary == [to |-> None, upToDate |-> FALSE, closed |-> FALSE]
Boundaries == [to : Nat, upToDate : BOOLEAN, closed : BOOLEAN]

Init ==
  /\ log = <<>> /\ closed = FALSE
  /\ mode \in Modes /\ phase = "none" /\ failure = "none" /\ sessions = 0 /\ saved = 0
  /\ start = 0 /\ checkpoint = None /\ position = 0
  /\ longPoll = FALSE /\ sse = FALSE /\ fallback = FALSE /\ shorts = 0 /\ longDrops = 0
  /\ attempts = 0 /\ initial = NoBoundary /\ boundary = NoBoundary /\ collected = FALSE /\ parts = <<>>
  /\ pending = <<>> /\ served = 0
  /\ needed = 0 /\ given = <<>> /\ at = 0

-----------------------------------------------------------------------------
(* The server.  It answers from the offset it is asked for, with at least  *)
(* one unit when there is one.                                             *)

\* How many units the last character of the log still lacks.
Lacking ==
  IF \E i \in 1..Len(log) : i + log[i] - 1 > Len(log)
  THEN LET i == CHOOSE j \in 1..Len(log) : j + log[j] - 1 > Len(log)
       IN i + log[i] - 1 - Len(log)
  ELSE 0

\* Others append whole characters, or a 0 that continues none: bytes that are
\* no UTF-8.  To views other than text all units are alike.
Append1(u) ==
  /\ ~closed /\ Len(log) < MaxLog
  /\ IF mode.view = "text" THEN Lacking > 0 => u = 0 ELSE u = 1
  /\ log' = Append(log, u)
  /\ UNCHANGED <<closed, session, phase, failure, checkpoint, state, page, events, output>>

CloseStream ==
  /\ ~closed
  /\ closed' = TRUE
  /\ UNCHANGED <<log, session, phase, failure, checkpoint, state, page, events, output>>

BoundaryAt(to) ==
  [to |-> to, upToDate |-> to = Len(log), closed |-> closed /\ to = Len(log)]

Replies(from) ==
  {BoundaryAt(to) : to \in IF from < Len(log) THEN from + 1 .. Len(log) ELSE {from}}
-----------------------------------------------------------------------------
(* The application: it opens sessions, saves their offset, stops them.     *)

Open ==
  /\ phase \in {"none", "done", "failed", "stopped"} /\ sessions < MaxSessions
  /\ sessions' = sessions + 1 /\ phase' = "idle" /\ failure' = "none"
  /\ start' = saved /\ position' = saved /\ at' = saved /\ checkpoint' = None
  /\ longPoll' = FALSE /\ sse' = FALSE /\ fallback' = FALSE /\ shorts' = 0
  /\ attempts' = 0 /\ initial' = NoBoundary /\ boundary' = NoBoundary /\ collected' = FALSE
  /\ parts' = <<>> /\ pending' = <<>> /\ served' = 0 /\ needed' = 0 /\ given' = <<>>
  /\ UNCHANGED <<server, saved, mode, longDrops>>

\* The one consumption a session permits.
Consume ==
  /\ phase = "idle"
  /\ phase' = "page"
  /\ UNCHANGED <<server, session, failure, checkpoint, state, page, events, output>>

SaveOffset ==
  /\ checkpoint # None /\ saved # checkpoint
  /\ saved' = checkpoint
  /\ UNCHANGED <<server, sessions, mode, start, phase, failure, checkpoint, state, page, events,
                 output>>

Stop ==
  /\ phase \in Running
  /\ phase' = "stopped"
  /\ UNCHANGED <<server, session, failure, checkpoint, state, page, events, output>>

Fail(why) ==
  /\ phase' = "failed" /\ failure' = why
  /\ UNCHANGED <<server, session, checkpoint, state, events, output>>
-----------------------------------------------------------------------------
(* Requests.  A response the policy retries, or none, is retried.          *)

Requesting == phase \in {"idle", "page"} /\ initial = NoBoundary

RequestRetried ==
  /\ Requesting /\ attempts < MaxRetries
  /\ attempts' = attempts + 1
  /\ UNCHANGED <<server, session, phase, failure, checkpoint, state, initial, boundary, collected,
                 parts, events, output>>

RequestFails ==
  /\ Requesting
  /\ Fail("request")
  /\ UNCHANGED page

\* acquireInitial: the first request, sent before anything consumes.
AcquireInitial ==
  /\ phase = "idle" /\ initial = NoBoundary
  /\ initial' \in Replies(position)
  /\ attempts' = 0
  /\ UNCHANGED <<server, session, phase, failure, checkpoint, state, boundary, collected, parts,
                 events, output>>

BeginPage ==
  /\ phase = "page" /\ ~sse
  /\ boundary' \in IF initial # NoBoundary THEN {initial} ELSE Replies(position)
  /\ parts' = [k \in 1 .. boundary'.to - position |-> position + k]
  /\ collected' = (mode.view \in Streaming)
  /\ initial' = NoBoundary /\ attempts' = 0 /\ phase' = "http"
  /\ UNCHANGED <<server, session, failure, checkpoint, state, events, output>>

StartPending_Kept == pending                       \* mutant: survives a connection
StartPending == <<>>

BeginEvents ==
  /\ phase = "page" /\ sse
  /\ served' = position /\ pending' = StartPending
  /\ boundary' = NoBoundary /\ collected' = TRUE /\ parts' = <<>>
  /\ initial' = NoBoundary /\ attempts' = 0 /\ phase' = "sse"
  /\ UNCHANGED <<server, session, failure, checkpoint, state, output>>

\* Headers or events that break the protocol end the session.
ProtocolViolation ==
  /\ phase \in {"page", "sse"}
  /\ Fail("protocol")
  /\ UNCHANGED page
-----------------------------------------------------------------------------
(* A page, or what one control event ended: handed over, then committed.   *)

\* A JSON body, or a batch, is read to its end before any of it is emitted.
Collect ==
  /\ phase = "http" /\ ~collected
  /\ collected' = TRUE
  /\ UNCHANGED <<server, session, phase, failure, checkpoint, state, attempts, initial, boundary,
                 parts, events, output>>

BodyFails ==
  /\ phase = "http" /\ (mode.view \in Streaming \/ ~collected)
  /\ Fail("body")
  /\ UNCHANGED page

Emitting == phase \in {"http", "sse"} /\ boundary # NoBoundary /\ collected /\ parts # <<>>

\* The units the decoder still waits for after unit u.
NeededAfter_Twice(u) == IF needed > 0 THEN needed - 2 ELSE u - 1   \* mutant
NeededAfter(u) == IF needed > 0 THEN needed - 1 ELSE u - 1

Decodable(u) == (u = 0) = (needed > 0)

\* A unit that completes no character is kept in the text decoder.
Emit ==
  LET i == Head(parts) IN
  /\ Emitting /\ mode.view # "batch"
  /\ mode.view = "text" => Decodable(log[i])
  /\ parts' = Tail(parts) /\ given' = Append(given, i)
  /\ needed' = IF mode.view = "text" THEN NeededAfter(log[i]) ELSE 0
  /\ at' = IF needed' = 0 THEN i ELSE at
  /\ UNCHANGED <<server, session, phase, failure, checkpoint, state, attempts, initial, boundary,
                 collected, events>>

DecodeFails ==
  /\ Emitting /\ mode.view = "text" /\ ~Decodable(log[Head(parts)])
  /\ Fail("utf8")
  /\ UNCHANGED page

EmitBatch ==
  /\ Emitting /\ mode.view = "batch"
  /\ parts' = <<>> /\ given' = given \o parts /\ at' = parts[Len(parts)]
  /\ UNCHANGED <<server, session, phase, failure, checkpoint, state, attempts, initial, boundary,
                 collected, events, needed>>

PageDone ==
  boundary.closed \/ ((mode.live = "off" \/ mode.stopAtTail) /\ boundary.upToDate)

EndOfPart_Early == boundary # NoBoundary /\ collected   \* mutant: before the last value
EndOfPart == boundary # NoBoundary /\ collected /\ parts = <<>>
Complete_Always == TRUE                            \* mutant
Complete == mode.view = "text" => needed = 0

\* The flush of the decoder at the end of the text finds half a character.
Truncated ==
  /\ EndOfPart /\ ~Complete
  /\ (phase = "http" /\ PageDone) \/ (phase = "sse" /\ boundary.closed)
  /\ Fail("truncated")
  /\ UNCHANGED page

NextOffset_Old == position                         \* mutant: the page's own offset
NextOffset == boundary.to

CommitOffset ==
  /\ checkpoint' = IF Complete THEN NextOffset ELSE checkpoint
  /\ position' = boundary.to

FollowEvents == mode.live = "sse" /\ ~fallback /\ boundary.upToDate

EndPage ==
  /\ phase = "http" /\ EndOfPart
  /\ PageDone => Complete
  /\ CommitOffset
  /\ phase' = IF PageDone THEN "done" ELSE "page"
  /\ longPoll' = ((mode.live = "long-poll" \/ fallback) /\ boundary.upToDate)
  /\ sse' = FollowEvents
  /\ boundary' = NoBoundary
  /\ UNCHANGED <<server, session, failure, fallback, shorts, longDrops, attempts, initial,
                 collected, parts, events, output>>
-----------------------------------------------------------------------------
(* The event connection.  Data is held back until a control event says     *)
(* where it ends; the next connection starts with nothing held back.       *)

DataEvent ==
  /\ phase = "sse" /\ boundary = NoBoundary /\ served < Len(log)
  /\ served' = served + 1 /\ pending' = Append(pending, served + 1)
  /\ UNCHANGED <<server, session, phase, failure, checkpoint, state, page, output>>

ControlEvent ==
  /\ phase = "sse" /\ boundary = NoBoundary
  /\ pending # <<>> \/ served = Len(log)
  /\ boundary' = BoundaryAt(served) /\ parts' = pending /\ pending' = <<>>
  /\ UNCHANGED <<server, session, phase, failure, checkpoint, state, attempts, initial, collected,
                 served, output>>

\* Events are taken until the one that closes the stream.  stopAtTail never
\* gets here: its catch-up ends at the tail.
EndControl ==
  /\ phase = "sse" /\ EndOfPart
  /\ boundary.closed => Complete
  /\ CommitOffset
  /\ phase' = IF boundary.closed THEN "done" ELSE "sse"
  /\ boundary' = NoBoundary
  /\ UNCHANGED <<server, session, failure, longPoll, sse, fallback, shorts, longDrops, attempts,
                 initial, collected, parts, events, output>>

ShortCount_Reset(short) == IF short THEN 1 ELSE 0  \* mutant
ShortCount(short) == IF short THEN shorts + 1 ELSE 0

EventsEnd(short) ==
  /\ phase = "sse" /\ boundary = NoBoundary
  /\ short \/ longDrops < MaxLongDrops
  /\ longDrops' = IF short THEN longDrops ELSE longDrops + 1
  /\ shorts' = ShortCount(short)
  /\ IF shorts' >= MaxShort
     THEN fallback' = TRUE /\ sse' = FALSE /\ longPoll' = TRUE /\ phase' = "page"
     ELSE phase' = (IF shorts' > 0 THEN "delay" ELSE "page") /\ UNCHANGED <<fallback, sse, longPoll>>
  /\ UNCHANGED <<server, session, failure, checkpoint, position, page, events, output>>

Reconnect ==
  /\ phase = "delay"
  /\ phase' = "page"
  /\ UNCHANGED <<server, session, failure, checkpoint, state, page, events, output>>
-----------------------------------------------------------------------------

Environment == (\E u \in Widths \cup {0} : Append1(u)) \/ CloseStream
Application == Open \/ Consume \/ SaveOffset \/ Stop
Faults ==
  \/ RequestRetried \/ RequestFails \/ ProtocolViolation \/ BodyFails
  \/ \E short \in BOOLEAN : EventsEnd(short)
Handing == Collect \/ Emit \/ EmitBatch \/ DecodeFails \/ Truncated \/ EndPage \/ EndControl
Connecting == AcquireInitial \/ BeginPage \/ BeginEvents \/ Reconnect

Next == Environment \/ Application \/ Faults \/ Handing \/ Connecting \/ DataEvent \/ ControlEvent

Spec == Init /\ [][Next]_vars

(* The reading fiber runs on, a connected server answers and sends what it *)
(* has; nobody has to append, close, stop or save, and nothing has to fail.*)
FairSpec ==
  /\ Spec
  /\ WF_vars(Handing) /\ WF_vars(BeginPage \/ BeginEvents) /\ WF_vars(Reconnect)
  /\ WF_vars(DataEvent) /\ WF_vars(ControlEvent)
-----------------------------------------------------------------------------
(* Properties                                                              *)

(* The variables have their types. *)
ReadTypeOK ==
  /\ log \in Seq(Widths \cup {0}) /\ closed \in BOOLEAN
  /\ mode \in Modes /\ phase \in Phases /\ sessions \in Nat /\ saved \in Nat
  /\ failure \in {"none", "request", "protocol", "body", "utf8", "truncated"}
  /\ start \in Nat /\ checkpoint \in Nat \cup {None} /\ position \in Nat
  /\ longPoll \in BOOLEAN /\ sse \in BOOLEAN /\ fallback \in BOOLEAN
  /\ shorts \in Nat /\ longDrops \in Nat /\ attempts \in Nat
  /\ initial \in Boundaries \cup {NoBoundary} /\ boundary \in Boundaries \cup {NoBoundary}
  /\ collected \in BOOLEAN /\ parts \in Seq(Nat) /\ pending \in Seq(Nat) /\ served \in Nat
  /\ needed \in Nat /\ given \in Seq(Nat) /\ at \in Nat

(* Whatever pages, events, failures of connections and reconnects a        *)
(* session went through, its view was given the log from the session's     *)
(* start on, every unit once and in order (position and pending of read.ts *)
(* stay in step over SSE reconnects and the fallback to long-poll).        *)
DeliveredInOrder == given = [k \in 1..Len(given) |-> start + k]

(* client.offset covers no value the consumer has not received, and never  *)
(* goes back behind the session's start: stopping anywhere and resuming    *)
(* from it may replay, never skip (src/README.md:168).                     *)
CheckpointIsDelivered == checkpoint # None => start <= checkpoint /\ checkpoint <= at

(* A new session's text decoder never starts inside a character, and a     *)
(* running one never sees a character broken by a reconnect: the offset    *)
(* moves only where decoding is complete (read.ts:303, read.ts:199).  Text *)
(* fails to decode only where the stream itself is no text.                *)
WellFormed ==
  \A i \in 1..Len(log) : log[i] = 0 => \E j \in 1..i - 1 : i < j + log[j]
TextIsNeverGarbled == failure = "utf8" => ~WellFormed

(* A session that ran to its end left an offset that covers exactly what   *)
(* was handed over: resuming from it repeats and skips nothing.            *)
EndIsExact == phase = "done" => checkpoint = at /\ at = start + Len(given)

(* Early ends of event connections are counted against the limit, and      *)
(* after the fallback to long-poll no event connection is opened again.    *)
FallbackIsFinal ==
  [][sessions' = sessions =>
       /\ fallback => fallback' /\ phase' # "sse"
       /\ phase # "sse" /\ phase' = "sse" => shorts < MaxShort]_vars

(* What was appended while a session runs is handed over, unless the       *)
(* session ends first, however many event connections end early.           *)
EverythingArrives ==
  \A n \in 1..MaxLog :
    phase \in Running /\ n <= Len(log) ~> phase \notin Running \/ n <= start + Len(given)
-----------------------------------------------------------------------------
Reader == INSTANCE StreamReader

(* The sessions of one application, over failures, stops and resumptions,  *)
(* behave as the abstract reader.                                          *)
ImplementsReader == Reader!ReaderSpec
=============================================================================
