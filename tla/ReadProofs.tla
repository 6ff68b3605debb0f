----------------------------- MODULE ReadProofs -----------------------------
(***************************************************************************)
(* Proofs about ReadSession for any view and mode, log, number of sessions *)
(* and of lost connections.  The inductive invariant says where the next   *)
(* unit is at every moment of a session: what was given ends at `Reached`, *)
(* and the page, the events held back, or the next request begin there.    *)
(***************************************************************************)
EXTENDS ReadSession, SequenceTheorems, TLAPS

Reached == start + Len(given)

GivenAt == \A k \in 1..Len(given) : given[k] = start + k

\* What remains of the page, up to its boundary, follows what was given.
PartsFollow ==
  phase \in {"http", "sse"} /\ boundary # NoBoundary =>
    /\ \A k \in 1..Len(parts) : parts[k] = Reached + k
    /\ boundary.to = Reached + Len(parts) /\ boundary.to <= Len(log)
    /\ phase = "sse" => pending = <<>> /\ served = boundary.to

\* Between two control events, what is held back follows what was given.
EventsFollow ==
  phase = "sse" /\ boundary = NoBoundary =>
    /\ parts = <<>> /\ position = Reached
    /\ \A k \in 1..Len(pending) : pending[k] = Reached + k
    /\ served = Reached + Len(pending) /\ served <= Len(log)

\* The next request asks for what follows.
RequestFollows ==
  phase \in {"idle", "page", "delay"} =>
    /\ position = Reached
    /\ initial # NoBoundary => initial.to >= position /\ initial.to <= Len(log)

HttpHasPage == /\ phase = "http" => boundary # NoBoundary
               /\ phase \in {"http", "sse"} => initial = NoBoundary

\* The consumer has everything given but the start of a split character.
DecoderCovers ==
  /\ start <= at /\ at <= Reached /\ Reached <= Len(log)
  /\ needed = 0 => at = Reached
  /\ mode.view # "text" => needed = 0

SavedIsDelivered == saved <= at /\ (checkpoint # None => saved <= checkpoint)

EventsAllowed ==
  /\ fallback => ~sse
  /\ phase = "sse" => sse
  /\ ~fallback => shorts < MaxShort

ReadInv ==
  /\ ReadTypeOK /\ GivenAt /\ PartsFollow /\ EventsFollow /\ RequestFollows /\ HttpHasPage
  /\ DecoderCovers /\ SavedIsDelivered /\ EventsAllowed /\ CheckpointIsDelivered /\ EndIsExact

-----------------------------------------------------------------------------

LEMMA Interval ==
  ASSUME NEW a \in Nat, NEW n \in Nat
  PROVE  /\ [k \in 1..n |-> a + k] \in Seq(Nat)
         /\ Len([k \in 1..n |-> a + k]) = n
  <1>1. [k \in 1..n |-> a + k] \in [1..n -> Nat]
    OBVIOUS
  <1>2. [k \in 1..n |-> a + k] \in Seq(Nat)
    BY <1>1, SeqDef
  <1> QED BY <1>2, LenProperties

LEMMA Typed == \A m \in Modes : m.view \in {"bytes", "text", "json", "batch"}
  BY ReadAssumption

\* Any answer ends at or behind the offset it was asked for.
LEMMA ReplyTo ==
  ASSUME NEW from \in Nat, log \in Seq(Widths \cup {0}), closed \in BOOLEAN, from <= Len(log),
         NEW r \in Replies(from)
  PROVE  r \in Boundaries /\ r # NoBoundary /\ r.to >= from /\ r.to <= Len(log)
  <1>1. Len(log) \in Nat
    BY LenProperties
  <1>2. PICK to \in IF from < Len(log) THEN from + 1 .. Len(log) ELSE {from} : r = BoundaryAt(to)
    BY DEF Replies
  <1>3. to \in Nat /\ to >= from /\ to <= Len(log)
    BY <1>1, <1>2
  <1> QED BY <1>2, <1>3 DEF BoundaryAt, Boundaries, NoBoundary, None

-----------------------------------------------------------------------------
(* The initial states, and each action. *)

LEMMA InitInv == Init => ReadInv
  <1> SUFFICES ASSUME Init PROVE ReadInv
    OBVIOUS
  <1>1. <<>> \in Seq(Nat) /\ <<>> \in Seq(Widths \cup {0}) /\ Len(<<>>) = 0
    BY EmptySeq
  <1>2. ReadTypeOK
    BY <1>1 DEF Init, ReadTypeOK, Phases
  <1>3. GivenAt /\ PartsFollow /\ EventsFollow /\ RequestFollows /\ HttpHasPage
    BY DEF Init, GivenAt, PartsFollow, EventsFollow, RequestFollows, HttpHasPage
  <1>4. DecoderCovers /\ SavedIsDelivered /\ CheckpointIsDelivered /\ EndIsExact
    BY <1>1 DEF Init, DecoderCovers, SavedIsDelivered, CheckpointIsDelivered, EndIsExact, Reached
  <1>5. EventsAllowed
    BY ReadAssumption DEF Init, EventsAllowed
  <1> QED BY <1>2, <1>3, <1>4, <1>5 DEF ReadInv

LEMMA Append1Inv ==
  ASSUME ReadInv, NEW u \in Widths \cup {0}, Append1(u)
  PROVE  ReadInv'
  <1> USE DEF ReadInv, Append1, session, state, page, events, output
  <1>1. log' \in Seq(Widths \cup {0}) /\ Len(log') = Len(log) + 1 /\ Len(log) \in Nat
    BY AppendProperties, LenProperties DEF ReadTypeOK
  <1>2. ReadTypeOK'
    BY <1>1 DEF ReadTypeOK
  <1>3. (GivenAt /\ RequestFollows /\ HttpHasPage)'
    BY <1>1 DEF GivenAt, RequestFollows, HttpHasPage, Reached, ReadTypeOK, Boundaries, NoBoundary
  <1>4. PartsFollow'
    BY <1>1 DEF PartsFollow, Reached, ReadTypeOK, Boundaries, NoBoundary
  <1>5. EventsFollow'
    BY <1>1 DEF EventsFollow, Reached, ReadTypeOK
  <1>6. (DecoderCovers /\ SavedIsDelivered /\ CheckpointIsDelivered /\ EndIsExact)'
    BY <1>1, LenProperties
       DEF DecoderCovers, SavedIsDelivered, CheckpointIsDelivered, EndIsExact, Reached, ReadTypeOK
  <1>7. EventsAllowed'
    BY DEF EventsAllowed
  <1> QED BY <1>2, <1>3, <1>4, <1>5, <1>6, <1>7

LEMMA CloseStreamInv ==
  ASSUME ReadInv, CloseStream
  PROVE  ReadInv'
  <1> USE DEF ReadInv, CloseStream, server, session, state, page, events, output
  <1>1. ReadTypeOK'
    BY EmptySeq DEF ReadTypeOK, Phases
  <1>2. (GivenAt /\ PartsFollow /\ EventsFollow /\ RequestFollows /\ HttpHasPage)'
    BY EmptySeq, LenProperties
       DEF GivenAt, PartsFollow, EventsFollow, RequestFollows, HttpHasPage, Reached, ReadTypeOK
  <1>3. (DecoderCovers /\ SavedIsDelivered /\ CheckpointIsDelivered /\ EndIsExact)'
    BY EmptySeq, LenProperties
       DEF DecoderCovers, SavedIsDelivered, CheckpointIsDelivered, EndIsExact, Reached, ReadTypeOK
  <1>4. EventsAllowed'
    BY ReadAssumption DEF EventsAllowed, ReadTypeOK
  <1> QED BY <1>1, <1>2, <1>3, <1>4

LEMMA OpenInv ==
  ASSUME ReadInv, Open
  PROVE  ReadInv'
  <1> USE DEF ReadInv, Open, server, session, state, page, events, output
  <1>1. ReadTypeOK'
    <2>1. <<>> \in Seq(Nat)
      BY EmptySeq
    <2>2. saved \in Nat /\ sessions + 1 \in Nat
      BY DEF ReadTypeOK
    <2> QED BY <2>1, <2>2 DEF ReadTypeOK, Phases
  <1>2. (GivenAt /\ PartsFollow /\ EventsFollow /\ RequestFollows /\ HttpHasPage)'
    BY EmptySeq, LenProperties
       DEF GivenAt, PartsFollow, EventsFollow, RequestFollows, HttpHasPage, Reached, ReadTypeOK, NoBoundary, None
  <1>3. (DecoderCovers /\ SavedIsDelivered /\ CheckpointIsDelivered /\ EndIsExact)'
    BY EmptySeq, LenProperties
       DEF DecoderCovers, SavedIsDelivered, CheckpointIsDelivered, EndIsExact, Reached, ReadTypeOK, NoBoundary, None
  <1>4. EventsAllowed'
    BY ReadAssumption DEF EventsAllowed, ReadTypeOK, NoBoundary, None
  <1> QED BY <1>1, <1>2, <1>3, <1>4

LEMMA ConsumeInv ==
  ASSUME ReadInv, Consume
  PROVE  ReadInv'
  <1> USE DEF ReadInv, Consume, server, session, state, page, events, output
  <1>1. ReadTypeOK'
    BY EmptySeq DEF ReadTypeOK, Phases
  <1>2. (GivenAt /\ PartsFollow /\ EventsFollow /\ RequestFollows /\ HttpHasPage)'
    BY EmptySeq, LenProperties
       DEF GivenAt, PartsFollow, EventsFollow, RequestFollows, HttpHasPage, Reached, ReadTypeOK
  <1>3. (DecoderCovers /\ SavedIsDelivered /\ CheckpointIsDelivered /\ EndIsExact)'
    BY EmptySeq, LenProperties
       DEF DecoderCovers, SavedIsDelivered, CheckpointIsDelivered, EndIsExact, Reached, ReadTypeOK
  <1>4. EventsAllowed'
    BY ReadAssumption DEF EventsAllowed, ReadTypeOK
  <1> QED BY <1>1, <1>2, <1>3, <1>4

LEMMA SaveOffsetInv ==
  ASSUME ReadInv, SaveOffset
  PROVE  ReadInv'
  <1> USE DEF ReadInv, SaveOffset, server, session, state, page, events, output
  <1>1. ReadTypeOK'
    BY EmptySeq DEF ReadTypeOK, Phases, None
  <1>2. (GivenAt /\ PartsFollow /\ EventsFollow /\ RequestFollows /\ HttpHasPage)'
    BY EmptySeq, LenProperties
       DEF GivenAt, PartsFollow, EventsFollow, RequestFollows, HttpHasPage, Reached, ReadTypeOK, None
  <1>3. (DecoderCovers /\ SavedIsDelivered /\ CheckpointIsDelivered /\ EndIsExact)'
    BY EmptySeq, LenProperties
       DEF DecoderCovers, SavedIsDelivered, CheckpointIsDelivered, EndIsExact, Reached, ReadTypeOK, None
  <1>4. EventsAllowed'
    BY ReadAssumption DEF EventsAllowed, ReadTypeOK, None
  <1> QED BY <1>1, <1>2, <1>3, <1>4

LEMMA StopInv ==
  ASSUME ReadInv, Stop
  PROVE  ReadInv'
  <1> USE DEF ReadInv, Stop, server, session, state, page, events, output
  <1>1. ReadTypeOK'
    BY EmptySeq DEF ReadTypeOK, Phases, Running
  <1>2. (GivenAt /\ PartsFollow /\ EventsFollow /\ RequestFollows /\ HttpHasPage)'
    BY EmptySeq, LenProperties
       DEF GivenAt, PartsFollow, EventsFollow, RequestFollows, HttpHasPage, Reached, ReadTypeOK, Running
  <1>3. (DecoderCovers /\ SavedIsDelivered /\ CheckpointIsDelivered /\ EndIsExact)'
    BY EmptySeq, LenProperties
       DEF DecoderCovers, SavedIsDelivered, CheckpointIsDelivered, EndIsExact, Reached, ReadTypeOK, Running
  <1>4. EventsAllowed'
    BY ReadAssumption DEF EventsAllowed, ReadTypeOK, Running
  <1> QED BY <1>1, <1>2, <1>3, <1>4

LEMMA RequestRetriedInv ==
  ASSUME ReadInv, RequestRetried
  PROVE  ReadInv'
  <1> USE DEF ReadInv, RequestRetried, server, session, state, page, events, output
  <1>1. ReadTypeOK'
    BY EmptySeq DEF ReadTypeOK, Phases, Requesting
  <1>2. (GivenAt /\ PartsFollow /\ EventsFollow /\ RequestFollows /\ HttpHasPage)'
    BY EmptySeq, LenProperties
       DEF GivenAt, PartsFollow, EventsFollow, RequestFollows, HttpHasPage, Reached, ReadTypeOK, Requesting
  <1>3. (DecoderCovers /\ SavedIsDelivered /\ CheckpointIsDelivered /\ EndIsExact)'
    BY EmptySeq, LenProperties
       DEF DecoderCovers, SavedIsDelivered, CheckpointIsDelivered, EndIsExact, Reached, ReadTypeOK, Requesting
  <1>4. EventsAllowed'
    BY ReadAssumption DEF EventsAllowed, ReadTypeOK, Requesting
  <1> QED BY <1>1, <1>2, <1>3, <1>4

LEMMA RequestFailsInv ==
  ASSUME ReadInv, RequestFails
  PROVE  ReadInv'
  <1> USE DEF ReadInv, RequestFails, server, session, state, page, events, output
  <1>1. ReadTypeOK'
    BY EmptySeq DEF ReadTypeOK, Phases, Requesting, Fail
  <1>2. (GivenAt /\ PartsFollow /\ EventsFollow /\ RequestFollows /\ HttpHasPage)'
    BY EmptySeq, LenProperties
       DEF GivenAt, PartsFollow, EventsFollow, RequestFollows, HttpHasPage, Reached, ReadTypeOK, Requesting, Fail
  <1>3. (DecoderCovers /\ SavedIsDelivered /\ CheckpointIsDelivered /\ EndIsExact)'
    BY EmptySeq, LenProperties
       DEF DecoderCovers, SavedIsDelivered, CheckpointIsDelivered, EndIsExact, Reached, ReadTypeOK, Requesting, Fail
  <1>4. EventsAllowed'
    BY ReadAssumption DEF EventsAllowed, ReadTypeOK, Requesting, Fail
  <1> QED BY <1>1, <1>2, <1>3, <1>4

LEMMA ProtocolViolationInv ==
  ASSUME ReadInv, ProtocolViolation
  PROVE  ReadInv'
  <1> USE DEF ReadInv, ProtocolViolation, server, session, state, page, events, output
  <1>1. ReadTypeOK'
    BY EmptySeq DEF ReadTypeOK, Phases, Fail
  <1>2. (GivenAt /\ PartsFollow /\ EventsFollow /\ RequestFollows /\ HttpHasPage)'
    BY EmptySeq, LenProperties
       DEF GivenAt, PartsFollow, EventsFollow, RequestFollows, HttpHasPage, Reached, ReadTypeOK, Fail
  <1>3. (DecoderCovers /\ SavedIsDelivered /\ CheckpointIsDelivered /\ EndIsExact)'
    BY EmptySeq, LenProperties
       DEF DecoderCovers, SavedIsDelivered, CheckpointIsDelivered, EndIsExact, Reached, ReadTypeOK, Fail
  <1>4. EventsAllowed'
    BY ReadAssumption DEF EventsAllowed, ReadTypeOK, Fail
  <1> QED BY <1>1, <1>2, <1>3, <1>4

LEMMA CollectInv ==
  ASSUME ReadInv, Collect
  PROVE  ReadInv'
  <1> USE DEF ReadInv, Collect, server, session, state, page, events, output
  <1>1. ReadTypeOK'
    BY EmptySeq DEF ReadTypeOK, Phases
  <1>2. (GivenAt /\ PartsFollow /\ EventsFollow /\ RequestFollows /\ HttpHasPage)'
    BY EmptySeq, LenProperties
       DEF GivenAt, PartsFollow, EventsFollow, RequestFollows, HttpHasPage, Reached, ReadTypeOK
  <1>3. (DecoderCovers /\ SavedIsDelivered /\ CheckpointIsDelivered /\ EndIsExact)'
    BY EmptySeq, LenProperties
       DEF DecoderCovers, SavedIsDelivered, CheckpointIsDelivered, EndIsExact, Reached, ReadTypeOK
  <1>4. EventsAllowed'
    BY ReadAssumption DEF EventsAllowed, ReadTypeOK
  <1> QED BY <1>1, <1>2, <1>3, <1>4

LEMMA BodyFailsInv ==
  ASSUME ReadInv, BodyFails
  PROVE  ReadInv'
  <1> USE DEF ReadInv, BodyFails, server, session, state, page, events, output
  <1>1. ReadTypeOK'
    BY EmptySeq DEF ReadTypeOK, Phases, Fail
  <1>2. (GivenAt /\ PartsFollow /\ EventsFollow /\ RequestFollows /\ HttpHasPage)'
    BY EmptySeq, LenProperties
       DEF GivenAt, PartsFollow, EventsFollow, RequestFollows, HttpHasPage, Reached, ReadTypeOK, Fail
  <1>3. (DecoderCovers /\ SavedIsDelivered /\ CheckpointIsDelivered /\ EndIsExact)'
    BY EmptySeq, LenProperties
       DEF DecoderCovers, SavedIsDelivered, CheckpointIsDelivered, EndIsExact, Reached, ReadTypeOK, Fail
  <1>4. EventsAllowed'
    BY ReadAssumption DEF EventsAllowed, ReadTypeOK, Fail
  <1> QED BY <1>1, <1>2, <1>3, <1>4

LEMMA DecodeFailsInv ==
  ASSUME ReadInv, DecodeFails
  PROVE  ReadInv'
  <1> USE DEF ReadInv, DecodeFails, server, session, state, page, events, output
  <1>1. ReadTypeOK'
    BY EmptySeq DEF ReadTypeOK, Phases, Fail, Emitting
  <1>2. (GivenAt /\ PartsFollow /\ EventsFollow /\ RequestFollows /\ HttpHasPage)'
    BY EmptySeq, LenProperties
       DEF GivenAt, PartsFollow, EventsFollow, RequestFollows, HttpHasPage, Reached, ReadTypeOK, Fail, Emitting
  <1>3. (DecoderCovers /\ SavedIsDelivered /\ CheckpointIsDelivered /\ EndIsExact)'
    BY EmptySeq, LenProperties
       DEF DecoderCovers, SavedIsDelivered, CheckpointIsDelivered, EndIsExact, Reached, ReadTypeOK, Fail, Emitting
  <1>4. EventsAllowed'
    BY ReadAssumption DEF EventsAllowed, ReadTypeOK, Fail, Emitting
  <1> QED BY <1>1, <1>2, <1>3, <1>4

LEMMA TruncatedInv ==
  ASSUME ReadInv, Truncated
  PROVE  ReadInv'
  <1> USE DEF ReadInv, Truncated, server, session, state, page, events, output
  <1>1. ReadTypeOK'
    BY EmptySeq DEF ReadTypeOK, Phases, Fail, EndOfPart
  <1>2. (GivenAt /\ PartsFollow /\ EventsFollow /\ RequestFollows /\ HttpHasPage)'
    BY EmptySeq, LenProperties
       DEF GivenAt, PartsFollow, EventsFollow, RequestFollows, HttpHasPage, Reached, ReadTypeOK, Fail, EndOfPart
  <1>3. (DecoderCovers /\ SavedIsDelivered /\ CheckpointIsDelivered /\ EndIsExact)'
    BY EmptySeq, LenProperties
       DEF DecoderCovers, SavedIsDelivered, CheckpointIsDelivered, EndIsExact, Reached, ReadTypeOK, Fail, EndOfPart
  <1>4. EventsAllowed'
    BY ReadAssumption DEF EventsAllowed, ReadTypeOK, Fail, EndOfPart
  <1> QED BY <1>1, <1>2, <1>3, <1>4

LEMMA ReconnectInv ==
  ASSUME ReadInv, Reconnect
  PROVE  ReadInv'
  <1> USE DEF ReadInv, Reconnect, server, session, state, page, events, output
  <1>1. ReadTypeOK'
    BY EmptySeq DEF ReadTypeOK, Phases
  <1>2. (GivenAt /\ PartsFollow /\ EventsFollow /\ RequestFollows /\ HttpHasPage)'
    BY EmptySeq, LenProperties
       DEF GivenAt, PartsFollow, EventsFollow, RequestFollows, HttpHasPage, Reached, ReadTypeOK
  <1>3. (DecoderCovers /\ SavedIsDelivered /\ CheckpointIsDelivered /\ EndIsExact)'
    BY EmptySeq, LenProperties
       DEF DecoderCovers, SavedIsDelivered, CheckpointIsDelivered, EndIsExact, Reached, ReadTypeOK
  <1>4. EventsAllowed'
    BY ReadAssumption DEF EventsAllowed, ReadTypeOK
  <1> QED BY <1>1, <1>2, <1>3, <1>4

LEMMA BeginEventsInv ==
  ASSUME ReadInv, BeginEvents
  PROVE  ReadInv'
  <1> USE DEF ReadInv, BeginEvents, server, session, state, page, events, output
  <1>1. ReadTypeOK'
    BY EmptySeq DEF ReadTypeOK, Phases, NoBoundary, StartPending
  <1>0. Len(<<>>) = 0 /\ Len(given) \in Nat
    BY LenProperties DEF ReadTypeOK
  <1>2. (GivenAt /\ PartsFollow /\ EventsFollow /\ RequestFollows /\ HttpHasPage)'
    BY <1>0 DEF GivenAt, PartsFollow, EventsFollow, RequestFollows, HttpHasPage, Reached, ReadTypeOK,
               DecoderCovers, StartPending
  <1>3. (DecoderCovers /\ SavedIsDelivered /\ CheckpointIsDelivered /\ EndIsExact)'
    BY EmptySeq, LenProperties
       DEF DecoderCovers, SavedIsDelivered, CheckpointIsDelivered, EndIsExact, Reached, ReadTypeOK, NoBoundary, StartPending
  <1>4. EventsAllowed'
    BY ReadAssumption DEF EventsAllowed, ReadTypeOK, NoBoundary, StartPending
  <1> QED BY <1>1, <1>2, <1>3, <1>4

LEMMA EventsEndInv ==
  ASSUME ReadInv, NEW short \in BOOLEAN, EventsEnd(short)
  PROVE  ReadInv'
  <1> USE DEF ReadInv
  <1>1. /\ phase = "sse" /\ boundary = NoBoundary
        /\ UNCHANGED <<server, session, failure, checkpoint, position, page, events, output>>
    BY DEF EventsEnd
  <1>2. shorts' \in Nat /\ longDrops' \in Nat
    BY DEF EventsEnd, ShortCount, ReadTypeOK
  <1>3. \/ fallback' = TRUE /\ sse' = FALSE /\ longPoll' = TRUE /\ phase' = "page"
        \/ /\ phase' \in {"delay", "page"} /\ shorts' < MaxShort
           /\ UNCHANGED <<fallback, sse, longPoll>>
    BY <1>2, ReadAssumption DEF EventsEnd
  <1> USE DEF server, session, page, events, output
  <1>4. ReadTypeOK'
    <2>1. phase' \in Phases /\ fallback' \in BOOLEAN /\ sse' \in BOOLEAN /\ longPoll' \in BOOLEAN
      BY <1>3 DEF ReadTypeOK, Phases
    <2> QED BY <1>1, <1>2, <2>1 DEF ReadTypeOK
  <1>5. (GivenAt /\ PartsFollow /\ EventsFollow /\ RequestFollows /\ HttpHasPage)'
    <2>1. initial = NoBoundary
      BY <1>1 DEF HttpHasPage
    <2> QED
      BY <1>1, <1>3, <2>1
         DEF GivenAt, PartsFollow, EventsFollow, RequestFollows, HttpHasPage, Reached
  <1>6. (DecoderCovers /\ SavedIsDelivered /\ CheckpointIsDelivered /\ EndIsExact)'
    BY <1>1, <1>3 DEF DecoderCovers, SavedIsDelivered, CheckpointIsDelivered, EndIsExact, Reached
  <1>7. EventsAllowed'
    BY <1>1, <1>3, <1>4 DEF EventsAllowed, ReadTypeOK
  <1> QED BY <1>4, <1>5, <1>6, <1>7

LEMMA AcquireInitialInv ==
  ASSUME ReadInv, AcquireInitial
  PROVE  ReadInv'
  <1> USE DEF ReadInv, AcquireInitial, server, session, state, events, output
  <1>1. position \in Nat /\ position <= Len(log)
    BY DEF ReadTypeOK, RequestFollows, DecoderCovers
  <1>2. initial' \in Boundaries /\ initial'.to >= position /\ initial'.to <= Len(log)
    BY <1>1, ReplyTo DEF ReadTypeOK
  <1>3. ReadTypeOK'
    BY <1>2 DEF ReadTypeOK
  <1>4. (GivenAt /\ PartsFollow /\ EventsFollow /\ RequestFollows /\ HttpHasPage)'
    BY <1>2 DEF GivenAt, PartsFollow, EventsFollow, RequestFollows, HttpHasPage, Reached
  <1>5. (DecoderCovers /\ SavedIsDelivered /\ CheckpointIsDelivered /\ EndIsExact)'
    BY DEF DecoderCovers, SavedIsDelivered, CheckpointIsDelivered, EndIsExact, Reached
  <1>6. EventsAllowed'
    BY DEF EventsAllowed
  <1> QED BY <1>3, <1>4, <1>5, <1>6

LEMMA BeginPageInv ==
  ASSUME ReadInv, BeginPage
  PROVE  ReadInv'
  <1> USE DEF ReadInv, BeginPage, server, session, state, events, output
  <1>1. position \in Nat /\ position = Reached /\ position <= Len(log) /\ Len(log) \in Nat
    BY LenProperties DEF ReadTypeOK, RequestFollows, DecoderCovers
  <1>2. /\ boundary' \in Boundaries /\ boundary' # NoBoundary
        /\ boundary'.to >= position /\ boundary'.to <= Len(log)
    BY <1>1, ReplyTo DEF ReadTypeOK, RequestFollows
  <1>3. boundary'.to \in Nat /\ boundary'.to - position \in Nat
    BY <1>1, <1>2 DEF Boundaries
  <1>4. /\ parts' \in Seq(Nat) /\ Len(parts') = boundary'.to - position
        /\ \A k \in 1..Len(parts') : parts'[k] = position + k
    BY <1>1, <1>3, Interval
  <1>5. ReadTypeOK'
    BY <1>2, <1>4 DEF ReadTypeOK, Phases
  <1>6. PartsFollow'
    BY <1>1, <1>2, <1>3, <1>4 DEF PartsFollow, Reached
  <1>7. (GivenAt /\ EventsFollow /\ RequestFollows /\ HttpHasPage)'
    BY <1>2 DEF GivenAt, EventsFollow, RequestFollows, HttpHasPage, Reached
  <1>8. (DecoderCovers /\ SavedIsDelivered /\ CheckpointIsDelivered /\ EndIsExact)'
    BY DEF DecoderCovers, SavedIsDelivered, CheckpointIsDelivered, EndIsExact, Reached
  <1>9. EventsAllowed'
    BY DEF EventsAllowed
  <1> QED BY <1>5, <1>6, <1>7, <1>8, <1>9

\* The next unit is the one behind what was given.
LEMMA NextPart ==
  ASSUME ReadInv, Emitting
  PROVE  /\ parts \in Seq(Nat) /\ Len(parts) \in Nat \ {0} /\ Len(given) \in Nat
         /\ Head(parts) = Reached + 1 /\ Head(parts) \in 1..Len(log)
         /\ Reached + Len(parts) <= Len(log)
  <1>1. /\ parts \in Seq(Nat) /\ parts # <<>> /\ Len(parts) \in Nat \ {0} /\ Len(given) \in Nat
        /\ start \in Nat /\ Len(log) \in Nat
    BY EmptySeq, LenProperties DEF ReadInv, ReadTypeOK, Emitting
  <1>2. Head(parts) = parts[1]
    OBVIOUS
  <1>3. parts[1] = Reached + 1 /\ Reached + Len(parts) <= Len(log)
    BY <1>1 DEF ReadInv, PartsFollow, Emitting, ReadTypeOK, Boundaries
  <1> QED BY <1>1, <1>2, <1>3 DEF Reached

LEMMA UnitsAreNat == \A u \in Widths \cup {0} : u \in Nat
  <1>1. \A u \in Widths : u \in Nat
    BY ReadAssumption
  <1> QED BY <1>1

LEMMA UnitIsNat ==
  ASSUME ReadTypeOK, NEW i \in 1..Len(log)
  PROVE  log[i] \in Nat
  <1>1. log[i] \in Widths \cup {0}
    BY ElementOfSeq DEF ReadTypeOK
  <1> QED BY <1>1, UnitsAreNat

LEMMA StillNeeded ==
  ASSUME ReadTypeOK, NEW u \in Nat, Decodable(u)
  PROVE  NeededAfter(u) \in Nat
  BY DEF Decodable, NeededAfter, ReadTypeOK

LEMMA EmitInv ==
  ASSUME ReadInv, Emit
  PROVE  ReadInv'
  <1> USE DEF ReadInv, Emit
  <1>1. Emitting
    OBVIOUS
  <1>2. /\ parts \in Seq(Nat) /\ Len(parts) \in Nat \ {0} /\ Len(given) \in Nat
        /\ Head(parts) = Reached + 1 /\ Head(parts) \in 1..Len(log)
        /\ Reached + Len(parts) <= Len(log)
    BY <1>1, NextPart
  <1>3. /\ parts' \in Seq(Nat) /\ Len(parts') = Len(parts) - 1
        /\ \A k \in 1..Len(parts') : parts'[k] = parts[k + 1]
    BY <1>2, EmptySeq, HeadTailProperties
  <1>4. /\ given' \in Seq(Nat) /\ Len(given') = Len(given) + 1
        /\ given'[Len(given) + 1] = Head(parts) /\ \A k \in 1..Len(given) : given'[k] = given[k]
    BY <1>2, AppendProperties DEF ReadTypeOK
  <1>5. Reached' = Reached + 1 /\ Reached \in Nat
    BY <1>2, <1>4 DEF Reached, session, ReadTypeOK
  <1>6. needed' \in Nat
    <2>1. log[Head(parts)] \in Nat
      BY <1>2, UnitIsNat
    <2>2. CASE mode.view = "text"
      BY <2>1, <2>2, StillNeeded
    <2>3. CASE mode.view # "text"
      BY <2>3
    <2> QED BY <2>2, <2>3
  <1>7. at' \in Nat /\ at' >= at /\ at' <= Reached' /\ (needed' = 0 => at' = Reached')
    BY <1>2, <1>5, <1>6 DEF ReadTypeOK, DecoderCovers
  <1> USE DEF server, session, state, events
  <1>8. ReadTypeOK'
    BY <1>3, <1>4, <1>6, <1>7 DEF ReadTypeOK
  <1>9. GivenAt'
    <2> SUFFICES ASSUME NEW k \in 1..Len(given') PROVE given'[k] = start + k
      BY DEF GivenAt
    <2>1. CASE k \in 1..Len(given)
      BY <2>1, <1>4 DEF GivenAt
    <2>2. CASE k = Len(given) + 1
      BY <2>2, <1>2, <1>4 DEF Reached, ReadTypeOK
    <2> QED BY <2>1, <2>2, <1>2, <1>4
  <1>10. PartsFollow'
    BY <1>2, <1>3, <1>4, <1>5 DEF PartsFollow, ReadTypeOK, Boundaries, Emitting
  <1>11. (EventsFollow /\ RequestFollows /\ HttpHasPage)'
    BY DEF EventsFollow, RequestFollows, HttpHasPage, Emitting
  <1>12. DecoderCovers'
    BY <1>2, <1>5, <1>6, <1>7 DEF DecoderCovers, ReadTypeOK
  <1>13. (SavedIsDelivered /\ CheckpointIsDelivered /\ EndIsExact)'
    BY <1>7 DEF SavedIsDelivered, CheckpointIsDelivered, EndIsExact, ReadTypeOK, Emitting
  <1>14. EventsAllowed'
    BY DEF EventsAllowed
  <1> QED BY <1>8, <1>9, <1>10, <1>11, <1>12, <1>13, <1>14

LEMMA EmitBatchInv ==
  ASSUME ReadInv, EmitBatch
  PROVE  ReadInv'
  <1> USE DEF ReadInv, EmitBatch
  <1>1. Emitting
    OBVIOUS
  <1>2. /\ parts \in Seq(Nat) /\ Len(parts) \in Nat \ {0} /\ Len(given) \in Nat
        /\ Reached + Len(parts) <= Len(log) /\ given \in Seq(Nat)
    BY <1>1, NextPart DEF ReadTypeOK
  <1>3. /\ given' \in Seq(Nat) /\ Len(given') = Len(given) + Len(parts)
        /\ \A k \in 1..Len(given') :
             given'[k] = IF k <= Len(given) THEN given[k] ELSE parts[k - Len(given)]
    BY <1>2, ConcatProperties
  <1>4. \A k \in 1..Len(parts) : parts[k] = Reached + k
    BY <1>1 DEF PartsFollow, Emitting
  <1>5. Reached' = Reached + Len(parts) /\ Reached \in Nat
    BY <1>2, <1>3 DEF Reached, session, ReadTypeOK
  <1>6. at' = Reached' /\ at' >= at /\ at' \in Nat
    BY <1>2, <1>4, <1>5 DEF DecoderCovers, ReadTypeOK
  <1>7. <<>> \in Seq(Nat) /\ Len(<<>>) = 0
    BY EmptySeq
  <1> USE DEF server, session, state, events
  <1>8. ReadTypeOK'
    BY <1>3, <1>6, <1>7 DEF ReadTypeOK
  <1>9. GivenAt'
    <2> SUFFICES ASSUME NEW k \in 1..Len(given') PROVE given'[k] = start + k
      BY DEF GivenAt
    <2>1. CASE k <= Len(given)
      BY <2>1, <1>2, <1>3 DEF GivenAt
    <2>2. CASE k > Len(given)
      <3>1. k - Len(given) \in 1..Len(parts)
        BY <2>2, <1>2, <1>3
      <3>2. given'[k] = Reached + (k - Len(given))
        BY <3>1, <2>2, <1>2, <1>3, <1>4
      <3> QED BY <3>1, <3>2, <1>2 DEF Reached, ReadTypeOK
    <2> QED BY <2>1, <2>2, <1>2, <1>3
  <1>10. PartsFollow'
    BY <1>2, <1>5, <1>7 DEF PartsFollow, Emitting, ReadTypeOK, Boundaries
  <1>11. (EventsFollow /\ RequestFollows /\ HttpHasPage)'
    BY DEF EventsFollow, RequestFollows, HttpHasPage, Emitting
  <1>12. DecoderCovers'
    BY <1>2, <1>5, <1>6 DEF DecoderCovers, ReadTypeOK
  <1>13. (SavedIsDelivered /\ CheckpointIsDelivered /\ EndIsExact)'
    BY <1>6 DEF SavedIsDelivered, CheckpointIsDelivered, EndIsExact, ReadTypeOK, Emitting
  <1>14. EventsAllowed'
    BY DEF EventsAllowed
  <1> QED BY <1>8, <1>9, <1>10, <1>11, <1>12, <1>13, <1>14

\* At the end of a page all of it was given, and the offset says so.
LEMMA Committed ==
  ASSUME ReadInv, phase \in {"http", "sse"}, EndOfPart, CommitOffset,
         UNCHANGED <<start, given, at, saved>>
  PROVE  /\ position' = Reached /\ Reached \in Nat /\ Reached <= Len(log)
         /\ (SavedIsDelivered /\ CheckpointIsDelivered)' /\ checkpoint' \in Nat \cup {None}
         /\ Complete => checkpoint' = at /\ at = Reached
         /\ phase = "sse" => pending = <<>> /\ served = Reached
  <1> USE DEF ReadInv, EndOfPart, CommitOffset
  <1>1. Len(given) \in Nat /\ Len(parts) = 0
    BY LenProperties, EmptySeq DEF ReadTypeOK
  <1>2. boundary.to = Reached /\ Reached \in Nat /\ Reached <= Len(log)
    BY <1>1 DEF PartsFollow, ReadTypeOK, Reached
  <1>3. Complete => at = Reached
    BY DEF Complete, DecoderCovers
  <1>4. CASE Complete
    <2>1. checkpoint' = at /\ at \in Nat /\ saved <= at /\ start <= at
      BY <1>2, <1>3, <1>4 DEF NextOffset, SavedIsDelivered, DecoderCovers, ReadTypeOK
    <2> QED BY <1>2, <1>3, <2>1
            DEF SavedIsDelivered, CheckpointIsDelivered, ReadTypeOK, PartsFollow
  <1>5. CASE ~Complete
    BY <1>2, <1>5 DEF SavedIsDelivered, CheckpointIsDelivered, ReadTypeOK, PartsFollow
  <1> QED BY <1>4, <1>5

LEMMA EndPageInv ==
  ASSUME ReadInv, EndPage
  PROVE  ReadInv'
  <1> USE DEF ReadInv, EndPage, server, session, events, output
  <1>1. /\ position' = Reached /\ Reached \in Nat /\ Reached <= Len(log)
        /\ (SavedIsDelivered /\ CheckpointIsDelivered)' /\ checkpoint' \in Nat \cup {None}
        /\ Complete => checkpoint' = at /\ at = Reached
    BY Committed
  <1>2. sse' \in BOOLEAN /\ longPoll' \in BOOLEAN /\ phase' \in {"done", "page"}
    BY DEF FollowEvents
  <1>3. ReadTypeOK'
    BY <1>1, <1>2 DEF ReadTypeOK, Phases
  <1>4. (GivenAt /\ PartsFollow /\ EventsFollow /\ RequestFollows /\ HttpHasPage)'
    BY <1>1, <1>2 DEF GivenAt, PartsFollow, EventsFollow, RequestFollows, HttpHasPage, Reached
  <1>5. DecoderCovers'
    BY DEF DecoderCovers, Reached
  <1>6. EndIsExact'
    BY <1>1 DEF EndIsExact, Reached
  <1>7. EventsAllowed'
    BY <1>2, <1>3 DEF EventsAllowed, FollowEvents, ReadTypeOK
  <1> QED BY <1>1, <1>3, <1>4, <1>5, <1>6, <1>7

LEMMA EndControlInv ==
  ASSUME ReadInv, EndControl
  PROVE  ReadInv'
  <1> USE DEF ReadInv, EndControl, server, session, events, output
  <1>1. /\ position' = Reached /\ Reached \in Nat /\ Reached <= Len(log)
        /\ (SavedIsDelivered /\ CheckpointIsDelivered)' /\ checkpoint' \in Nat \cup {None}
        /\ Complete => checkpoint' = at /\ at = Reached
        /\ pending = <<>> /\ served = Reached
    BY Committed
  <1>2. phase' \in {"done", "sse"} /\ parts = <<>> /\ Len(<<>>) = 0
    BY EmptySeq DEF EndOfPart
  <1>3. ReadTypeOK'
    BY <1>1, <1>2 DEF ReadTypeOK, Phases
  <1>4. (GivenAt /\ PartsFollow /\ RequestFollows /\ HttpHasPage)'
    BY <1>1, <1>2 DEF GivenAt, PartsFollow, RequestFollows, HttpHasPage, Reached
  <1>5. EventsFollow'
    BY <1>1, <1>2 DEF EventsFollow, Reached
  <1>6. DecoderCovers'
    BY DEF DecoderCovers, Reached
  <1>7. EndIsExact'
    BY <1>1 DEF EndIsExact, Reached
  <1>8. EventsAllowed'
    BY <1>2 DEF EventsAllowed
  <1> QED BY <1>1, <1>3, <1>4, <1>5, <1>6, <1>7, <1>8

LEMMA DataEventInv ==
  ASSUME ReadInv, DataEvent
  PROVE  ReadInv'
  <1> USE DEF ReadInv, DataEvent, server, session, state, page, output
  <1>1. /\ pending \in Seq(Nat) /\ Len(pending) \in Nat /\ served + 1 \in Nat
        /\ served = Reached + Len(pending) /\ Reached \in Nat /\ Len(log) \in Nat
    BY LenProperties DEF ReadTypeOK, EventsFollow, Reached
  <1>2. /\ pending' \in Seq(Nat) /\ Len(pending') = Len(pending) + 1
        /\ pending'[Len(pending) + 1] = served + 1
        /\ \A k \in 1..Len(pending) : pending'[k] = pending[k]
    BY <1>1, AppendProperties
  <1>3. ReadTypeOK'
    BY <1>1, <1>2 DEF ReadTypeOK
  <1>4. EventsFollow'
    <2>1. \A k \in 1..Len(pending') : pending'[k] = Reached + k
      <3> SUFFICES ASSUME NEW k \in 1..Len(pending') PROVE pending'[k] = Reached + k
        OBVIOUS
      <3>1. CASE k \in 1..Len(pending)
        BY <3>1, <1>2 DEF EventsFollow
      <3>2. CASE k = Len(pending) + 1
        BY <3>2, <1>1, <1>2
      <3> QED BY <3>1, <3>2, <1>1, <1>2
    <2>2. Reached' = Reached
      BY DEF Reached
    <2> QED BY <1>1, <1>2, <2>1, <2>2 DEF EventsFollow, ReadTypeOK
  <1>5. (GivenAt /\ PartsFollow /\ RequestFollows /\ HttpHasPage)'
    BY DEF GivenAt, PartsFollow, RequestFollows, HttpHasPage, Reached
  <1>6. (DecoderCovers /\ SavedIsDelivered /\ CheckpointIsDelivered /\ EndIsExact)'
    BY DEF DecoderCovers, SavedIsDelivered, CheckpointIsDelivered, EndIsExact, Reached
  <1>7. EventsAllowed'
    BY DEF EventsAllowed
  <1> QED BY <1>3, <1>4, <1>5, <1>6, <1>7

LEMMA ControlEventInv ==
  ASSUME ReadInv, ControlEvent
  PROVE  ReadInv'
  <1> USE DEF ReadInv, ControlEvent, server, session, state, output
  <1>1. boundary' \in Boundaries /\ boundary' # NoBoundary /\ boundary'.to = served
    BY DEF BoundaryAt, Boundaries, NoBoundary, None, ReadTypeOK
  <1>2. <<>> \in Seq(Nat)
    BY EmptySeq
  <1>3. ReadTypeOK'
    BY <1>1, <1>2 DEF ReadTypeOK
  <1>4. PartsFollow'
    BY <1>1 DEF PartsFollow, EventsFollow, Reached
  <1>5. (GivenAt /\ EventsFollow /\ RequestFollows /\ HttpHasPage)'
    BY <1>1 DEF GivenAt, EventsFollow, RequestFollows, HttpHasPage, Reached
  <1>6. (DecoderCovers /\ SavedIsDelivered /\ CheckpointIsDelivered /\ EndIsExact)'
    BY DEF DecoderCovers, SavedIsDelivered, CheckpointIsDelivered, EndIsExact, Reached
  <1>7. EventsAllowed'
    BY DEF EventsAllowed
  <1> QED BY <1>3, <1>4, <1>5, <1>6, <1>7

LEMMA StutterInv ==
  ASSUME ReadInv, UNCHANGED vars
  PROVE  ReadInv'
  <1> USE DEF ReadInv, vars, server, session, state, page, events, output
  <1>1. ReadTypeOK'
    BY DEF ReadTypeOK
  <1>2. (GivenAt /\ PartsFollow /\ EventsFollow /\ RequestFollows /\ HttpHasPage)'
    BY DEF GivenAt, PartsFollow, EventsFollow, RequestFollows, HttpHasPage, Reached
  <1>3. (DecoderCovers /\ SavedIsDelivered /\ CheckpointIsDelivered /\ EndIsExact)'
    BY DEF DecoderCovers, SavedIsDelivered, CheckpointIsDelivered, EndIsExact, Reached
  <1>4. EventsAllowed'
    BY DEF EventsAllowed
  <1> QED BY <1>1, <1>2, <1>3, <1>4

\* Each action in turn keeps the invariant.
LEMMA NextInv ==
  ASSUME ReadInv, [Next]_vars
  PROVE  ReadInv'
  <1>1. CASE UNCHANGED vars
    BY <1>1, StutterInv
  <1>2. CASE Environment
    BY <1>2, Append1Inv, CloseStreamInv DEF Environment
  <1>3. CASE Application
    BY <1>3, OpenInv, ConsumeInv, SaveOffsetInv, StopInv DEF Application
  <1>4. CASE Faults
    BY <1>4, RequestRetriedInv, RequestFailsInv, ProtocolViolationInv, BodyFailsInv, EventsEndInv
       DEF Faults
  <1>5. CASE Handing
    BY <1>5, CollectInv, EmitInv, EmitBatchInv, DecodeFailsInv, TruncatedInv, EndPageInv,
       EndControlInv DEF Handing
  <1>6. CASE Connecting
    BY <1>6, AcquireInitialInv, BeginPageInv, BeginEventsInv, ReconnectInv DEF Connecting
  <1>7. CASE DataEvent
    BY <1>7, DataEventInv
  <1>8. CASE ControlEvent
    BY <1>8, ControlEventInv
  <1> QED BY <1>1, <1>2, <1>3, <1>4, <1>5, <1>6, <1>7, <1>8 DEF Next

LEMMA InvHolds == Spec => []ReadInv
  <1>1. Init => ReadInv
    BY InitInv
  <1>2. ReadInv /\ [Next]_vars => ReadInv'
    BY NextInv
  <1> QED BY <1>1, <1>2, PTL DEF Spec
-----------------------------------------------------------------------------
(* What follows from the invariant. *)

(* The variables of a session have their types (ReadTypeOK), whatever is   *)
(* read and however often connections are lost.                            *)
THEOREM ReadTypeCorrect == Spec => []ReadTypeOK
  <1>1. ReadInv => ReadTypeOK
    BY DEF ReadInv
  <1> QED BY <1>1, InvHolds, PTL

(* A session hands over the log from its start on, every unit once and in  *)
(* order, over pages, events, reconnects and the fallback.                 *)
THEOREM InOrder == Spec => []DeliveredInOrder
  <1>1. ReadInv => DeliveredInOrder
    <2> SUFFICES ASSUME ReadInv PROVE DeliveredInOrder
      OBVIOUS
    <2>1. given \in Seq(Nat) /\ Len(given) \in Nat /\ start \in Nat
      BY LenProperties DEF ReadInv, ReadTypeOK
    <2>2. given \in [1..Len(given) -> Nat] /\ \A k \in 1..Len(given) : given[k] = start + k
      BY <2>1, LenProperties DEF ReadInv, GivenAt
    <2> QED BY <2>2 DEF DeliveredInOrder
  <1> QED BY <1>1, InvHolds, PTL

(* The offset a session reports covers no value its consumer lacks, and is *)
(* not behind the session's start.                                         *)
THEOREM CheckpointSafe == Spec => []CheckpointIsDelivered
  <1>1. ReadInv => CheckpointIsDelivered
    BY DEF ReadInv
  <1> QED BY <1>1, InvHolds, PTL

(* The offset of a session that ran to its end covers all it handed over.  *)
THEOREM ExactEnd == Spec => []EndIsExact
  <1>1. ReadInv => EndIsExact
    BY DEF ReadInv
  <1> QED BY <1>1, InvHolds, PTL

\* Within a session fallback stays, and only BeginEvents opens a connection.
LEMMA WithinSession ==
  ASSUME ReadTypeOK, Next, sessions' = sessions
  PROVE  /\ fallback => fallback'
         /\ phase # "sse" /\ phase' = "sse" => BeginEvents
  <1> USE DEF state
  <1>1. CASE Environment
    BY <1>1 DEF Environment, Append1, CloseStream
  <1>2. CASE Application
    <2>1. sessions \in Nat
      BY DEF ReadTypeOK
    <2>2. ~Open
      BY <2>1 DEF Open
    <2> QED BY <1>2, <2>2 DEF Application, Consume, SaveOffset, Stop
  <1>3. CASE Faults
    <2>1. CASE RequestRetried \/ RequestFails \/ ProtocolViolation \/ BodyFails
      BY <2>1 DEF RequestRetried, RequestFails, ProtocolViolation, BodyFails, Fail
    <2>2. ASSUME NEW short \in BOOLEAN, EventsEnd(short)
          PROVE  (fallback => fallback') /\ phase = "sse"
      BY <2>2 DEF EventsEnd
    <2> QED BY <1>3, <2>1, <2>2 DEF Faults
  <1>4. CASE Handing
    <2>1. CASE Collect \/ Emit \/ EmitBatch
      BY <2>1 DEF Collect, Emit, EmitBatch
    <2>2. CASE DecodeFails \/ Truncated
      BY <2>2 DEF DecodeFails, Truncated, Fail
    <2>3. CASE EndPage \/ EndControl
      BY <2>3 DEF EndPage, EndControl
    <2> QED BY <1>4, <2>1, <2>2, <2>3 DEF Handing
  <1>5. CASE Connecting
    BY <1>5 DEF Connecting, AcquireInitial, BeginPage, BeginEvents, Reconnect
  <1>6. CASE DataEvent \/ ControlEvent
    BY <1>6 DEF DataEvent, ControlEvent
  <1> QED BY <1>1, <1>2, <1>3, <1>4, <1>5, <1>6 DEF Next

(* Once a session fell back to long-poll it opens no event connection, and *)
(* it opens one only while early ends are within the limit.                *)
THEOREM FallbackFinal == Spec => FallbackIsFinal
  <1>1. ReadInv /\ ReadInv' /\ [Next]_vars =>
          [sessions' = sessions =>
             /\ fallback => fallback' /\ phase' # "sse"
             /\ phase # "sse" /\ phase' = "sse" => shorts < MaxShort]_vars
    <2> SUFFICES ASSUME ReadInv, ReadInv', Next, sessions' = sessions
                 PROVE  /\ fallback => fallback' /\ phase' # "sse"
                        /\ phase # "sse" /\ phase' = "sse" => shorts < MaxShort
      OBVIOUS
    <2>1. /\ fallback => fallback'
          /\ phase # "sse" /\ phase' = "sse" => BeginEvents
      BY WithinSession DEF ReadInv
    <2>2. fallback => phase' # "sse"
      BY <2>1 DEF ReadInv, EventsAllowed
    <2>3. BeginEvents => shorts < MaxShort
      BY DEF BeginEvents, ReadInv, EventsAllowed
    <2> QED BY <2>1, <2>2, <2>3
  <1>2. ReadInv /\ [Next]_vars => ReadInv'
    BY NextInv
  <1> QED BY <1>1, <1>2, InvHolds, PTL DEF Spec, FallbackIsFinal
-----------------------------------------------------------------------------
(* Text views. *)

\* No character of the log starts inside another one.
CharsApart ==
  \A i, k \in 1..Len(log) : i < k /\ log[k] # 0 => i + log[i] <= k
\* No character of the log goes on after unit n.
Between(n) == \A j \in 1..n : j + log[j] <= n + 1
\* The decoder waits for the rest of the character that reaches beyond what
\* was given, and for nothing when none does.
DecoderInStep ==
  /\ needed = 0 => Between(Reached)
  /\ needed > 0 => \E j \in 1..Reached : j + log[j] = Reached + needed + 1
\* A session can only be started between two characters.
OffsetsBetween == Between(saved) /\ (checkpoint # None => Between(checkpoint))

TextInv ==
  /\ failure = "utf8" => mode.view = "text" /\ ~WellFormed
  /\ mode.view = "text" => CharsApart /\ DecoderInStep /\ OffsetsBetween

LEMMA TextTypes ==
  ASSUME ReadInv
  PROVE  /\ Len(log) \in Nat /\ Reached \in Nat /\ Reached <= Len(log) /\ needed \in Nat
         /\ saved \in Nat /\ saved <= Len(log) /\ checkpoint \in Nat \cup {None}
         /\ checkpoint # None => checkpoint <= Len(log)
         /\ \A i \in 1..Len(log) : log[i] \in Nat
  <1>1. /\ Len(log) \in Nat /\ Len(given) \in Nat /\ start \in Nat /\ needed \in Nat
        /\ saved \in Nat /\ checkpoint \in Nat \cup {None} /\ at \in Nat
    BY LenProperties DEF ReadInv, ReadTypeOK
  <1>2. \A i \in 1..Len(log) : log[i] \in Nat
    BY UnitIsNat DEF ReadInv
  <1> QED
    BY <1>1, <1>2 DEF ReadInv, Reached, DecoderCovers, SavedIsDelivered, CheckpointIsDelivered, None

LEMMA AppendText ==
  ASSUME ReadInv, TextInv, NEW u \in Widths \cup {0}, Append1(u)
  PROVE  TextInv'
  <1> DEFINE n == Len(log)
  <1>1. /\ Len(log') = n + 1 /\ log'[n + 1] = u /\ (\A i \in 1..n : log'[i] = log[i])
        /\ UNCHANGED <<failure, mode, needed, Reached, saved, checkpoint>>
    BY AppendProperties
       DEF Append1, ReadInv, ReadTypeOK, session, state, page, events, output, Reached
  <1>2. /\ n \in Nat /\ Reached \in Nat /\ Reached <= n /\ needed \in Nat /\ saved \in Nat
        /\ saved <= n /\ checkpoint \in Nat \cup {None} /\ (checkpoint # None => checkpoint <= n)
        /\ (\A i \in 1..n : log[i] \in Nat)
    BY TextTypes
  <1>3. failure' = "utf8" => (mode'.view = "text" /\ ~WellFormed')
    <2> SUFFICES ASSUME failure' = "utf8" PROVE mode'.view = "text" /\ ~WellFormed'
      OBVIOUS
    <2>1. mode.view = "text" /\ ~WellFormed
      BY <1>1 DEF TextInv
    <2>2. PICK i \in 1..n : log[i] = 0 /\ \A j \in 1..i - 1 : ~(i < j + log[j])
      BY <2>1 DEF WellFormed
    <2>3. /\ i \in 1..Len(log') /\ log'[i] = 0
          /\ \A j \in 1..i - 1 : j \in 1..n /\ log'[j] = log[j]
      BY <1>1, <1>2, <2>2
    <2>4. ~WellFormed'
      BY <2>2, <2>3 DEF WellFormed
    <2> QED
      BY <1>1, <2>1, <2>4
  <1>4. CASE mode.view = "text"
    <2>1. CharsApart /\ DecoderInStep /\ OffsetsBetween
      BY <1>4 DEF TextInv
    <2>2. u # 0 => \A i \in 1..n : i + log[i] <= n + 1
      <3> SUFFICES ASSUME u # 0, NEW i \in 1..n, ~(i + log[i] <= n + 1)
                   PROVE  FALSE
        OBVIOUS
      <3> DEFINE P(j) == j + log[j] - 1 > n
                 c == CHOOSE j \in 1..n : P(j)
      <3>1. log[i] \in Nat /\ i \in Nat
        BY <1>2
      <3>2. P(i)
        BY <1>2, <3>1
      <3>3. c \in 1..n /\ P(c)
        BY <3>2
      <3>4. Lacking = c + log[c] - 1 - n
        BY <3>2 DEF Lacking
      <3>5. Lacking > 0
        <4>1. log[c] \in Nat /\ c \in Nat /\ c + log[c] - 1 > n
          BY <1>2, <3>3
        <4> HIDE DEF c
        <4> QED
          BY <1>2, <3>4, <4>1
      <3> QED
        BY <1>4, <3>5 DEF Append1
    <2>3. CharsApart'
      <3> SUFFICES ASSUME NEW i \in 1..(n + 1), NEW k \in 1..(n + 1), i < k, log'[k] # 0
                   PROVE  i + log'[i] <= k
        BY <1>1 DEF CharsApart
      <3>1. i \in 1..n /\ log'[i] = log[i]
        BY <1>1, <1>2
      <3>2. CASE k = n + 1
        BY <1>1, <2>2, <3>1, <3>2
      <3>3. CASE k \in 1..n
        BY <1>1, <2>1, <3>1, <3>3 DEF CharsApart
      <3> QED
        BY <1>2, <3>2, <3>3
    <2>4. \A m \in Nat : m <= n /\ Between(m) => Between(m)'
      <3> SUFFICES ASSUME NEW m \in Nat, m <= n, Between(m), NEW j \in 1..m
                   PROVE  j + log'[j] <= m + 1
        BY DEF Between
      <3>1. j \in 1..n /\ j + log[j] <= m + 1
        BY <1>2 DEF Between
      <3> QED
        BY <1>1, <3>1
    <2>5. DecoderInStep'
      <3>1. ASSUME needed > 0
            PROVE  \E j \in 1..Reached : j + log'[j] = Reached + needed + 1
        <4>1. PICK j \in 1..Reached : j + log[j] = Reached + needed + 1
          BY <2>1, <3>1 DEF DecoderInStep
        <4>2. log'[j] = log[j]
          BY <1>1, <1>2
        <4> QED
          BY <4>1, <4>2
      <3>2. ASSUME needed = 0 PROVE \A j \in 1..Reached : j + log'[j] <= Reached + 1
        <4>1. Between(Reached)
          BY <2>1, <3>2 DEF DecoderInStep
        <4> QED
          BY <1>1, <1>2, <4>1 DEF Between
      <3> QED
        BY <1>1, <3>1, <3>2 DEF DecoderInStep, Between
    <2>6. OffsetsBetween'
      <3>1. Between(saved)' /\ (checkpoint # None => Between(checkpoint)')
        <4>1. \A j \in 1..saved : j + log'[j] <= saved + 1
          BY <1>1, <1>2, <2>1 DEF OffsetsBetween, Between
        <4>2. checkpoint # None => \A j \in 1..checkpoint : j + log'[j] <= checkpoint + 1
          BY <1>1, <1>2, <2>1 DEF OffsetsBetween, Between
        <4> QED
          BY <1>1, <4>1, <4>2 DEF Between
      <3> QED
        BY <1>1, <3>1 DEF OffsetsBetween
    <2> QED
      BY <1>3, <2>3, <2>5, <2>6 DEF TextInv
  <1> QED
    BY <1>1, <1>3, <1>4 DEF TextInv

LEMMA EmitText ==
  ASSUME ReadInv, TextInv, Emit \/ EmitBatch
  PROVE  TextInv'
  <1>1. UNCHANGED <<log, failure, mode, saved, checkpoint>>
    BY DEF Emit, EmitBatch, server, session
  <1>2. failure' = "utf8" => (mode'.view = "text" /\ ~WellFormed')
    BY <1>1 DEF TextInv, WellFormed
  <1>3. CASE mode.view # "text"
    BY <1>1, <1>2, <1>3 DEF TextInv
  <1>4. CASE mode.view = "text"
    <2>1. Emit /\ CharsApart /\ DecoderInStep /\ OffsetsBetween
      BY <1>4 DEF EmitBatch, TextInv
    <2> DEFINE i == Head(parts)
    <2>2. Emitting /\ i = Reached + 1 /\ i \in 1..Len(log)
      BY <2>1, NextPart DEF Emit
    <2>3. Reached' = Reached + 1
      <3>1. given' = Append(given, i) /\ start' = start /\ given \in Seq(Nat) /\ start \in Nat
            /\ i \in Nat
        BY <2>1, <2>2 DEF Emit, ReadInv, ReadTypeOK, session
      <3>2. Len(given') = Len(given) + 1 /\ Len(given) \in Nat
        BY <3>1, AppendProperties, LenProperties
      <3> QED
        BY <3>1, <3>2 DEF Reached
    <2>4. /\ Decodable(log[i]) /\ needed' = NeededAfter(log[i])
      BY <1>4, <2>1 DEF Emit
    <2>5. /\ Len(log) \in Nat /\ Reached \in Nat /\ Reached <= Len(log) /\ needed \in Nat
          /\ \A j \in 1..Len(log) : log[j] \in Nat
      BY TextTypes
    <2> HIDE DEF i
    <2>8. CharsApart' /\ OffsetsBetween'
      BY <1>1, <2>1 DEF CharsApart, OffsetsBetween, Between
    <2>6. CASE needed = 0
      <3>1. log[i] \in Nat \ {0} /\ needed' = log[i] - 1 /\ Between(Reached)
        BY <2>1, <2>2, <2>4, <2>5, <2>6 DEF Decodable, NeededAfter, DecoderInStep
      <3>2. ASSUME needed' = 0 PROVE \A j \in 1..(Reached + 1) : j + log[j] <= Reached + 2
        <4> SUFFICES ASSUME NEW j \in 1..(Reached + 1) PROVE j + log[j] <= Reached + 2
          OBVIOUS
        <4>1. CASE j = Reached + 1
          BY <2>2, <2>5, <3>1, <3>2, <4>1
        <4>2. CASE j \in 1..Reached
          <5>1. j + log[j] <= Reached + 1 /\ log[j] \in Nat
            BY <2>5, <3>1, <4>2 DEF Between
          <5> QED
            BY <2>5, <5>1
        <4> QED
          BY <2>5, <4>1, <4>2
      <3>3. i + log[i] = (Reached + 1) + needed' + 1 /\ i \in 1..(Reached + 1)
        BY <2>2, <2>5, <3>1
      <3>4. needed' = 0 => Between(Reached)'
        BY <1>1, <2>3, <2>5, <3>2 DEF Between
      <3>5. \E j \in 1..Reached' : j + log'[j] = Reached' + needed' + 1
        BY <1>1, <2>3, <3>3
      <3> QED
        BY <1>1, <1>2, <2>8, <3>4, <3>5 DEF DecoderInStep, TextInv
    <2>7. CASE needed > 0
      <3>1. log[i] = 0 /\ needed' = needed - 1
        BY <2>4, <2>7 DEF Decodable, NeededAfter
      <3>2. PICK j \in 1..Reached : j + log[j] = Reached + needed + 1
        BY <2>1, <2>7 DEF DecoderInStep
      <3>3. ASSUME needed' = 0 PROVE \A k \in 1..(Reached + 1) : k + log[k] <= Reached + 2
        <4> SUFFICES ASSUME NEW k \in 1..(Reached + 1) PROVE k + log[k] <= Reached + 2
          OBVIOUS
        <4>0. /\ k \in 1..Len(log) /\ j \in 1..Len(log) /\ log[k] \in Nat /\ log[j] \in Nat
              /\ needed = 1 /\ j + log[j] = Reached + 2 /\ log[j] # 0
          BY <2>2, <2>5, <3>1, <3>2, <3>3
        <4>1. CASE k < j
          <5>1. k + log[k] <= j
            BY <2>1, <4>0, <4>1 DEF CharsApart
          <5> QED
            BY <2>5, <3>2, <4>0, <5>1
        <4>2. CASE k = j
          BY <4>0, <4>2
        <4>3. CASE k > j
          <5>1. log[k] = 0
            <6>1. log[k] # 0 => j + log[j] <= k
              BY <2>1, <4>0, <4>3 DEF CharsApart
            <6> QED
              BY <2>5, <4>0, <6>1
          <5> QED
            BY <2>5, <5>1
        <4> QED
          BY <2>5, <3>2, <4>1, <4>2, <4>3
      <3>4. needed' = 0 => Between(Reached)'
        BY <1>1, <2>3, <2>5, <3>3 DEF Between
      <3>5. \E k \in 1..Reached' : k + log'[k] = Reached' + needed' + 1
        <4>1. j \in 1..(Reached + 1) /\ j + log[j] = (Reached + 1) + (needed - 1) + 1
          BY <2>5, <3>2
        <4> QED
          BY <1>1, <2>3, <3>1, <4>1
      <3> QED
        BY <1>1, <1>2, <2>8, <3>4, <3>5 DEF DecoderInStep, TextInv
    <2> QED
      BY <2>5, <2>6, <2>7
  <1> QED
    BY <1>3, <1>4

LEMMA DecodeFailsText ==
  ASSUME ReadInv, TextInv, DecodeFails
  PROVE  ~WellFormed
  <1> DEFINE i == Head(parts)
  <1>1. Emitting /\ i = Reached + 1 /\ i \in 1..Len(log)
    BY NextPart DEF DecodeFails
  <1>2. ~Decodable(log[i]) /\ CharsApart /\ DecoderInStep
    BY DEF DecodeFails, TextInv
  <1>3. /\ Len(log) \in Nat /\ Reached \in Nat /\ Reached <= Len(log) /\ needed \in Nat
        /\ \A j \in 1..Len(log) : log[j] \in Nat
    BY TextTypes
  <1> HIDE DEF i
  <1>4. CASE needed > 0
    <2>1. log[i] # 0
      BY <1>2, <1>4 DEF Decodable
    <2>2. PICK j \in 1..Reached : j + log[j] = Reached + needed + 1
      BY <1>2, <1>4 DEF DecoderInStep
    <2>3. j \in 1..Len(log) /\ j < i
      BY <1>1, <1>3, <2>2
    <2>4. j + log[j] <= i
      BY <1>1, <1>2, <2>1, <2>3 DEF CharsApart
    <2> QED
      BY <1>1, <1>3, <1>4, <2>2, <2>4
  <1>5. CASE needed = 0
    <2>1. log[i] = 0 /\ Between(Reached)
      BY <1>2, <1>5 DEF Decodable, DecoderInStep
    <2>2. ASSUME NEW j \in 1..i - 1 PROVE ~(i < j + log[j])
      <3>1. j \in 1..Reached /\ j + log[j] <= Reached + 1 /\ log[j] \in Nat
        BY <1>1, <1>3, <2>1 DEF Between
      <3> QED
        BY <1>1, <1>3, <3>1
    <2> QED
      BY <1>1, <2>1, <2>2 DEF WellFormed
  <1> QED
    BY <1>3, <1>4, <1>5

LEMMA NextText ==
  ASSUME ReadInv, TextInv, [Next]_vars
  PROVE  TextInv'
  <1> USE DEF server, session, output
  <1>1. ASSUME UNCHANGED <<log, mode, needed, start, given>>, failure' # "utf8" \/ failure' = failure,
               saved' = saved \/ (saved' = checkpoint /\ checkpoint # None),
               checkpoint' = checkpoint
        PROVE  TextInv'
    <2>1. Reached' = Reached
      BY <1>1 DEF Reached
    <2>2. failure' = "utf8" => (mode'.view = "text" /\ ~WellFormed')
      BY <1>1 DEF TextInv, WellFormed
    <2>3. (CharsApart => CharsApart') /\ (DecoderInStep => DecoderInStep')
      BY <1>1, <2>1 DEF CharsApart, DecoderInStep, Between
    <2>4. OffsetsBetween => OffsetsBetween'
      BY <1>1 DEF OffsetsBetween, Between
    <2> QED
      BY <1>1, <2>2, <2>3, <2>4 DEF TextInv
  <1>2. CASE Environment
    <2>1. CloseStream => TextInv'
      BY <1>1 DEF CloseStream
    <2> QED
      BY <1>2, <2>1, AppendText DEF Environment
  <1>3. CASE Application
    <2>1. CASE Open
      <3>1. UNCHANGED <<log, mode, saved>> /\ failure' = "none" /\ needed' = 0 /\ checkpoint' = None
            /\ given' = <<>> /\ start' = saved /\ saved \in Nat
        BY <2>1, TextTypes DEF Open
      <3>2. Reached' = saved
        BY <3>1, EmptySeq DEF Reached
      <3>3. ASSUME mode.view = "text"
            PROVE  CharsApart' /\ DecoderInStep' /\ OffsetsBetween'
        <4>1. CharsApart /\ Between(saved)
          BY <3>3 DEF TextInv, OffsetsBetween
        <4>2. CharsApart' /\ Between(saved)'
          BY <3>1, <4>1 DEF CharsApart, Between
        <4>3. Between(Reached)'
          BY <3>1, <3>2, <4>1 DEF Between
        <4> QED
          BY <3>1, <4>2, <4>3 DEF DecoderInStep, OffsetsBetween
      <3> QED
        BY <3>1, <3>3 DEF TextInv
    <2>2. CASE Consume \/ Stop
      BY <1>1, <2>2 DEF Consume, Stop
    <2>3. CASE SaveOffset
      BY <1>1, <2>3 DEF SaveOffset
    <2> QED
      BY <1>3, <2>1, <2>2, <2>3 DEF Application
  <1>4. CASE Faults
    <2>1. CASE RequestRetried \/ RequestFails \/ ProtocolViolation \/ BodyFails
      BY <1>1, <2>1 DEF RequestRetried, RequestFails, ProtocolViolation, BodyFails, Fail
    <2>2. ASSUME NEW short \in BOOLEAN, EventsEnd(short) PROVE TextInv'
      BY <1>1, <2>2 DEF EventsEnd
    <2> QED
      BY <1>4, <2>1, <2>2 DEF Faults
  <1>5. ASSUME EndPage \/ EndControl
        PROVE  TextInv'
    <2>1. /\ phase \in {"http", "sse"} /\ EndOfPart /\ CommitOffset
          /\ UNCHANGED <<log, mode, needed, start, given, failure, at, saved>>
      BY <1>5 DEF EndPage, EndControl
    <2>2. Complete => checkpoint' = Reached
      BY <2>1, Committed
    <2>3. ~Complete => checkpoint' = checkpoint
      BY <2>1 DEF CommitOffset
    <2>4. Reached' = Reached
      BY <2>1 DEF Reached
    <2>5. failure' = "utf8" => (mode'.view = "text" /\ ~WellFormed')
      BY <2>1 DEF TextInv, WellFormed
    <2>6. ASSUME mode.view = "text"
          PROVE  CharsApart' /\ DecoderInStep' /\ OffsetsBetween'
      <3>1. CharsApart /\ DecoderInStep /\ OffsetsBetween
        BY <2>6 DEF TextInv
      <3>2. CharsApart' /\ DecoderInStep' /\ Between(saved)'
        BY <2>1, <2>4, <3>1 DEF CharsApart, DecoderInStep, Between, OffsetsBetween
      <3>3. CASE Complete
        <4>1. Between(Reached)
          BY <2>6, <3>1, <3>3 DEF Complete, DecoderInStep
        <4>2. Between(checkpoint)'
          BY <2>1, <2>2, <3>3, <4>1 DEF Between
        <4> QED
          BY <3>2, <4>2 DEF OffsetsBetween
      <3>4. CASE ~Complete
        <4>1. checkpoint' # None => Between(checkpoint)'
          BY <2>1, <2>3, <3>1, <3>4 DEF Between, OffsetsBetween
        <4> QED
          BY <3>2, <4>1 DEF OffsetsBetween
      <3> QED
        BY <3>3, <3>4
    <2> QED
      BY <2>1, <2>5, <2>6 DEF TextInv
  <1>6. CASE DecodeFails
    <2>1. UNCHANGED <<log, mode, needed, start, given, saved, checkpoint>> /\ mode.view = "text"
      BY <1>6 DEF DecodeFails, Fail
    <2>2. ~WellFormed'
      BY <1>6, <2>1, DecodeFailsText DEF WellFormed
    <2>3. Reached' = Reached
      BY <2>1 DEF Reached
    <2>4. CharsApart' /\ DecoderInStep' /\ OffsetsBetween'
      BY <2>1, <2>3 DEF TextInv, CharsApart, DecoderInStep, OffsetsBetween, Between
    <2> QED
      BY <2>1, <2>2, <2>4 DEF TextInv
  <1>7. CASE Collect \/ Truncated
    BY <1>1, <1>7 DEF Collect, Truncated, Fail
  <1>8. CASE Connecting
    BY <1>1, <1>8 DEF Connecting, AcquireInitial, BeginPage, BeginEvents, Reconnect
  <1>9. CASE DataEvent \/ ControlEvent
    BY <1>1, <1>9 DEF DataEvent, ControlEvent
  <1>10. CASE UNCHANGED vars
    BY <1>1, <1>10 DEF vars
  <1> QED
    BY <1>2, <1>3, <1>4, <1>5, <1>6, <1>7, <1>8, <1>9, <1>10, EmitText DEF Next, Handing

(* A text view fails to decode only where the stream itself is no text: a  *)
(* session starts between two characters, and neither a reconnect nor a    *)
(* page boundary makes the decoder lose or see twice part of a character   *)
(* (read.ts moves the offset only where decoding is complete).             *)
THEOREM TextNeverGarbled == Spec => []TextIsNeverGarbled
  <1> DEFINE Inv == ReadInv /\ TextInv
  <1>1. Init => Inv
    <2> SUFFICES ASSUME Init PROVE TextInv
      BY InitInv
    <2>1. log = <<>> /\ given = <<>> /\ start = 0 /\ needed = 0 /\ saved = 0 /\ checkpoint = None
          /\ failure = "none"
      BY DEF Init
    <2>2. Len(log) = 0 /\ Reached = 0
      BY <2>1, EmptySeq DEF Reached
    <2> QED
      BY <2>1, <2>2 DEF TextInv, CharsApart, DecoderInStep, OffsetsBetween, Between
  <1>2. Inv /\ [Next]_vars => Inv'
    BY NextInv, NextText
  <1>3. Inv => TextIsNeverGarbled
    BY DEF TextInv, TextIsNeverGarbled
  <1> HIDE DEF Inv
  <1> QED
    BY <1>1, <1>2, <1>3, PTL DEF Spec
-----------------------------------------------------------------------------
(* Sessions implement the abstract reader. *)

LEMMA Unmoved ==
  ASSUME UNCHANGED <<log, at, saved>>
  PROVE  [Reader!ReaderNext]_(Reader!readerVars)
  BY DEF Reader!readerVars

LEMMA EmitDelivers ==
  ASSUME ReadInv, Emit \/ EmitBatch
  PROVE  [Reader!ReaderNext]_(Reader!readerVars)
  <1>1. ReadInv' /\ Emitting
    BY EmitInv, EmitBatchInv DEF Emit, EmitBatch
  <1>2. /\ parts \in Seq(Nat) /\ Len(parts) \in Nat \ {0} /\ Len(given) \in Nat
        /\ Head(parts) = Reached + 1 /\ Reached + Len(parts) <= Len(log)
        /\ Len(log) \in Nat /\ Reached \in Nat /\ at \in Nat /\ at <= Reached
    <2>1. /\ parts \in Seq(Nat) /\ Len(parts) \in Nat \ {0} /\ Len(given) \in Nat
          /\ Head(parts) = Reached + 1 /\ Reached + Len(parts) <= Len(log)
      BY <1>1, NextPart
    <2>2. Len(log) \in Nat /\ start \in Nat /\ at \in Nat /\ at <= Reached
      BY LenProperties DEF ReadInv, ReadTypeOK, DecoderCovers
    <2> QED BY <2>1, <2>2 DEF Reached
  <1>3. UNCHANGED <<log, saved>>
    BY DEF Emit, EmitBatch, server, session
  <1>4. CASE Emit
    <2>1. at' = at \/ at' = Head(parts)
      BY <1>4 DEF Emit
    <2>2. at' = Head(parts) => Reader!Deliver
      BY <1>2, <1>3 DEF Reader!Deliver
    <2> QED BY <1>3, <2>1, <2>2, Unmoved DEF Reader!ReaderNext
  <1>5. CASE EmitBatch
    <2>1. at' = parts[Len(parts)] /\ parts[Len(parts)] = Reached + Len(parts)
      BY <1>1, <1>2, <1>5 DEF EmitBatch, ReadInv, PartsFollow, Emitting
    <2>2. Reader!Deliver
      BY <1>2, <1>3, <2>1 DEF Reader!Deliver
    <2> QED BY <2>2 DEF Reader!ReaderNext
  <1> QED BY <1>4, <1>5

LEMMA StepImplements ==
  ASSUME ReadInv, [Next]_vars
  PROVE  [Reader!ReaderNext]_(Reader!readerVars)
  <1> USE DEF server, session, output
  <1>1. CASE UNCHANGED vars
    BY <1>1, Unmoved DEF vars
  <1>2. CASE Environment
    <2>1. ASSUME NEW u \in Widths \cup {0}, Append1(u)
          PROVE  Reader!Grow
      <3>1. log' = Append(log, u) /\ log \in Seq(Widths \cup {0}) /\ UNCHANGED <<at, saved>>
        BY <2>1 DEF Append1, ReadInv, ReadTypeOK
      <3>2. Len(log') = Len(log) + 1 /\ SubSeq(log', 1, Len(log)) = log
        BY <3>1, AppendProperties
      <3> QED BY <3>1, <3>2 DEF Reader!Grow
    <2>2. CloseStream => UNCHANGED <<log, at, saved>>
      BY DEF CloseStream
    <2> QED BY <1>2, <2>1, <2>2, Unmoved DEF Environment, Reader!ReaderNext
  <1>3. CASE Application
    <2>1. Open => Reader!Resume
      BY DEF Open, Reader!Resume
    <2>2. SaveOffset => Reader!Save
      <3> SUFFICES ASSUME SaveOffset PROVE Reader!Save
        OBVIOUS
      <3>1. /\ saved' = checkpoint /\ checkpoint # None /\ checkpoint # saved
            /\ UNCHANGED <<log, at>>
        BY DEF SaveOffset
      <3>2. /\ checkpoint \in Nat /\ saved \in Nat /\ at \in Nat
            /\ saved <= checkpoint /\ checkpoint <= at
        BY <3>1 DEF ReadInv, ReadTypeOK, SavedIsDelivered, CheckpointIsDelivered
      <3> QED BY <3>1, <3>2 DEF Reader!Save
    <2>3. Consume \/ Stop => UNCHANGED <<log, at, saved>>
      BY DEF Consume, Stop
    <2> QED BY <1>3, <2>1, <2>2, <2>3, Unmoved DEF Application, Reader!ReaderNext
  <1>4. CASE Faults
    <2>1. RequestRetried \/ RequestFails \/ ProtocolViolation \/ BodyFails
            => UNCHANGED <<log, at, saved>>
      BY DEF RequestRetried, RequestFails, ProtocolViolation, BodyFails, Fail
    <2>2. ASSUME NEW short \in BOOLEAN, EventsEnd(short)
          PROVE  UNCHANGED <<log, at, saved>>
      BY <2>2 DEF EventsEnd
    <2> QED BY <1>4, <2>1, <2>2, Unmoved DEF Faults
  <1>5. CASE Handing
    <2>1. Collect \/ DecodeFails \/ Truncated \/ EndPage \/ EndControl
            => UNCHANGED <<log, at, saved>>
      BY DEF Collect, DecodeFails, Truncated, EndPage, EndControl, Fail
    <2> QED BY <1>5, <2>1, EmitDelivers, Unmoved DEF Handing
  <1>6. CASE Connecting
    BY <1>6, Unmoved DEF Connecting, AcquireInitial, BeginPage, BeginEvents, Reconnect
  <1>7. CASE DataEvent \/ ControlEvent
    BY <1>7, Unmoved DEF DataEvent, ControlEvent
  <1> QED BY <1>1, <1>2, <1>3, <1>4, <1>5, <1>6, <1>7 DEF Next

(* Whatever pages, events, failures and resumptions happen, the            *)
(* application sees the abstract reader: values in the log's order without *)
(* a hole, saved offsets that cover only delivered values, and a restart   *)
(* that goes back no further than the saved offset.                        *)
THEOREM SessionImplementsReader == Spec => ImplementsReader
  <1>1. Init => Reader!ReaderInit
    BY DEF Init, Reader!ReaderInit
  <1>2. ReadInv /\ [Next]_vars => [Reader!ReaderNext]_(Reader!readerVars)
    BY StepImplements
  <1> QED BY <1>1, <1>2, InvHolds, PTL DEF Spec, ImplementsReader, Reader!ReaderSpec
=============================================================================
