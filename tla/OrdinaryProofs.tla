--------------------------- MODULE OrdinaryProofs ---------------------------
(***************************************************************************)
(* Proofs about OrdinaryAppend for any number of appends, groups, retries  *)
(* and faults.  The inductive invariant relates the four places that must  *)
(* agree on an append: the Ref, the burst it joined, its receipt and the   *)
(* position of its caller.                                                 *)
(***************************************************************************)
EXTENDS OrdinaryAppend, WellFoundedInduction, FiniteSetTheorems, TLAPS

Live(b) == loop[b] \in {"ready", "send", "cleanup", "stopping"}

\* The Ref names the one burst whose fiber lives.
CurrentLives == \A b \in Appends : Live(b) <=> current = b
\* Members of a burst joined it, and nobody else has settled them.
Membership ==
  \A b \in Appends : \A e \in active[b] \cup buffer[b] :
     joined[e] = b /\ pc[e] # "new" /\ receipt[e] = "open"
Separate == \A b \in Appends : active[b] \cap buffer[b] = {}
\* An append without an outcome is in the burst it joined.
Kept ==
  \A e \in Appends : pc[e] # "new" =>
     /\ joined[e] \in Appends
     /\ receipt[e] = "open" => e \in active[joined[e]] \cup buffer[joined[e]]
\* A burst whose fiber is gone is empty.
Emptied == \A b \in Appends : ~Live(b) => active[b] = {} /\ buffer[b] = {}
\* Who is in a request under way waits for it, ...
Attended ==
  \A b \in Appends : Busy(b) => \A e \in active[b] : pc[e] \in {"await", "cancelled", "drain"}
\* ... because who left early has said so.
Announced ==
  \A e \in Appends : receipt[e] = "open" /\ ~cancelled[e] => pc[e] \in {"new", "await"}
Fresh == \A e \in Appends : pc[e] = "new" => receipt[e] = "open"

OrdinaryInv ==
  /\ OrdinaryTypeOK /\ CurrentLives /\ Membership /\ Separate /\ Kept /\ Emptied
  /\ Attended /\ Announced /\ Fresh

\* The appends that hold a lease on a burst, which the code only counts.
Holders(b) == {e \in Appends : joined[e] = b /\ pc[e] \notin {"new", "closing", "done"}}
Counted == \A b \in Appends : leases[b] = Cardinality(Holders(b))
\* Whoever started the burst of an append has joined.
Founded ==
  /\ \A e \in Appends : pc[e] # "new" => pc[joined[e]] # "new"
  /\ current # 0 => pc[current] # "new"

-----------------------------------------------------------------------------

LEMMA FirstIsLeast ==
  ASSUME NEW S \in SUBSET Nat, S # {}
  PROVE  First(S) \in S /\ \A f \in S : First(S) <= f
  <1> DEFINE less == OpToRel(<, Nat)
  <1>1. \E x \in S : \A y \in S : <<y, x>> \notin less
    <2>1. IsWellFoundedOn(less, Nat)
      BY NatLessThanWellFounded
    <2> HIDE DEF less
    <2> QED BY WFMin, <2>1
  <1>2. \A x, y \in Nat : <<y, x>> \notin less => x <= y
    BY DEF OpToRel
  <1> HIDE DEF less
  <1>3. \E x \in S : \A y \in S : x <= y
    BY <1>1, <1>2
  <1> QED BY <1>3 DEF First

LEMMA FirstOfAppends ==
  ASSUME NEW S \in SUBSET Appends, S # {}
  PROVE  First(S) \in S /\ \A f \in S : First(S) <= f
  <1>1. S \in SUBSET Nat
    BY OrdinaryAssumption DEF Appends
  <1> HIDE DEF First
  <1> QED BY <1>1, FirstIsLeast

(* A buffer that is not empty yields a batch that is not empty.             *)
LEMMA PromotedSome ==
  ASSUME NEW S \in SUBSET Appends, S # {}
  PROVE  Promoted(S) # {} /\ Promoted(S) \subseteq S
  <1>1. First(S) \in S /\ \A f \in S : First(S) <= f
    BY FirstOfAppends
  <1>2. \A f \in S : f <= First(S) => f = First(S)
    <2>1. S \subseteq Nat
      BY OrdinaryAssumption DEF Appends
    <2>2. \A m, n \in Nat : m <= n /\ n <= m => m = n
      OBVIOUS
    <2> QED BY <1>1, <2>1, <2>2
  <1>3. First(S) \in Promoted(S)
    BY <1>1, <1>2 DEF Promoted, Compatible
  <1> QED BY <1>3 DEF Promoted

LEMMA InitInv == Init => OrdinaryInv
  <1> SUFFICES ASSUME Init PROVE OrdinaryInv
    OBVIOUS
  <1>1. (CHOOSE g \in Groups : TRUE) \in Groups
    BY OrdinaryAssumption
  <1>2. OrdinaryTypeOK
    BY <1>1, OrdinaryAssumption DEF Init, OrdinaryTypeOK, Loops, Locations, Outcomes, Appends
  <1>3. CurrentLives
    BY OrdinaryAssumption DEF Init, CurrentLives, Live, Appends
  <1>4. Membership /\ Separate /\ Kept /\ Emptied /\ Attended /\ Announced
        /\ Fresh
    BY DEF Init, Membership, Separate, Kept, Emptied, Attended, Announced, Fresh, Busy, Live
  <1> QED BY <1>2, <1>3, <1>4 DEF OrdinaryInv

-----------------------------------------------------------------------------
(* The fiber of a burst. *)

LEMMA SettleStep ==
  ASSUME OrdinaryInv, NEW b \in Appends, Live(b), NEW out \in Outcomes, Settle(b, out),
         UNCHANGED <<leases, closing, pc, joined, group, cancelled, result, server>>
  PROVE  OrdinaryInv'
  <1> DEFINE left == buffer[b] \ TakenAlong(b, out)
             next == IF left = {} THEN {} ELSE Promoted(left)
             done == active[b] \cup TakenAlong(b, out)
  <1>0. /\ OrdinaryTypeOK /\ CurrentLives /\ Membership /\ Separate /\ Kept /\ Emptied
        /\ Attended /\ Announced /\ Fresh
    BY DEF OrdinaryInv
  <1>1. /\ left \in SUBSET buffer[b] /\ done \in SUBSET (active[b] \cup buffer[b])
        /\ buffer[b] \subseteq left \cup done /\ left \cap done = {}
    BY <1>0 DEF TakenAlong, Separate
  <1>2. next \subseteq left /\ (next = {} <=> left = {}) /\ buffer[b] \in SUBSET Appends
    BY <1>0, <1>1, PromotedSome DEF OrdinaryTypeOK
  <1>3. /\ active' = [active EXCEPT ![b] = next] /\ buffer' = [buffer EXCEPT ![b] = left \ next]
        /\ current' = (IF current = b /\ next = {} THEN 0 ELSE current)
        /\ loop' = [loop EXCEPT ![b] = IF next = {} THEN "ended" ELSE "ready"]
        /\ net' = [net EXCEPT ![b] = "none"] /\ attempts' = [attempts EXCEPT ![b] = 0]
    BY DEF Settle, Vacated
  <1>4. /\ receipt' = [e \in Appends |-> IF e \in done /\ receipt[e] = "open" THEN out
                                         ELSE receipt[e]]
        /\ owner' = [e \in Appends |-> owner[e] /\ e \notin done]
    BY DEF Settle, ReceiptsDone
  <1>5. current = b /\ 0 \notin Appends
    BY <1>0 DEF CurrentLives, Appends
  <1> HIDE DEF left, next, done
  <1>6. OrdinaryTypeOK'
    <2>1. active' \in [Appends -> SUBSET Appends] /\ buffer' \in [Appends -> SUBSET Appends]
      BY <1>0, <1>1, <1>2, <1>3 DEF OrdinaryTypeOK
    <2>2. current' \in 0..MaxAppends /\ loop' \in [Appends -> Loops]
      BY <1>0, <1>3, OrdinaryAssumption DEF OrdinaryTypeOK, Loops
    <2>3. /\ net' \in [Appends -> {"none", "sent", "retryable"} \cup Outcomes]
          /\ attempts' \in [Appends -> Nat]
      BY <1>0, <1>3 DEF OrdinaryTypeOK
    <2>4. receipt' \in [Appends -> Outcomes \cup {"open"}] /\ owner' \in [Appends -> BOOLEAN]
      BY <1>0, <1>4 DEF OrdinaryTypeOK
    <2> QED BY <1>0, <2>1, <2>2, <2>3, <2>4 DEF OrdinaryTypeOK, server
  <1>7. CurrentLives'
    BY <1>0, <1>3, <1>5 DEF CurrentLives, Live, OrdinaryTypeOK
  <1>8. \A c \in Appends : active'[c] \cup buffer'[c] \subseteq active[c] \cup buffer[c]
    BY <1>0, <1>1, <1>2, <1>3 DEF OrdinaryTypeOK
  <1>9. \A c \in Appends : \A e \in active'[c] \cup buffer'[c] : receipt'[e] = "open"
    <2> SUFFICES ASSUME NEW c \in Appends, NEW e \in active'[c] \cup buffer'[c]
                 PROVE  receipt'[e] = "open"
      OBVIOUS
    <2>1. receipt[e] = "open" /\ joined[e] = c /\ e \in Appends
      BY <1>0, <1>8 DEF Membership, OrdinaryTypeOK
    <2>2. CASE c = b
      <3>1. e \in left
        BY <1>0, <1>2, <1>3, <2>2 DEF OrdinaryTypeOK
      <3> QED BY <1>1, <1>4, <2>1, <3>1
    <2>3. CASE c # b
      <3>1. e \notin done
        BY <1>0, <1>1, <2>1, <2>3 DEF Membership
      <3> QED BY <1>4, <2>1, <3>1
    <2> QED BY <2>2, <2>3
  <1>10. Membership'
    BY <1>0, <1>8, <1>9 DEF Membership
  <1>11. Separate'
    BY <1>0, <1>3 DEF Separate, OrdinaryTypeOK
  <1>12. Kept'
    <2> SUFFICES ASSUME NEW e \in Appends, pc[e] # "new"
                 PROVE  /\ joined[e] \in Appends
                        /\ receipt'[e] = "open" => e \in active'[joined[e]] \cup buffer'[joined[e]]
      BY DEF Kept
    <2>1. joined[e] \in Appends
      BY <1>0 DEF Kept
    <2>2. CASE receipt'[e] = "open"
      <3>1. receipt[e] = "open" /\ e \notin done
        BY <1>4, <2>2 DEF Outcomes
      <3>2. e \in active[joined[e]] \cup buffer[joined[e]]
        BY <1>0, <3>1 DEF Kept
      <3>3. CASE joined[e] = b
        <4>1. e \in left
          BY <1>1, <3>1, <3>2, <3>3, <1>0 DEF done
        <4> QED BY <1>0, <1>3, <3>3, <4>1 DEF OrdinaryTypeOK
      <3>4. CASE joined[e] # b
        BY <1>0, <1>3, <2>1, <3>2, <3>4 DEF OrdinaryTypeOK
      <3> QED BY <3>3, <3>4
    <2> QED BY <2>1, <2>2
  <1>13. Emptied'
    <2> SUFFICES ASSUME NEW c \in Appends, ~Live(c)' PROVE active'[c] = {} /\ buffer'[c] = {}
      BY DEF Emptied
    <2>1. CASE c = b
      <3>1. next = {}
        BY <1>0, <1>3, <2>1 DEF Live, OrdinaryTypeOK
      <3> QED BY <1>0, <1>2, <1>3, <2>1, <3>1 DEF OrdinaryTypeOK
    <2>2. CASE c # b
      BY <1>0, <1>3, <2>2 DEF Emptied, Live, OrdinaryTypeOK
    <2> QED BY <2>1, <2>2
  <1>14. Attended'
    BY <1>0, <1>3 DEF Attended, Busy, OrdinaryTypeOK
  <1>15. Announced'
    BY <1>0, <1>4 DEF Announced, Outcomes
  <1>16. Fresh'
    BY <1>0, <1>1, <1>4 DEF Fresh, Membership
  <1> QED BY <1>6, <1>7, <1>10, <1>11, <1>12, <1>13, <1>14, <1>15, <1>16 DEF OrdinaryInv

(* Steps of the fiber that leave its batch as it is. *)
LEMMA MoveStep ==
  ASSUME OrdinaryInv, NEW b \in Appends, Live(b), NEW l \in {"ready", "send", "cleanup", "stopping"},
         loop' = [loop EXCEPT ![b] = l],
         l \in {"send", "cleanup"} =>
            \A e \in active[b] : pc[e] \in {"await", "cancelled", "drain"},
         OrdinaryTypeOK',
         UNCHANGED <<current, active, buffer, pc, joined, cancelled, receipt>>
  PROVE  OrdinaryInv'
  <1> USE DEF OrdinaryInv
  <1>1. CurrentLives'
    BY DEF CurrentLives, Live, OrdinaryTypeOK
  <1>2. Membership' /\ Separate' /\ Kept' /\ Announced' /\ Fresh'
    BY DEF Membership, Separate, Kept, Announced, Fresh
  <1>3. Emptied'
    BY DEF Emptied, Live, OrdinaryTypeOK
  <1>4. Attended'
    BY DEF Attended, Busy, OrdinaryTypeOK
  <1> QED BY <1>1, <1>2, <1>3, <1>4

LEMMA DispatchStep ==
  ASSUME OrdinaryInv, NEW b \in Appends, Dispatch(b)
  PROVE  OrdinaryInv'
  <1>1. Live(b) /\ "unknown" \in Outcomes
    BY DEF Dispatch, Live, Outcomes
  <1>2. CASE Sendable(b)
    <2>1. /\ loop' = [loop EXCEPT ![b] = "send"] /\ net' = [net EXCEPT ![b] = "sent"]
          /\ UNCHANGED <<current, active, buffer, attempts, owner, receipt>>
      BY <1>2 DEF Dispatch
    <2>2. OrdinaryTypeOK'
      BY <2>1 DEF OrdinaryInv, OrdinaryTypeOK, Loops, Dispatch, server
    <2>3. \A e \in active[b] : pc[e] \in {"await", "cancelled", "drain"}
      BY <1>2 DEF Sendable, OrdinaryInv, Membership, Announced, OrdinaryTypeOK
    <2> QED BY <1>1, <2>1, <2>2, <2>3, MoveStep DEF Dispatch
  <1>3. CASE ~Sendable(b)
    BY <1>1, <1>3, SettleStep DEF Dispatch
  <1> QED BY <1>2, <1>3

LEMMA AnsweredStep ==
  ASSUME OrdinaryInv, NEW b \in Appends, Answered(b)
  PROVE  OrdinaryInv'
  <1>1. Live(b) /\ net[b] \in Outcomes
    BY DEF Answered, Live, Outcomes
  <1> QED BY <1>1, SettleStep DEF Answered

LEMMA RetryStep ==
  ASSUME OrdinaryInv, NEW b \in Appends, Retry(b)
  PROVE  OrdinaryInv'
  <1>1. Live(b) /\ "unknown" \in Outcomes
    BY DEF Retry, Live, Outcomes
  <1>2. CASE attempts[b] < MaxRetries
    <2>0. /\ net' = [net EXCEPT ![b] = "sent"] /\ attempts' = [attempts EXCEPT ![b] = @ + 1]
          /\ UNCHANGED <<current, bursts, pc, entry, result, server>>
      BY <1>2 DEF Retry, bursts, entry
    <2>1. OrdinaryTypeOK'
      BY <2>0 DEF OrdinaryInv, OrdinaryTypeOK, bursts, entry, server
    <2>2. UNCHANGED <<current, active, buffer, loop, pc, joined, cancelled, receipt>>
      BY <1>2 DEF Retry
    <2> QED BY <2>1, <2>2 DEF OrdinaryInv, CurrentLives, Membership, Separate, Kept, Emptied,
                              Attended, Announced, Fresh, Live, Busy
  <1>3. CASE ~(attempts[b] < MaxRetries)
    BY <1>1, <1>3, SettleStep DEF Retry
  <1> QED BY <1>2, <1>3

LEMMA AbandonedType ==
  ASSUME OrdinaryTypeOK, NEW b \in Appends
  PROVE  Abandoned(b) \subseteq [batch : SUBSET Appends, try : Nat]
  BY DEF Abandoned, OrdinaryTypeOK

LEMMA CancelWinsStep ==
  ASSUME OrdinaryInv, NEW b \in Appends, CancelWins(b)
  PROVE  OrdinaryInv'
  <1>1. OrdinaryTypeOK'
    BY AbandonedType DEF CancelWins, OrdinaryInv, OrdinaryTypeOK, Loops, entry
  <1>2. Live(b) /\ \A e \in active[b] : pc[e] \in {"await", "cancelled", "drain"}
    BY DEF CancelWins, Live, OrdinaryInv, Attended, Busy
  <1> QED BY <1>1, <1>2, MoveStep DEF CancelWins, entry

LEMMA CleanedUpStep ==
  ASSUME OrdinaryInv, NEW b \in Appends, CleanedUp(b)
  PROVE  OrdinaryInv'
  BY SettleStep DEF CleanedUp, Live, Outcomes

LEMMA StopStep ==
  ASSUME OrdinaryInv, NEW b \in Appends, Stop(b)
  PROVE  OrdinaryInv'
  <1>1. OrdinaryTypeOK'
    BY AbandonedType DEF Stop, OrdinaryInv, OrdinaryTypeOK, Loops, entry
  <1>2. Live(b)
    BY DEF Stop, Live
  <1> QED BY <1>1, <1>2, MoveStep DEF Stop, entry

LEMMA StopEndStep ==
  ASSUME OrdinaryInv, NEW b \in Appends, StopEnd(b)
  PROVE  OrdinaryInv'
  <1>0. /\ OrdinaryTypeOK /\ CurrentLives /\ Membership /\ Separate /\ Kept /\ Emptied
        /\ Attended /\ Announced /\ Fresh
    BY DEF OrdinaryInv
  <1>1. /\ loop[b] = "stopping" /\ loop' = [loop EXCEPT ![b] = "ended"]
        /\ active' = [active EXCEPT ![b] = {}] /\ buffer' = [buffer EXCEPT ![b] = {}]
        /\ UNCHANGED <<leases, closing, net, attempts, pc, joined, group, cancelled, result,
                       log, strays, faults>>
    BY DEF StopEnd, request, server
  <1>2. /\ receipt' = [e \in Appends |-> IF e \in active[b] \cup buffer[b] /\ receipt[e] = "open"
                                         THEN "unknown" ELSE receipt[e]]
        /\ owner' = [e \in Appends |-> owner[e] /\ e \notin active[b] \cup buffer[b]]
    BY DEF StopEnd, ReceiptsDone, Remaining
  <1>3. current = b /\ current' = 0 /\ 0 \notin Appends
    BY <1>0, <1>1 DEF StopEnd, Vacated, CurrentLives, Live, Appends
  <1>4. OrdinaryTypeOK'
    <2>1. current' \in 0..MaxAppends
      BY <1>3, OrdinaryAssumption
    <2>2. receipt' \in [Appends -> Outcomes \cup {"open"}] /\ owner' \in [Appends -> BOOLEAN]
      BY <1>0, <1>2 DEF OrdinaryTypeOK, Outcomes
    <2>3. /\ active' \in [Appends -> SUBSET Appends] /\ buffer' \in [Appends -> SUBSET Appends]
          /\ loop' \in [Appends -> Loops]
      BY <1>0, <1>1 DEF OrdinaryTypeOK, Loops
    <2> QED BY <1>0, <1>1, <2>1, <2>2, <2>3 DEF OrdinaryTypeOK
  <1>5. CurrentLives'
    BY <1>0, <1>1, <1>3 DEF CurrentLives, Live, OrdinaryTypeOK
  <1>6. Membership'
    <2> SUFFICES ASSUME NEW c \in Appends, NEW e \in active'[c] \cup buffer'[c]
                 PROVE  joined[e] = c /\ pc[e] # "new" /\ receipt'[e] = "open"
      BY <1>1 DEF Membership
    <2>1. c # b /\ e \in active[c] \cup buffer[c] /\ e \in Appends
      BY <1>0, <1>1 DEF OrdinaryTypeOK
    <2>2. joined[e] = c /\ pc[e] # "new" /\ receipt[e] = "open"
      BY <1>0, <2>1 DEF Membership
    <2>3. e \notin active[b] \cup buffer[b]
      BY <1>0, <2>1, <2>2 DEF Membership
    <2> QED BY <1>2, <2>1, <2>2, <2>3
  <1>7. Separate' /\ Emptied' /\ Attended'
    BY <1>0, <1>1 DEF Separate, Emptied, Attended, Live, Busy, OrdinaryTypeOK
  <1>8. Kept'
    BY <1>0, <1>1, <1>2 DEF Kept, OrdinaryTypeOK
  <1>9. Announced'
    BY <1>0, <1>1, <1>2 DEF Announced
  <1>10. Fresh'
    BY <1>0, <1>1, <1>2 DEF Fresh, Membership
  <1> QED BY <1>4, <1>5, <1>6, <1>7, <1>8, <1>9, <1>10 DEF OrdinaryInv

-----------------------------------------------------------------------------
(* The calls, and the server. *)

LEMMA JoinStep ==
  ASSUME OrdinaryInv, NEW e \in Appends, Join(e)
  PROVE  OrdinaryInv'
  <1>0. /\ OrdinaryTypeOK /\ CurrentLives /\ Membership /\ Separate /\ Kept /\ Emptied
        /\ Attended /\ Announced /\ Fresh
    BY DEF OrdinaryInv
  <1>1. /\ pc[e] = "new" /\ pc' = [pc EXCEPT ![e] = "await"]
        /\ group' \in [Appends -> Groups]
        /\ UNCHANGED <<closing, net, attempts, cancelled, owner, receipt, result, log, strays,
                       faults>>
    BY <1>0 DEF Join, OrdinaryTypeOK, request, server
  <1>2. \A b \in Appends : e \notin active[b] \cup buffer[b]
    BY <1>0, <1>1 DEF Membership
  <1>3. CASE current = 0
    <2>1. /\ current' = e /\ joined' = [joined EXCEPT ![e] = e]
          /\ active' = [active EXCEPT ![e] = {e}] /\ leases' = [leases EXCEPT ![e] = 1]
          /\ loop' = [loop EXCEPT ![e] = "ready"] /\ buffer' = buffer
      BY <1>3 DEF Join, StartLeases
    <2>2. \A b \in Appends : ~Live(b) /\ active[b] = {} /\ buffer[b] = {}
      BY <1>0, <1>3 DEF CurrentLives, Emptied, Appends
    <2>4. OrdinaryTypeOK'
      <3>1. current' \in 0..MaxAppends /\ joined' \in [Appends -> 0..MaxAppends]
        BY <1>0, <2>1 DEF OrdinaryTypeOK, Appends
      <3> QED BY <1>0, <1>1, <2>1, <3>1 DEF OrdinaryTypeOK, Loops, Locations
    <2>5. CurrentLives' /\ Emptied' /\ Separate' /\ Attended'
      BY <1>0, <2>1, <2>2 DEF CurrentLives, Live, Emptied, Separate, Attended, Busy, OrdinaryTypeOK
    <2>6. Membership'
      BY <1>0, <1>1, <2>1, <2>2 DEF Membership, OrdinaryTypeOK, Fresh
    <2>7. Kept' /\ Announced' /\ Fresh'
      BY <1>0, <1>1, <2>1, <2>2 DEF Kept, Announced, Fresh, OrdinaryTypeOK
    <2> QED BY <2>4, <2>5, <2>6, <2>7 DEF OrdinaryInv
  <1>4. CASE current # 0
    <2>1. /\ joined' = [joined EXCEPT ![e] = current]
          /\ buffer' = [buffer EXCEPT ![current] = @ \cup {e}]
          /\ leases' = [leases EXCEPT ![current] = @ + 1]
          /\ UNCHANGED <<current, active, loop>>
      BY <1>4 DEF Join
    <2>2. current \in Appends /\ Live(current)
      <3>1. current \in Appends
        BY <1>0, <1>4, OrdinaryAssumption DEF OrdinaryTypeOK, Appends
      <3> QED BY <1>0, <3>1 DEF CurrentLives
    <2>3. OrdinaryTypeOK'
      <3>1. leases' \in [Appends -> Nat]
        BY <1>0, <2>1, <2>2 DEF OrdinaryTypeOK
      <3>2. buffer' \in [Appends -> SUBSET Appends] /\ joined' \in [Appends -> 0..MaxAppends]
        BY <1>0, <2>1, <2>2 DEF OrdinaryTypeOK
      <3> QED BY <1>0, <1>1, <2>1, <3>1, <3>2 DEF OrdinaryTypeOK, Locations
    <2>4. CurrentLives' /\ Emptied' /\ Separate'
      BY <1>0, <1>2, <2>1, <2>2 DEF CurrentLives, Live, Emptied, Separate, OrdinaryTypeOK
    <2>5. Attended'
      BY <1>0, <1>1, <2>1 DEF Attended, Busy, OrdinaryTypeOK
    <2>6. Membership'
      BY <1>0, <1>1, <2>1, <2>2 DEF Membership, OrdinaryTypeOK, Fresh
    <2>7. Kept' /\ Announced' /\ Fresh'
      BY <1>0, <1>1, <2>1, <2>2 DEF Kept, Announced, Fresh, OrdinaryTypeOK
    <2> QED BY <2>3, <2>4, <2>5, <2>6, <2>7 DEF OrdinaryInv
  <1> QED BY <1>3, <1>4

(* A step of one call that has joined: its location, and perhaps its        *)
(* cancellation, context and lease change.                                  *)
LEMMA CallStep ==
  ASSUME OrdinaryInv, NEW e \in Appends, pc[e] # "new", NEW l \in Locations \ {"new"},
         pc' = [pc EXCEPT ![e] = l],
         \/ l \in {"await", "cancelled", "drain"}
         \/ \A b \in Appends : Busy(b) => e \notin active[b],
         receipt[e] = "open" => cancelled'[e],
         \A f \in Appends : cancelled[f] => cancelled'[f],
         OrdinaryTypeOK',
         UNCHANGED <<current, active, buffer, loop, joined, receipt>>
  PROVE  OrdinaryInv'
  <1> USE DEF OrdinaryInv
  <1>1. CurrentLives' /\ Separate' /\ Emptied'
    BY DEF CurrentLives, Separate, Emptied, Live
  <1>2. \A f \in Appends : pc'[f] = (IF f = e THEN l ELSE pc[f])
    BY DEF OrdinaryTypeOK
  <1>3. Membership' /\ Kept' /\ Fresh'
    <2>1. \A f \in Appends : pc'[f] = "new" <=> pc[f] = "new"
      BY <1>2
    <2> QED BY <2>1 DEF Membership, Kept, Fresh, OrdinaryTypeOK
  <1>5. Attended'
    <2> SUFFICES ASSUME NEW b \in Appends, Busy(b), NEW f \in active[b]
                 PROVE  pc'[f] \in {"await", "cancelled", "drain"}
      BY DEF Attended, Busy
    <2>1. pc[f] \in {"await", "cancelled", "drain"} /\ f \in Appends
      BY DEF Attended, OrdinaryTypeOK
    <2>2. f = e => l \in {"await", "cancelled", "drain"}
      OBVIOUS
    <2> QED BY <1>2, <2>1, <2>2
  <1>4. Announced'
    BY <1>2 DEF Announced, OrdinaryTypeOK
  <1> QED BY <1>1, <1>3, <1>4, <1>5

\* Who has a receipt, or has looked and is not there, is in no batch.
LEMMA SettledIsOut ==
  ASSUME OrdinaryInv, NEW e \in Appends,
         receipt[e] # "open" \/ e \notin active[joined[e]]
  PROVE  \A b \in Appends : e \notin active[b]
  BY DEF OrdinaryInv, Membership

LEMMA ReceiveStep ==
  ASSUME OrdinaryInv, NEW e \in Appends, Receive(e)
  PROVE  OrdinaryInv'
  <1>1. OrdinaryTypeOK'
    BY DEF Receive, OrdinaryInv, OrdinaryTypeOK, Locations, bursts, request, entry, server
  <1>2. "release" \in Locations \ {"new"} /\ pc[e] # "new"
    BY DEF Receive, Locations
  <1> QED BY <1>1, <1>2, SettledIsOut, CallStep DEF Receive, bursts, entry

LEMMA DrainStep ==
  ASSUME OrdinaryInv, NEW e \in Appends, Drain(e)
  PROVE  OrdinaryInv'
  <1>1. OrdinaryTypeOK'
    BY DEF Drain, OrdinaryInv, OrdinaryTypeOK, Locations, bursts, request, entry, server
  <1>2. "release" \in Locations \ {"new"} /\ pc[e] # "new"
    BY DEF Drain, Locations
  <1> QED BY <1>1, <1>2, SettledIsOut, CallStep DEF Drain, bursts, entry

LEMMA InterruptStep ==
  ASSUME OrdinaryInv, NEW e \in Appends, Interrupt(e)
  PROVE  OrdinaryInv'
  <1>1. OrdinaryTypeOK'
    BY DEF Interrupt, OrdinaryInv, OrdinaryTypeOK, Locations, bursts, request, server
  <1>2. "cancelled" \in Locations \ {"new"} /\ pc[e] # "new"
    BY DEF Interrupt, Locations
  <1>3. cancelled'[e] /\ \A f \in Appends : cancelled[f] => cancelled'[f]
    BY DEF Interrupt, OrdinaryInv, OrdinaryTypeOK
  <1> QED BY <1>1, <1>2, <1>3, CallStep DEF Interrupt, bursts

LEMMA LookActiveStep ==
  ASSUME OrdinaryInv, NEW e \in Appends, LookActive(e)
  PROVE  OrdinaryInv'
  <1>1. OrdinaryTypeOK'
    BY DEF LookActive, OrdinaryInv, OrdinaryTypeOK, Locations, bursts, request, server
  <1>2. pc[e] = "cancelled" /\ UNCHANGED <<current, active, buffer, loop, joined, receipt, cancelled>>
    BY DEF LookActive, bursts
  <1>3. receipt[e] = "open" => cancelled'[e]
    BY <1>2 DEF OrdinaryInv, Announced
  <1>4. CASE e \in active[joined[e]]
    <2>1. pc' = [pc EXCEPT ![e] = "drain"] /\ "drain" \in Locations \ {"new"}
      BY <1>4 DEF LookActive, Locations
    <2> QED BY <1>1, <1>2, <1>3, <2>1, CallStep
  <1>5. CASE e \notin active[joined[e]]
    <2>1. pc' = [pc EXCEPT ![e] = "release"] /\ "release" \in Locations \ {"new"}
      BY <1>5 DEF LookActive, Locations
    <2> QED BY <1>1, <1>2, <1>3, <1>5, <2>1, SettledIsOut, CallStep
  <1> QED BY <1>4, <1>5

(* The lease that is given back was counted.                                *)
LEMMA ReleaseStep ==
  ASSUME OrdinaryInv, Counted, NEW e \in Appends, Release(e)
  PROVE  OrdinaryInv'
  <1> DEFINE b == joined[e]
             l == IF LastLease(b) /\ ~closing[b] THEN "closing" ELSE "done"
  <1>1. /\ pc[e] = "release" /\ pc' = [pc EXCEPT ![e] = l]
        /\ leases' = [leases EXCEPT ![b] = @ - 1]
        /\ closing' = [closing EXCEPT ![b] = @ \/ LastLease(b)]
        /\ UNCHANGED <<current, active, buffer, loop, net, attempts, joined, group, cancelled,
                       owner, receipt, result, log, strays, faults>>
    BY DEF Release, request, entry, server
  <1>2. l \in Locations \ {"new"} /\ b \in Appends
    BY <1>1 DEF Locations, OrdinaryInv, Kept
  <1>3. leases[b] \in Nat /\ leases[b] # 0
    <2>1. e \in Holders(b) /\ Holders(b) \subseteq Appends
      BY <1>1 DEF Holders
    <2>2. IsFiniteSet(Appends)
      BY OrdinaryAssumption, FS_Interval DEF Appends
    <2>3. IsFiniteSet(Holders(b)) /\ Holders(b) # {}
      BY <2>1, <2>2, FS_Subset
    <2>4. Cardinality(Holders(b)) # 0
      BY <2>3, FS_EmptySet
    <2> QED BY <1>2, <2>4 DEF Counted, OrdinaryInv, OrdinaryTypeOK
  <1> HIDE DEF l, b
  <1>4. OrdinaryTypeOK'
    <2>1. leases' \in [Appends -> Nat] /\ pc' \in [Appends -> Locations]
      BY <1>1, <1>2, <1>3 DEF OrdinaryInv, OrdinaryTypeOK
    <2>2. closing' \in [Appends -> BOOLEAN]
      BY <1>1, <1>2 DEF OrdinaryInv, OrdinaryTypeOK, LastLease
    <2> QED BY <1>1, <2>1, <2>2 DEF OrdinaryInv, OrdinaryTypeOK
  <1>5. \A c \in Appends : Busy(c) => e \notin active[c]
    BY <1>1 DEF OrdinaryInv, Attended
  <1>6. receipt[e] = "open" => cancelled'[e]
    BY <1>1 DEF OrdinaryInv, Announced
  <1> QED BY <1>1, <1>2, <1>4, <1>5, <1>6, CallStep

LEMMA ClosedStep ==
  ASSUME OrdinaryInv, NEW e \in Appends, Closed(e)
  PROVE  OrdinaryInv'
  <1>1. /\ pc[e] = "closing" /\ pc' = [pc EXCEPT ![e] = "done"]
        /\ UNCHANGED <<current, active, buffer, leases, loop, closing, net, attempts, joined,
                       group, cancelled, owner, receipt, result, log, strays, faults>>
    BY DEF Closed, bursts, request, entry, server
  <1>2. OrdinaryTypeOK'
    BY <1>1 DEF OrdinaryInv, OrdinaryTypeOK, Locations
  <1>3. \A c \in Appends : Busy(c) => e \notin active[c]
    BY <1>1 DEF OrdinaryInv, Attended
  <1>4. (receipt[e] = "open" => cancelled'[e]) /\ "done" \in Locations \ {"new"}
    BY <1>1 DEF OrdinaryInv, Announced, Locations
  <1> QED BY <1>1, <1>2, <1>3, <1>4, CallStep

(* The server and the network change neither bursts nor calls.              *)
LEMMA OutsideStep ==
  ASSUME OrdinaryInv,
         \/ \E b \in Appends : Serve(b) \/ Fault(b)
         \/ ServeStray
         \/ UNCHANGED vars
  PROVE  OrdinaryInv'
  <1>1. UNCHANGED <<current, active, buffer, leases, loop, closing, pc, joined, group, cancelled,
                    owner, receipt, result>>
    BY DEF Serve, Fault, ServeStray, vars, bursts, entry
  <1>2. OrdinaryTypeOK'
    <2>1. CASE \E b \in Appends : Serve(b)
      <3>1. PICK b \in Appends : Serve(b)
        BY <2>1
      <3>2. net' \in [Appends -> {"none", "sent", "retryable"} \cup Outcomes]
        BY <3>1 DEF Serve, OrdinaryInv, OrdinaryTypeOK, Outcomes
      <3>3. log' \in Seq(SUBSET Appends)
        BY <3>1 DEF Serve, OrdinaryInv, OrdinaryTypeOK
      <3> QED BY <1>1, <3>1, <3>2, <3>3 DEF Serve, OrdinaryInv, OrdinaryTypeOK
    <2>2. CASE \E b \in Appends : Fault(b)
      <3>1. PICK b \in Appends : Fault(b)
        BY <2>2
      <3>2. net' \in [Appends -> {"none", "sent", "retryable"} \cup Outcomes]
        BY <3>1 DEF Fault, OrdinaryInv, OrdinaryTypeOK, Outcomes
      <3>3. strays' \subseteq [batch : SUBSET Appends, try : Nat]
        BY <3>1, AbandonedType DEF Fault, OrdinaryInv, OrdinaryTypeOK
      <3>4. faults' \in Nat /\ attempts' = attempts /\ log' = log
        BY <3>1 DEF Fault, OrdinaryInv, OrdinaryTypeOK
      <3> QED BY <1>1, <3>2, <3>3, <3>4 DEF OrdinaryInv, OrdinaryTypeOK
    <2>3. CASE ServeStray
      <3>1. PICK r \in strays : strays' = strays \ {r} /\ log' = Append(log, r.batch)
        BY <2>3 DEF ServeStray
      <3>2. r.batch \in SUBSET Appends
        BY DEF OrdinaryInv, OrdinaryTypeOK
      <3>3. log' \in Seq(SUBSET Appends)
        BY <3>1, <3>2 DEF OrdinaryInv, OrdinaryTypeOK
      <3> QED BY <1>1, <2>3, <3>1, <3>3 DEF ServeStray, request, OrdinaryInv, OrdinaryTypeOK
    <2>4. CASE UNCHANGED vars
      BY <2>4 DEF vars, bursts, request, entry, server, OrdinaryInv, OrdinaryTypeOK
    <2> QED BY <2>1, <2>2, <2>3, <2>4
  <1>3. CurrentLives' /\ Membership' /\ Separate' /\ Kept' /\ Emptied' /\ Attended'
        /\ Announced' /\ Fresh'
    BY <1>1 DEF OrdinaryInv, CurrentLives, Membership, Separate, Kept, Emptied, Attended,
                Announced, Fresh, Live, Busy
  <1> QED BY <1>2, <1>3 DEF OrdinaryInv

-----------------------------------------------------------------------------
(* The leases of a burst are the appends that have not given theirs back. *)

LEMMA HoldersFinite == \A b : IsFiniteSet(Holders(b))
  <1>1. IsFiniteSet(Appends)
    BY OrdinaryAssumption, FS_Interval DEF Appends
  <1>2. \A b : Holders(b) \in SUBSET Appends
    BY DEF Holders
  <1> QED BY <1>1, <1>2, FS_Subset

\* A step that leaves the leases alone and moves a call, if any, between
\* locations at which it holds its lease, or between those at which it does not.
LEMMA SameHolders ==
  ASSUME Counted, UNCHANGED <<leases, joined>>,
         \A e \in Appends : pc'[e] \notin {"new", "closing", "done"}
                              <=> pc[e] \notin {"new", "closing", "done"}
  PROVE  Counted'
  <1>1. \A b : Holders(b)' = Holders(b)
    BY DEF Holders
  <1> QED BY <1>1 DEF Counted

LEMMA JoinCounted ==
  ASSUME OrdinaryInv, Counted, Founded, NEW e \in Appends, Join(e)
  PROVE  Counted'
  <1>0. OrdinaryTypeOK /\ 0 \notin Appends
    BY DEF OrdinaryInv, Appends
  <1>1. PICK b \in Appends : b = IF current = 0 THEN e ELSE current
    BY <1>0, OrdinaryAssumption DEF OrdinaryTypeOK, Appends
  <1>2. pc[e] = "new" /\ pc' = [pc EXCEPT ![e] = "await"] /\ joined' = [joined EXCEPT ![e] = b]
    BY <1>1 DEF Join
  <1>3. e \notin Holders(b) /\ Holders(b)' = Holders(b) \cup {e}
    BY <1>0, <1>2 DEF Holders, OrdinaryTypeOK
  <1>4. Cardinality(Holders(b)') = Cardinality(Holders(b)) + 1
    BY <1>3, HoldersFinite, FS_AddElement
  <1>5. \A c \in Appends : c # b => Holders(c)' = Holders(c)
    BY <1>0, <1>2 DEF Holders, OrdinaryTypeOK
  <1>6. leases' = [leases EXCEPT ![b] = leases[b] + 1]
    <2>1. CASE current = 0
      <3>1. Holders(e) = {}
        BY <1>0, <1>2 DEF Holders, Founded
      <3>2. leases[e] = 0
        BY <3>1, FS_EmptySet DEF Counted
      <3> QED BY <1>1, <2>1, <3>2 DEF Join, StartLeases
    <2>2. CASE current # 0
      BY <1>1, <2>2 DEF Join
    <2> QED BY <2>1, <2>2
  <1> QED
    <2>1. leases'[b] = Cardinality(Holders(b)')
      BY <1>0, <1>4, <1>6 DEF Counted, OrdinaryTypeOK
    <2>2. \A c \in Appends : c # b => leases'[c] = Cardinality(Holders(c)')
      BY <1>0, <1>5, <1>6 DEF Counted, OrdinaryTypeOK
    <2> QED BY <2>1, <2>2 DEF Counted

LEMMA ReleaseCounted ==
  ASSUME OrdinaryInv, Counted, NEW e \in Appends, Release(e)
  PROVE  Counted'
  <1> DEFINE b == joined[e]
  <1>1. /\ pc[e] = "release" /\ leases' = [leases EXCEPT ![b] = @ - 1] /\ joined' = joined
        /\ \E l \in {"closing", "done"} : pc' = [pc EXCEPT ![e] = l]
    BY DEF Release, entry
  <1>2. OrdinaryTypeOK /\ b \in Appends
    BY <1>1 DEF OrdinaryInv, Kept
  <1>3. e \in Holders(b) /\ Holders(b)' = Holders(b) \ {e}
    BY <1>1, <1>2 DEF Holders, OrdinaryTypeOK
  <1>4. Cardinality(Holders(b)') = Cardinality(Holders(b)) - 1
    BY <1>3, HoldersFinite, FS_RemoveElement
  <1>5. \A c \in Appends : c # b => Holders(c)' = Holders(c)
    BY <1>1, <1>2 DEF Holders, OrdinaryTypeOK
  <1>6. \A c \in Appends : c # b => leases'[c] = Cardinality(Holders(c)')
    BY <1>1, <1>2, <1>5 DEF Counted, OrdinaryTypeOK
  <1>7. leases'[b] = Cardinality(Holders(b)')
    BY <1>1, <1>2, <1>4 DEF Counted, OrdinaryTypeOK
  <1> QED BY <1>1, <1>6, <1>7 DEF Counted

(* The invariant of the calls and their bursts together.                    *)
LeaseInv == OrdinaryInv /\ Counted /\ Founded

LEMMA LeaseInit == Init => LeaseInv
  <1> SUFFICES ASSUME Init PROVE LeaseInv
    OBVIOUS
  <1>1. \A b \in Appends : Holders(b) = {}
    BY DEF Init, Holders
  <1>2. Counted
    BY <1>1, FS_EmptySet DEF Init, Counted
  <1>3. Founded
    BY DEF Init, Founded
  <1> QED BY <1>2, <1>3, InitInv DEF LeaseInv

LEMMA LoopStep ==
  ASSUME LeaseInv, NEW b \in Appends, Loop(b)
  PROVE  LeaseInv'
  <1>1. OrdinaryInv'
    BY DispatchStep, AnsweredStep, RetryStep, CancelWinsStep, CleanedUpStep, StopStep, StopEndStep
       DEF Loop, LeaseInv
  <1>2. UNCHANGED <<leases, joined, pc>>
    BY DEF Loop, Dispatch, Answered, Retry, CancelWins, CleanedUp, Stop, StopEnd, entry
  <1>3. current' \in {current, 0}
    BY DEF Loop, Dispatch, Answered, Retry, CancelWins, CleanedUp, Stop, StopEnd, Settle, Vacated
  <1>4. Counted'
    BY <1>2, SameHolders DEF LeaseInv
  <1>5. Founded'
    BY <1>2, <1>3 DEF LeaseInv, Founded
  <1> QED BY <1>1, <1>4, <1>5 DEF LeaseInv

\* Appends keep having joined.
LEMMA FoundedStep ==
  ASSUME Founded, OrdinaryInv, UNCHANGED <<current, joined>>,
         \A e \in Appends : pc'[e] = "new" <=> pc[e] = "new"
  PROVE  Founded'
  <1>1. \A e \in Appends : pc[e] # "new" => joined[e] \in Appends
    BY DEF OrdinaryInv, Kept
  <1>2. current # 0 => current \in Appends
    BY OrdinaryAssumption DEF OrdinaryInv, OrdinaryTypeOK, Appends
  <1>3. \A e \in Appends : pc'[e] # "new" => pc'[joined[e]] # "new"
    BY <1>1 DEF Founded
  <1>4. current # 0 => pc'[current] # "new"
    BY <1>2 DEF Founded
  <1> QED BY <1>3, <1>4 DEF Founded

LEMMA CallerStep ==
  ASSUME LeaseInv, NEW e \in Appends, Join(e) \/ Interrupt(e) \/ Call(e)
  PROVE  LeaseInv'
  <1>0. OrdinaryInv /\ Counted /\ Founded /\ OrdinaryTypeOK
    BY DEF LeaseInv, OrdinaryInv
  <1>1. CASE Join(e)
    <2>1. pc' = [pc EXCEPT ![e] = "await"] /\ pc[e] = "new"
      BY <1>1 DEF Join
    <2>2. \E b \in {current, e} : joined' = [joined EXCEPT ![e] = b] /\ current' = b
                                 /\ pc'[b] # "new"
      BY <1>0, <1>1, <2>1 DEF Join, Founded, OrdinaryTypeOK
    <2>3. Founded'
      BY <1>0, <2>1, <2>2 DEF Founded, OrdinaryTypeOK, OrdinaryInv, Kept
    <2> QED BY <1>0, <1>1, <2>3, JoinStep, JoinCounted DEF LeaseInv
  <1>2. CASE Receive(e) \/ Interrupt(e) \/ LookActive(e) \/ Drain(e)
    <2>1. \E l \in {"release", "cancelled", "drain"} : pc' = [pc EXCEPT ![e] = l]
      BY <1>2 DEF Receive, Interrupt, LookActive, Drain
    <2>2. pc[e] \notin {"new", "closing", "done"} /\ UNCHANGED <<current, leases, joined>>
      BY <1>2 DEF Receive, Interrupt, LookActive, Drain, bursts, entry
    <2>3. Counted'
      BY <1>0, <2>1, <2>2, SameHolders DEF OrdinaryTypeOK
    <2>4. Founded'
      BY <1>0, <2>1, <2>2, FoundedStep DEF OrdinaryTypeOK
    <2>5. OrdinaryInv'
      BY <1>0, <1>2, ReceiveStep, InterruptStep, LookActiveStep, DrainStep
    <2> QED BY <2>3, <2>4, <2>5 DEF LeaseInv
  <1>3. CASE Release(e)
    <2>1. /\ pc[e] = "release" /\ UNCHANGED <<current, joined>>
          /\ \E l \in {"closing", "done"} : pc' = [pc EXCEPT ![e] = l]
      BY <1>3 DEF Release, entry
    <2>2. Founded'
      BY <1>0, <2>1, FoundedStep DEF OrdinaryTypeOK
    <2> QED BY <1>0, <1>3, <2>2, ReleaseStep, ReleaseCounted DEF LeaseInv
  <1>4. CASE Closed(e)
    <2>1. /\ pc[e] = "closing" /\ pc' = [pc EXCEPT ![e] = "done"]
          /\ UNCHANGED <<current, leases, joined>>
      BY <1>4 DEF Closed, bursts, entry
    <2>2. Counted' /\ Founded'
      BY <1>0, <2>1, SameHolders, FoundedStep DEF OrdinaryTypeOK
    <2> QED BY <1>0, <1>4, <2>2, ClosedStep DEF LeaseInv
  <1> QED BY <1>1, <1>2, <1>3, <1>4 DEF Call

LEMMA NextInv == LeaseInv /\ [Next]_vars => LeaseInv'
  <1> SUFFICES ASSUME LeaseInv, [Next]_vars PROVE LeaseInv'
    OBVIOUS
  <1>1. CASE \E b \in Appends : Loop(b)
    BY <1>1, LoopStep
  <1>2. CASE \E e \in Appends : Join(e) \/ Interrupt(e) \/ Call(e)
    BY <1>2, CallerStep
  <1>3. CASE \/ \E b \in Appends : Serve(b) \/ Fault(b)
             \/ ServeStray
             \/ UNCHANGED vars
    <2>1. UNCHANGED <<current, leases, joined, pc>>
      BY <1>3 DEF Serve, Fault, ServeStray, vars, bursts, entry
    <2>2. Counted' /\ Founded'
      BY <2>1, SameHolders, FoundedStep DEF LeaseInv
    <2> QED BY <1>3, <2>2, OutsideStep DEF LeaseInv
  <1> QED BY <1>1, <1>2, <1>3 DEF Next, Terminated

LEMMA AlwaysInv == Spec => []LeaseInv
  BY LeaseInit, NextInv, PTL DEF Spec

-----------------------------------------------------------------------------
(* Contexts.  An interrupted append loses its context and is compatible     *)
(* with every other, so a batch may mix contexts around it; what keeps such *)
(* a batch from being sent is that it has said it is cancelled.             *)

Shared == \A b \in Appends : \A e \in active[b] : Compatible(e, First(active[b]))
Owned == \A b \in Appends : Busy(b) => \A e \in active[b] : owner[e]
Said == \A e \in Appends : receipt[e] = "open" /\ ~owner[e] => cancelled[e]
ContextInv == Shared /\ Owned /\ Said

(* The first of what is promoted is the first of the buffer.                *)
LEMMA PromotedFirst ==
  ASSUME NEW S \in SUBSET Appends, S # {}
  PROVE  First(Promoted(S)) = First(S)
  <1>1. Promoted(S) # {} /\ Promoted(S) \in SUBSET S /\ Promoted(S) \in SUBSET Appends
    BY PromotedSome
  <1>2. First(S) \in S /\ \A f \in S : First(S) <= f
    BY FirstOfAppends
  <1>3. First(Promoted(S)) \in Promoted(S) /\ \A f \in Promoted(S) : First(Promoted(S)) <= f
    BY <1>1, FirstOfAppends
  <1>4. S \subseteq Nat
    BY OrdinaryAssumption DEF Appends
  <1>5. First(S) \in Promoted(S)
    <2>1. \A m, n \in Nat : m <= n /\ n <= m => m = n
      OBVIOUS
    <2>2. \A f \in S : f <= First(S) => f = First(S)
      BY <1>2, <1>4, <2>1
    <2> QED BY <1>2, <2>2 DEF Promoted, Compatible
  <1>6. First(S) <= First(Promoted(S)) /\ First(Promoted(S)) <= First(S)
    BY <1>1, <1>2, <1>3, <1>5
  <1>7. First(S) \in Nat /\ First(Promoted(S)) \in Nat
    BY <1>1, <1>2, <1>3, <1>4
  <1> HIDE DEF First
  <1> QED BY <1>6, <1>7

LEMMA SettleContext ==
  ASSUME OrdinaryInv, ContextInv, NEW b \in Appends, Live(b), NEW out \in Outcomes,
         Settle(b, out), UNCHANGED <<group, cancelled>>
  PROVE  ContextInv'
  <1> DEFINE left == buffer[b] \ TakenAlong(b, out)
             next == IF left = {} THEN {} ELSE Promoted(left)
             done == active[b] \cup TakenAlong(b, out)
  <1>0. OrdinaryTypeOK /\ CurrentLives /\ Shared /\ Owned /\ Said
    BY DEF OrdinaryInv, ContextInv
  <1>1. /\ active' = [active EXCEPT ![b] = next]
        /\ loop' = [loop EXCEPT ![b] = IF next = {} THEN "ended" ELSE "ready"]
        /\ receipt' = [e \in Appends |-> IF e \in done /\ receipt[e] = "open" THEN out
                                         ELSE receipt[e]]
        /\ owner' = [e \in Appends |-> owner[e] /\ e \notin done]
    BY DEF Settle, ReceiptsDone
  <1>2. left \in SUBSET Appends
    BY <1>0 DEF OrdinaryTypeOK
  <1> HIDE DEF left, next, done
  <1>3. \A e \in next : Compatible(e, First(next)) /\ next \in SUBSET Appends /\ First(next) \in Appends
    <2> SUFFICES ASSUME NEW e \in next
                 PROVE  Compatible(e, First(next)) /\ next \in SUBSET Appends
                        /\ First(next) \in Appends
      OBVIOUS
    <2>1. left # {} /\ next = Promoted(left)
      BY DEF next
    <2>2. First(next) = First(left) /\ next \in SUBSET left /\ First(left) \in left
      BY <1>2, <2>1, PromotedFirst, PromotedSome, FirstOfAppends
    <2>3. Compatible(First(left), e)
      <3>1. e \in Nat
        BY <1>2, <2>2, OrdinaryAssumption DEF Appends
      <3>2. e <= e
        BY <3>1
      <3> QED BY <2>1, <2>2, <3>2 DEF Promoted
    <2> QED BY <1>2, <2>2, <2>3 DEF Compatible
  <1>5. Shared'
    <2> SUFFICES ASSUME NEW c \in Appends, NEW e \in active'[c]
                 PROVE  Compatible(e, First(active[c]))'
      BY DEF Shared
    <2>1. CASE c = b
      <3>1. active'[c] = next
        BY <1>0, <1>1, <2>1 DEF OrdinaryTypeOK
      <3>2. PICK f \in Appends : f = First(next)
        BY <1>3, <3>1
      <3>3. Compatible(e, f) /\ e \in Appends /\ First(active'[c]) = f
        BY <1>3, <3>1, <3>2
      <3>4. Compatible(e, f)'
        BY <1>1, <3>2, <3>3 DEF Compatible
      <3> QED BY <3>3, <3>4
    <2>2. CASE c # b
      <3>1. active'[c] = active[c] /\ active[c] \in SUBSET Appends
        BY <1>0, <1>1, <2>2 DEF OrdinaryTypeOK
      <3>2. Compatible(e, First(active[c])) /\ e \in Appends
        BY <1>0, <3>1 DEF Shared
      <3>3. First(active[c]) \in Appends
        BY <3>1, FirstOfAppends
      <3> QED BY <1>1, <3>1, <3>2, <3>3 DEF Compatible
    <2> QED BY <2>1, <2>2
  <1>6. Owned'
    BY <1>0, <1>1 DEF Owned, Busy, CurrentLives, Live, OrdinaryTypeOK
  <1>7. Said'
    BY <1>0, <1>1 DEF Said, Outcomes
  <1> QED BY <1>5, <1>6, <1>7 DEF ContextInv

\* Steps that leave the batches and their contexts as they are, and send
\* nothing that has lost its context.
LEMMA ContextKept ==
  ASSUME OrdinaryInv, ContextInv, UNCHANGED <<active, receipt>>,
         \A b \in Appends : \A e \in active[b] : owner'[e] = owner[e] /\ group'[e] = group[e],
         \A b \in Appends : Busy(b)' => Busy(b) \/ \A e \in active[b] : owner[e],
         \A e \in Appends : receipt[e] = "open" /\ ~owner'[e] => cancelled'[e]
  PROVE  ContextInv'
  <1>1. Shared'
    <2> SUFFICES ASSUME NEW b \in Appends, NEW e \in active[b]
                 PROVE  Compatible(e, First(active[b]))'
      BY DEF Shared
    <2>1. First(active[b]) \in active[b] /\ active'[b] = active[b]
      BY FirstOfAppends DEF OrdinaryInv, OrdinaryTypeOK
    <2>2. Compatible(e, First(active[b]))
      BY DEF ContextInv, Shared
    <2> QED BY <2>1, <2>2 DEF Compatible
  <1>2. Owned'
    BY DEF ContextInv, Owned
  <1>3. Said'
    BY DEF Said
  <1> QED BY <1>1, <1>2, <1>3 DEF ContextInv

LEMMA ContextStep ==
  ASSUME LeaseInv, ContextInv, [Next]_vars
  PROVE  ContextInv'
  <1>0. /\ OrdinaryInv /\ OrdinaryTypeOK /\ Membership /\ Announced
        /\ Shared /\ Owned /\ Said
    BY DEF LeaseInv, OrdinaryInv, ContextInv
  <1>1. ASSUME NEW b \in Appends, Loop(b) PROVE ContextInv'
    <2>1. CASE \E out \in Outcomes : Settle(b, out) /\ Live(b) /\ UNCHANGED <<group, cancelled>>
      BY <1>0, <2>1, SettleContext DEF ContextInv
    <2>2. CASE Dispatch(b) /\ Sendable(b)
      <3>1. loop' = [loop EXCEPT ![b] = "send"]
            /\ UNCHANGED <<active, receipt, owner, group, cancelled>>
        BY <2>2 DEF Dispatch
      <3>2. \A e \in active[b] : owner[e]
        BY <1>0, <2>2 DEF Sendable, Membership, Said, OrdinaryTypeOK
      <3>3. \A c \in Appends : Busy(c)' => Busy(c) \/ \A e \in active[c] : owner[e]
        BY <1>0, <3>1, <3>2 DEF Busy, OrdinaryTypeOK
      <3> QED BY <1>0, <3>1, <3>3, ContextKept DEF ContextInv, Said
    <2>3. CASE /\ \A c \in Appends : Busy(c)' => Busy(c)
               /\ UNCHANGED <<active, receipt, owner, group, cancelled>>
      BY <1>0, <2>3, ContextKept DEF ContextInv, Said
    <2>4. CASE StopEnd(b)
      <3>1. /\ active' = [active EXCEPT ![b] = {}] /\ loop' = [loop EXCEPT ![b] = "ended"]
            /\ UNCHANGED <<group, cancelled>>
            /\ receipt' = [e \in Appends |->
                             IF e \in active[b] \cup buffer[b] /\ receipt[e] = "open"
                             THEN "unknown" ELSE receipt[e]]
            /\ owner' = [e \in Appends |-> owner[e] /\ e \notin active[b] \cup buffer[b]]
        BY <2>4 DEF StopEnd, ReceiptsDone, Remaining
      <3>2. Said'
        BY <1>0, <3>1 DEF Said
      <3>3. \A c \in Appends : Busy(c)' => Busy(c) /\ c # b
        BY <1>0, <3>1 DEF Busy, OrdinaryTypeOK
      <3>4. Owned'
        <4> SUFFICES ASSUME NEW c \in Appends, Busy(c), c # b, NEW e \in active[c],
                            active'[c] = active[c]
                     PROVE  owner'[e]
          BY <1>0, <3>1, <3>3 DEF Owned, OrdinaryTypeOK
        <4>1. owner[e] /\ e \in Appends /\ joined[e] = c
          BY <1>0 DEF Owned, Membership, OrdinaryTypeOK
        <4>2. e \notin active[b] \cup buffer[b]
          BY <1>0, <4>1 DEF Membership
        <4> QED BY <3>1, <4>1, <4>2
      <3>5. Shared'
        <4> SUFFICES ASSUME NEW c \in Appends, c # b, NEW e \in active[c],
                            active'[c] = active[c]
                     PROVE  Compatible(e, First(active[c]))'
          BY <1>0, <3>1 DEF Shared, OrdinaryTypeOK
        <4>1. PICK f \in Appends : f = First(active[c])
          BY <1>0, FirstOfAppends DEF OrdinaryTypeOK
        <4>2. e \in Appends /\ Compatible(e, f)
          BY <1>0, <4>1 DEF Shared, OrdinaryTypeOK
        <4>3. Compatible(e, f)'
          BY <3>1, <4>1, <4>2 DEF Compatible
        <4> QED BY <4>1, <4>3
      <3> QED BY <3>2, <3>4, <3>5 DEF ContextInv
    <2> QED
      <3>1. CASE Dispatch(b)
        BY <2>1, <2>2, <3>1 DEF Dispatch, Live, Outcomes
      <3>2. CASE Answered(b)
        <4>1. net[b] \in Outcomes /\ Live(b) /\ Settle(b, net[b]) /\ UNCHANGED <<group, cancelled>>
          BY <3>2 DEF Answered, Live, Outcomes
        <4> QED BY <2>1, <4>1
      <3>3. CASE Retry(b) \/ CleanedUp(b)
        <4>1. CASE Settle(b, "unknown")
          BY <2>1, <3>3, <4>1 DEF Retry, CleanedUp, Live, Outcomes
        <4>2. CASE ~Settle(b, "unknown")
          BY <2>3, <3>3, <4>2 DEF Retry, CleanedUp, Busy
        <4> QED BY <4>1, <4>2
      <3>4. CASE CancelWins(b) \/ Stop(b)
        BY <1>0, <2>3, <3>4 DEF CancelWins, Stop, Busy, entry, OrdinaryTypeOK
      <3> QED BY <1>1, <2>4, <3>1, <3>2, <3>3, <3>4 DEF Loop
  <1>2. ASSUME NEW e \in Appends, Join(e) PROVE ContextInv'
    <2>1. /\ pc[e] = "new" /\ UNCHANGED <<cancelled, owner, receipt>>
          /\ \E g \in Groups : group' = [group EXCEPT ![e] = g]
      BY <1>2 DEF Join
    <2>2. \A b \in Appends : e \notin active[b]
      BY <1>0, <2>1 DEF Membership
    <2>3. Said'
      BY <1>0, <2>1 DEF Said
    <2>4. \A b \in Appends : \/ active'[b] = active[b] /\ (Busy(b)' <=> Busy(b))
                             \/ active'[b] = {e} /\ ~Busy(b)'
      <3>1. CASE current = 0
        <4>1. active' = [active EXCEPT ![e] = {e}] /\ loop' = [loop EXCEPT ![e] = "ready"]
          BY <1>2, <3>1 DEF Join
        <4> QED BY <1>0, <4>1 DEF Busy, OrdinaryTypeOK
      <3>2. CASE current # 0
        <4>1. UNCHANGED <<active, loop>>
          BY <1>2, <3>2 DEF Join
        <4> QED BY <4>1 DEF Busy
      <3> QED BY <3>1, <3>2
    <2>5. Owned'
      BY <1>0, <2>1, <2>4 DEF Owned
    <2>6. Shared'
      <3> SUFFICES ASSUME NEW b \in Appends, NEW f \in active'[b]
                   PROVE  Compatible(f, First(active[b]))'
        BY DEF Shared
      <3>1. CASE active'[b] = active[b]
        <4>1. PICK d \in active[b] : d = First(active[b])
          BY <1>0, <3>1, FirstOfAppends DEF OrdinaryTypeOK
        <4>2. Compatible(f, d) /\ f \in active[b] /\ active[b] \in SUBSET Appends
          BY <1>0, <3>1, <4>1 DEF Shared, OrdinaryTypeOK
        <4>3. group'[f] = group[f] /\ group'[d] = group[d]
          BY <1>0, <2>1, <2>2, <4>2 DEF OrdinaryTypeOK
        <4>4. Compatible(f, d)'
          BY <2>1, <4>2, <4>3 DEF Compatible
        <4> QED BY <3>1, <4>1, <4>4
      <3>2. CASE active'[b] = {e}
        <4>1. First({e}) = e
          BY FirstOfAppends
        <4> QED BY <3>2, <4>1 DEF Compatible
      <3> QED BY <2>4, <3>1, <3>2
    <2> QED BY <2>3, <2>5, <2>6 DEF ContextInv
  <1>3. ASSUME NEW e \in Appends, LookActive(e) PROVE ContextInv'
    <2>1. UNCHANGED <<active, receipt, loop, group, cancelled, joined>> /\ pc[e] = "cancelled"
          /\ \/ owner' = owner
             \/ owner' = [owner EXCEPT ![e] = FALSE] /\ e \notin active[joined[e]]
      BY <1>3 DEF LookActive, bursts, request
    <2>2. \A b \in Appends : \A f \in active[b] : owner'[f] = owner[f]
      BY <1>0, <2>1 DEF Membership, OrdinaryTypeOK
    <2>3. receipt[e] = "open" => cancelled[e]
      BY <1>0, <2>1 DEF Announced
    <2>4. \A f \in Appends : receipt[f] = "open" /\ ~owner'[f] => cancelled'[f]
      BY <1>0, <2>1, <2>3 DEF Said, OrdinaryTypeOK
    <2> QED BY <1>0, <2>1, <2>2, <2>4, ContextKept DEF ContextInv, Busy
  <1>4. ASSUME NEW e \in Appends, Interrupt(e) PROVE ContextInv'
    <2>1. /\ UNCHANGED <<active, receipt, loop, group, owner>>
          /\ cancelled' = [cancelled EXCEPT ![e] = TRUE]
      BY <1>4 DEF Interrupt, bursts
    <2>2. \A f \in Appends : receipt[f] = "open" /\ ~owner'[f] => cancelled'[f]
      BY <1>0, <2>1 DEF Said, OrdinaryTypeOK
    <2> QED BY <1>0, <2>1, <2>2, ContextKept DEF ContextInv, Busy
  <1>5. CASE UNCHANGED <<active, receipt, loop, group, cancelled, owner>>
    BY <1>0, <1>5, ContextKept DEF ContextInv, Said, Busy
  <1>6. ASSUME NEW b \in Appends, Serve(b) \/ Fault(b) PROVE ContextInv'
    BY <1>5, <1>6 DEF Serve, Fault, bursts, entry
  <1>7. ASSUME NEW e \in Appends, Receive(e) \/ Drain(e) \/ Release(e) \/ Closed(e)
        PROVE  ContextInv'
    BY <1>5, <1>7 DEF Receive, Drain, Release, Closed, bursts, entry
  <1>8. CASE ServeStray \/ UNCHANGED vars
    BY <1>5, <1>8 DEF ServeStray, vars, bursts, entry
  <1> QED BY <1>1, <1>2, <1>3, <1>4, <1>6, <1>7, <1>8 DEF Next, Call, Terminated

LEMMA ContextHolds == Spec => []ContextInv
  <1>1. Init => ContextInv
    BY DEF Init, ContextInv, Shared, Owned, Said, Busy
  <1> QED BY <1>1, ContextStep, AlwaysInv, PTL DEF Spec

-----------------------------------------------------------------------------
(* Order.  A burst settles its members in the order they joined, up to the  *)
(* first failure, which takes everyone behind it along.                     *)

JoinOrder == \A e, f \in Appends : e < f /\ pc[f] # "new" => pc[e] # "new"
Queue == \A b \in Appends : \A e \in active[b], f \in buffer[b] : e < f
\* As long as the fiber lives nobody of its burst has failed.
Unbroken ==
  \A b \in Appends : Live(b) => \A e \in Appends : joined[e] = b => receipt[e] \in {"open", "ok"}
NetSend == \A b \in Appends : net[b] # "none" => loop[b] = "send"

PrefixInv == LeaseInv /\ JoinOrder /\ Queue /\ Unbroken /\ NetSend /\ BurstIsPrefix

LEMMA PrefixFacts ==
  ASSUME PrefixInv
  PROVE  /\ OrdinaryInv /\ OrdinaryTypeOK /\ CurrentLives /\ Membership /\ Separate /\ Kept /\ Emptied
         /\ Fresh /\ Founded /\ Announced /\ JoinOrder /\ Queue /\ Unbroken /\ NetSend /\ BurstIsPrefix
         /\ Appends \subseteq Nat /\ 0 \notin Appends
  BY OrdinaryAssumption DEF PrefixInv, LeaseInv, OrdinaryInv, Appends

\* What settling does, for whoever looks at the batches.
LEMMA SettleShape ==
  ASSUME OrdinaryInv, NEW b \in Appends, NEW out \in Outcomes, Settle(b, out)
  PROVE  \E next, rest, done \in SUBSET Appends :
           /\ next \cup rest \subseteq buffer[b] /\ (next = {} => rest = {})
           /\ \A e \in next, f \in rest : e < f
           /\ done \cap (next \cup rest) = {} /\ active[b] \subseteq done
           /\ done \subseteq active[b] \cup buffer[b]
           /\ active[b] \cup buffer[b] = done \cup next \cup rest
           /\ out = "ok" => done = active[b]
           /\ out # "ok" => next = {} /\ rest = {}
           /\ active' = [active EXCEPT ![b] = next] /\ buffer' = [buffer EXCEPT ![b] = rest]
           /\ loop' = [loop EXCEPT ![b] = IF next = {} THEN "ended" ELSE "ready"]
           /\ net' = [net EXCEPT ![b] = "none"]
           /\ receipt' = [e \in Appends |-> IF e \in done /\ receipt[e] = "open" THEN out
                                            ELSE receipt[e]]
           /\ owner' = [e \in Appends |-> owner[e] /\ e \notin done]
           /\ current' = IF current = b /\ next = {} THEN 0 ELSE current
  <1> DEFINE left == buffer[b] \ TakenAlong(b, out)
             next == IF left = {} THEN {} ELSE Promoted(left)
             done == active[b] \cup TakenAlong(b, out)
             rest == left \ next
  <1>0. /\ active[b] \in SUBSET Appends /\ buffer[b] \in SUBSET Appends
        /\ active[b] \cap buffer[b] = {}
    BY DEF OrdinaryInv, OrdinaryTypeOK, Separate
  <1>1. /\ out = "ok" => left = buffer[b] /\ done = active[b]
        /\ out # "ok" => left = {} /\ done = active[b] \cup buffer[b]
    BY DEF TakenAlong
  <1>2. next \subseteq left /\ (next = {} => left = {})
    BY <1>0, <1>1, PromotedSome
  <1>3. ASSUME NEW e \in next, NEW f \in rest PROVE e < f
    <2>1. left # {} /\ e \in Promoted(left) /\ f \in left /\ f \notin Promoted(left)
      OBVIOUS
    <2>2. ~(f <= e)
      <3> SUFFICES ASSUME f <= e PROVE FALSE
        OBVIOUS
      <3>0. e \in left /\ left \subseteq Nat
        BY <1>0, <1>1, <2>1, OrdinaryAssumption DEF Promoted, Appends
      <3>1. \A g \in left : g <= f => g <= e
        BY <2>1, <3>0
      <3>2. \A g \in left : g <= e => Compatible(First(left), g)
        BY <2>1 DEF Promoted
      <3>3. f \in Promoted(left)
        BY <2>1, <3>1, <3>2 DEF Promoted
      <3> QED BY <2>1, <3>3
    <2>3. e \in Nat /\ f \in Nat
      BY <1>0, <1>1, <2>1, OrdinaryAssumption DEF Promoted, Appends
    <2> HIDE DEF left, next, rest
    <2> QED BY <2>2, <2>3
  <1>4. /\ active' = [active EXCEPT ![b] = next] /\ buffer' = [buffer EXCEPT ![b] = rest]
        /\ loop' = [loop EXCEPT ![b] = IF next = {} THEN "ended" ELSE "ready"]
        /\ net' = [net EXCEPT ![b] = "none"]
        /\ receipt' = [e \in Appends |-> IF e \in done /\ receipt[e] = "open" THEN out
                                         ELSE receipt[e]]
        /\ owner' = [e \in Appends |-> owner[e] /\ e \notin done]
        /\ current' = IF current = b /\ next = {} THEN 0 ELSE current
    BY DEF Settle, ReceiptsDone, Vacated
  <1>5. rest = left \ next
    OBVIOUS
  <1> HIDE DEF left, next, done, rest
  <1>6. /\ next \in SUBSET Appends /\ rest \in SUBSET Appends /\ done \in SUBSET Appends
        /\ next \cup rest \subseteq buffer[b] /\ (next = {} => rest = {})
        /\ done \cap (next \cup rest) = {} /\ active[b] \subseteq done
        /\ done \subseteq active[b] \cup buffer[b]
        /\ active[b] \cup buffer[b] = done \cup next \cup rest
        /\ out = "ok" => done = active[b]
        /\ out # "ok" => next = {} /\ rest = {}
    BY <1>0, <1>1, <1>2, <1>5
  <1> QED BY <1>3, <1>4, <1>6

LEMMA SettlePrefix ==
  ASSUME PrefixInv, NEW b \in Appends, Live(b), NEW out \in Outcomes, Settle(b, out),
         UNCHANGED <<pc, joined>>
  PROVE  JoinOrder' /\ Queue' /\ Unbroken' /\ NetSend' /\ BurstIsPrefix'
  <1>1. PICK next, rest, done \in SUBSET Appends :
           /\ next \cup rest \subseteq buffer[b] /\ (next = {} => rest = {})
           /\ \A e \in next, f \in rest : e < f
           /\ done \cap (next \cup rest) = {} /\ active[b] \subseteq done
           /\ done \subseteq active[b] \cup buffer[b]
           /\ active[b] \cup buffer[b] = done \cup next \cup rest
           /\ out = "ok" => done = active[b]
           /\ out # "ok" => next = {} /\ rest = {}
           /\ active' = [active EXCEPT ![b] = next] /\ buffer' = [buffer EXCEPT ![b] = rest]
           /\ loop' = [loop EXCEPT ![b] = IF next = {} THEN "ended" ELSE "ready"]
           /\ net' = [net EXCEPT ![b] = "none"]
           /\ receipt' = [e \in Appends |-> IF e \in done /\ receipt[e] = "open" THEN out
                                            ELSE receipt[e]]
           /\ owner' = [e \in Appends |-> owner[e] /\ e \notin done]
           /\ current' = IF current = b /\ next = {} THEN 0 ELSE current
    BY PrefixFacts, SettleShape
  <1>0. /\ OrdinaryTypeOK /\ CurrentLives /\ Membership /\ Kept /\ Fresh /\ Emptied /\ JoinOrder
        /\ Queue /\ Unbroken /\ NetSend /\ BurstIsPrefix /\ Appends \subseteq Nat
    BY PrefixFacts
  <1>2. JoinOrder'
    BY <1>0 DEF JoinOrder
  <1>3. Queue'
    BY <1>0, <1>1 DEF Queue, OrdinaryTypeOK
  <1>4. NetSend'
    BY <1>0, <1>1 DEF NetSend, OrdinaryTypeOK
  <1>5. \A e \in done : joined[e] = b /\ receipt[e] = "open"
    BY <1>0, <1>1 DEF Membership
  <1>6. Unbroken'
    <2> SUFFICES ASSUME NEW c \in Appends, Live(c)', NEW e \in Appends, joined[e] = c
                 PROVE  receipt'[e] \in {"open", "ok"}
      BY DEF Unbroken
    <2>1. CASE c = b
      <3>1. next # {} /\ out = "ok"
        BY <1>0, <1>1, <2>1 DEF Live, OrdinaryTypeOK
      <3>2. receipt[e] \in {"open", "ok"}
        BY <1>0, <2>1 DEF Unbroken
      <3> QED BY <1>1, <3>1, <3>2
    <2>2. CASE c # b
      <3>1. Live(c) /\ e \notin done
        BY <1>0, <1>1, <1>5, <2>2 DEF Live, OrdinaryTypeOK
      <3>2. receipt[e] \in {"open", "ok"}
        BY <1>0, <3>1 DEF Unbroken
      <3> QED BY <1>1, <3>1, <3>2
    <2> QED BY <2>1, <2>2
  <1>7. BurstIsPrefix'
    <2> SUFFICES ASSUME NEW e \in Appends, NEW f \in Appends, e < f, joined[e] = joined[f],
                        receipt'[f] = "ok"
                 PROVE  receipt'[e] = "ok"
      BY DEF BurstIsPrefix
    <2>1. CASE receipt[f] = "ok"
      <3>1. receipt[e] = "ok"
        BY <1>0, <2>1 DEF BurstIsPrefix
      <3> QED BY <1>1, <3>1
    <2>2. CASE receipt[f] # "ok"
      <3>1. f \in done /\ out = "ok" /\ f \in active[b] /\ joined[e] = b
        BY <1>1, <1>5, <2>2
      <3>2. pc[f] # "new" /\ pc[e] # "new"
        BY <1>0, <3>1 DEF JoinOrder, Membership
      <3>3. receipt[e] \in {"open", "ok"}
        BY <1>0, <3>1 DEF Unbroken
      <3>4. CASE receipt[e] = "open"
        <4>1. e \in active[b] \cup buffer[b]
          BY <1>0, <3>1, <3>2, <3>4 DEF Kept
        <4>2. e \notin buffer[b]
          <5>1. e \in buffer[b] => f < e
            BY <1>0, <3>1 DEF Queue
          <5>2. e \in Nat /\ f \in Nat
            BY <1>0
          <5> QED BY <5>1, <5>2
        <4> QED BY <1>1, <3>1, <3>4, <4>1, <4>2
      <3> QED BY <1>1, <3>3, <3>4
    <2> QED BY <2>1, <2>2
  <1> QED BY <1>2, <1>3, <1>4, <1>6, <1>7

LEMMA JoinPrefix ==
  ASSUME PrefixInv, NEW e \in Appends, Join(e)
  PROVE  JoinOrder' /\ Queue' /\ Unbroken' /\ NetSend' /\ BurstIsPrefix'
  <1>0. /\ OrdinaryTypeOK /\ CurrentLives /\ Membership /\ Kept /\ Fresh /\ Emptied /\ JoinOrder
        /\ Queue /\ Unbroken /\ NetSend /\ BurstIsPrefix /\ Appends \subseteq Nat /\ Founded
        /\ 0 \notin Appends
    BY PrefixFacts
  <1>1. PICK b \in Appends : b = IF current = 0 THEN e ELSE current
    BY <1>0, OrdinaryAssumption DEF OrdinaryTypeOK, Appends
  <1>2. /\ pc[e] = "new" /\ pc' = [pc EXCEPT ![e] = "await"] /\ joined' = [joined EXCEPT ![e] = b]
        /\ \A f \in Appends : f < e => pc[f] # "new"
        /\ UNCHANGED <<net, receipt>> /\ receipt[e] = "open"
    BY <1>0, <1>1, OrdinaryAssumption DEF Join, request, Appends, Fresh
  <1>3. JoinOrder'
    <2> SUFFICES ASSUME NEW f \in Appends, NEW g \in Appends, f < g, pc'[g] # "new"
                 PROVE  pc'[f] # "new"
      BY DEF JoinOrder
    <2>1. CASE g = e
      BY <1>0, <1>2, <2>1 DEF OrdinaryTypeOK
    <2>2. CASE g # e
      BY <1>0, <1>2, <2>2 DEF JoinOrder, OrdinaryTypeOK
    <2> QED BY <2>1, <2>2
  <1>4. \A c \in Appends : \A f \in active[c] \cup buffer[c] : f < e
    <2> SUFFICES ASSUME NEW c \in Appends, NEW f \in active[c] \cup buffer[c] PROVE f < e
      OBVIOUS
    <2>1. pc[f] # "new" /\ f \in Appends
      BY <1>0 DEF Membership, OrdinaryTypeOK
    <2>2. ~(e < f) /\ f # e /\ e \in Nat /\ f \in Nat
      BY <1>0, <1>2, <2>1 DEF JoinOrder
    <2> QED BY <2>2
  <1>5. Queue'
    <2>1. CASE current = 0
      <3>1. active' = [active EXCEPT ![e] = {e}] /\ buffer' = buffer
        BY <1>2, <2>1 DEF Join
      <3>2. buffer[e] = {}
        BY <1>0, <2>1 DEF CurrentLives, Emptied
      <3> QED BY <1>0, <3>1, <3>2 DEF Queue, OrdinaryTypeOK
    <2>2. CASE current # 0
      <3>1. buffer' = [buffer EXCEPT ![b] = @ \cup {e}] /\ active' = active
        BY <1>1, <2>2 DEF Join
      <3>2. \A c \in Appends : buffer'[c] = buffer[c] \/ (c = b /\ buffer'[c] = buffer[c] \cup {e})
        BY <1>0, <3>1 DEF OrdinaryTypeOK
      <3>3. ASSUME NEW c \in Appends, NEW f \in active[c], NEW g \in buffer'[c] PROVE f < g
        <4>1. CASE g \in buffer[c]
          BY <1>0, <3>3, <4>1 DEF Queue
        <4>2. CASE g = e
          BY <1>4, <3>3, <4>2
        <4> QED BY <3>2, <3>3, <4>1, <4>2
      <3> QED BY <3>1, <3>3 DEF Queue
    <2> QED BY <2>1, <2>2
  <1>6. \A c \in Appends : Live(c)' => Live(c) \/ (c = e /\ b = e)
    <2>1. CASE current = 0
      BY <1>0, <1>1, <2>1 DEF Join, Live, OrdinaryTypeOK
    <2>2. CASE current # 0
      BY <2>2 DEF Join, Live
    <2> QED BY <2>1, <2>2
  <1>7. Unbroken'
    <2> SUFFICES ASSUME NEW c \in Appends, Live(c)', NEW f \in Appends, joined'[f] = c
                 PROVE  receipt[f] \in {"open", "ok"}
      BY <1>2 DEF Unbroken
    <2>1. CASE f = e
      BY <1>2, <2>1
    <2>2. CASE f # e
      <3>1. joined[f] = c
        BY <1>0, <1>2, <2>2 DEF OrdinaryTypeOK
      <3>2. CASE Live(c)
        BY <1>0, <3>1, <3>2 DEF Unbroken
      <3>3. CASE c = e
        <4>1. pc[f] = "new"
          BY <1>0, <1>2, <3>1, <3>3 DEF Founded
        <4> QED BY <1>0, <4>1 DEF Fresh
      <3> QED BY <1>6, <3>2, <3>3
    <2> QED BY <2>1, <2>2
  <1>8. NetSend'
    <2>1. CASE current = 0
      <3>1. \A c \in Appends : loop[c] # "send" /\ net[c] = "none"
        BY <1>0, <2>1 DEF CurrentLives, Live, NetSend
      <3> QED BY <1>2, <3>1 DEF NetSend
    <2>2. CASE current # 0
      BY <1>0, <1>2, <2>2 DEF Join, NetSend
    <2> QED BY <2>1, <2>2
  <1>9. BurstIsPrefix'
    <2> SUFFICES ASSUME NEW f \in Appends, NEW g \in Appends, f < g, joined'[f] = joined'[g],
                        receipt[g] = "ok"
                 PROVE  receipt[f] = "ok"
      BY <1>2 DEF BurstIsPrefix
    <2>1. g # e /\ pc[g] # "new"
      BY <1>0, <1>2 DEF Fresh
    <2>2. f # e
      BY <1>0, <1>2, <2>1 DEF JoinOrder
    <2>3. joined[f] = joined[g]
      BY <1>0, <1>2, <2>1, <2>2 DEF OrdinaryTypeOK
    <2> QED BY <1>0, <2>3 DEF BurstIsPrefix
  <1> QED BY <1>3, <1>5, <1>7, <1>8, <1>9

\* Steps that settle nothing and let nobody join.
LEMMA PrefixKept ==
  ASSUME PrefixInv, UNCHANGED <<active, buffer, joined, receipt>>,
         \A e \in Appends : pc'[e] = "new" <=> pc[e] = "new",
         \A b \in Appends : Live(b)' => Live(b),
         NetSend'
  PROVE  JoinOrder' /\ Queue' /\ Unbroken' /\ NetSend' /\ BurstIsPrefix'
  <1>0. JoinOrder /\ Queue /\ Unbroken /\ BurstIsPrefix
    BY PrefixFacts
  <1> QED BY <1>0 DEF JoinOrder, Queue, Unbroken, BurstIsPrefix

\* A step of a fiber settles, or keeps its batches.
LEMMA LoopKinds ==
  ASSUME OrdinaryTypeOK, NEW b \in Appends, Loop(b)
  PROVE  /\ UNCHANGED <<leases, closing, pc, joined, group, cancelled, result, log, faults>>
         /\ Live(b)
         /\ \/ \E out \in Outcomes :
                 /\ Settle(b, out) /\ UNCHANGED strays
                 /\ \/ out = "unknown" /\ loop[b] = "ready" /\ ~Sendable(b)
                    \/ out = net[b] /\ loop[b] = "send"
                    \/ out = "unknown" /\ loop[b] = "send" /\ net[b] = "retryable"
                    \/ out = "unknown" /\ loop[b] = "cleanup"
            \/ /\ UNCHANGED <<current, active, buffer, owner, receipt>>
               /\ \/ /\ loop[b] = "ready" /\ Sendable(b) /\ loop' = [loop EXCEPT ![b] = "send"]
                     /\ net' = [net EXCEPT ![b] = "sent"] /\ UNCHANGED strays
                  \/ /\ loop[b] = "send" /\ net[b] = "retryable" /\ loop' = loop
                     /\ net' = [net EXCEPT ![b] = "sent"] /\ UNCHANGED strays
                  \/ /\ strays' = Abandoned(b) /\ net' = [net EXCEPT ![b] = "none"]
                     /\ \/ /\ loop[b] = "send" /\ (\E e \in active[b] : cancelled[e])
                           /\ loop' = [loop EXCEPT ![b] = "cleanup"]
                        \/ closing[b] /\ loop' = [loop EXCEPT ![b] = "stopping"]
            \/ StopEnd(b)
  <1>1. UNCHANGED <<leases, closing, pc, joined, group, cancelled, result, log, faults>>
    BY DEF Loop, Dispatch, Answered, Retry, CancelWins, CleanedUp, Stop, StopEnd, server, entry
  <1>2. Live(b)
    BY DEF Loop, Dispatch, Answered, Retry, CancelWins, CleanedUp, Stop, StopEnd, Live
  <1>3. CASE Dispatch(b)
    <2>1. loop[b] = "ready" /\ UNCHANGED strays /\ "unknown" \in Outcomes
      BY <1>3 DEF Dispatch, Outcomes, server
    <2>2. CASE Sendable(b)
      BY <1>1, <1>2, <1>3, <2>1, <2>2 DEF Dispatch
    <2>3. CASE ~Sendable(b)
      <3>1. Settle(b, "unknown")
        BY <1>3, <2>3 DEF Dispatch
      <3> QED BY <1>1, <1>2, <2>1, <2>3, <3>1
    <2> QED BY <2>2, <2>3
  <1>4. CASE Answered(b)
    <2>1. net[b] \in Outcomes /\ Settle(b, net[b]) /\ UNCHANGED strays /\ loop[b] = "send"
      BY <1>4 DEF Answered, Outcomes, server
    <2> QED BY <1>1, <1>2, <2>1
  <1>5. CASE Retry(b)
    BY <1>1, <1>2, <1>5 DEF Retry, Outcomes, server
  <1>6. CASE CleanedUp(b)
    BY <1>1, <1>2, <1>6 DEF CleanedUp, Outcomes, server
  <1>7. CASE CancelWins(b)
    BY <1>1, <1>2, <1>7 DEF CancelWins, entry
  <1>8. CASE Stop(b)
    BY <1>1, <1>2, <1>8 DEF Stop, entry
  <1>9. CASE StopEnd(b)
    BY <1>1, <1>2, <1>9
  <1> QED BY <1>3, <1>4, <1>5, <1>6, <1>7, <1>8, <1>9 DEF Loop

LEMMA StopEndShape ==
  ASSUME OrdinaryInv, NEW b \in Appends, StopEnd(b)
  PROVE  /\ loop[b] = "stopping" /\ loop' = [loop EXCEPT ![b] = "ended"]
         /\ active' = [active EXCEPT ![b] = {}] /\ buffer' = [buffer EXCEPT ![b] = {}]
         /\ receipt' = [e \in Appends |-> IF e \in active[b] \cup buffer[b] /\ receipt[e] = "open"
                                          THEN "unknown" ELSE receipt[e]]
         /\ owner' = [e \in Appends |-> owner[e] /\ e \notin active[b] \cup buffer[b]]
         /\ UNCHANGED <<net, strays>>
  BY DEF StopEnd, ReceiptsDone, Remaining, request, server

LEMMA PrefixStep ==
  ASSUME PrefixInv, [Next]_vars
  PROVE  PrefixInv'
  <1> DEFINE Goal == JoinOrder' /\ Queue' /\ Unbroken' /\ NetSend' /\ BurstIsPrefix'
  <1> SUFFICES Goal
    BY NextInv DEF PrefixInv
  <1>0. /\ OrdinaryInv /\ OrdinaryTypeOK /\ CurrentLives /\ Membership /\ Kept /\ Fresh /\ Emptied
        /\ JoinOrder /\ Queue /\ Unbroken /\ NetSend /\ BurstIsPrefix /\ Appends \subseteq Nat
    BY PrefixFacts
  <1> HIDE DEF Goal
  <1>1. CASE /\ UNCHANGED <<active, buffer, joined, receipt>> /\ NetSend'
             /\ \A e \in Appends : pc'[e] = "new" <=> pc[e] = "new"
             /\ \A b \in Appends : Live(b)' => Live(b)
    BY <1>1, PrefixKept DEF Goal
  <1>2. ASSUME NEW b \in Appends, StopEnd(b), UNCHANGED <<pc, joined>> PROVE Goal
    <2>1. /\ loop[b] = "stopping" /\ loop' = [loop EXCEPT ![b] = "ended"]
          /\ active' = [active EXCEPT ![b] = {}] /\ buffer' = [buffer EXCEPT ![b] = {}]
          /\ receipt' = [e \in Appends |-> IF e \in active[b] \cup buffer[b] /\ receipt[e] = "open"
                                           THEN "unknown" ELSE receipt[e]]
          /\ UNCHANGED net
      BY <1>0, <1>2, StopEndShape
    <2>2. JoinOrder' /\ Queue' /\ NetSend'
      BY <1>0, <1>2, <2>1 DEF JoinOrder, Queue, NetSend, OrdinaryTypeOK
    <2>3. \A e \in active[b] \cup buffer[b] : joined[e] = b /\ receipt[e] = "open"
      BY <1>0 DEF Membership
    <2>4. \A c \in Appends : Live(c)' => Live(c) /\ c # b
      BY <1>0, <2>1 DEF Live, OrdinaryTypeOK
    <2>5. Unbroken'
      BY <1>0, <1>2, <2>1, <2>3, <2>4 DEF Unbroken
    <2>6. BurstIsPrefix'
      BY <1>0, <1>2, <2>1 DEF BurstIsPrefix
    <2> QED BY <2>2, <2>5, <2>6 DEF Goal
  <1>3. ASSUME NEW b \in Appends, Loop(b) PROVE Goal
    <2>1. UNCHANGED <<pc, joined>> /\ Live(b)
      BY <1>0, <1>3, LoopKinds
    <2>2. CASE \E out \in Outcomes : Settle(b, out)
      <3>1. PICK out \in Outcomes : Settle(b, out)
        BY <2>2
      <3> QED BY <2>1, <3>1, SettlePrefix DEF Goal
    <2>3. CASE StopEnd(b)
      BY <1>2, <2>1, <2>3
    <2>4. ASSUME UNCHANGED <<current, active, buffer, owner, receipt>>,
                 NEW l \in {"send", "cleanup", "stopping"},
                 loop' = [loop EXCEPT ![b] = l] \/ (l = "send" /\ loop[b] = "send" /\ loop' = loop),
                 \/ net' = [net EXCEPT ![b] = "none"]
                 \/ net' = [net EXCEPT ![b] = "sent"] /\ l = "send"
          PROVE  Goal
      <3>1. NetSend'
        BY <1>0, <2>4 DEF NetSend, OrdinaryTypeOK
      <3>2. \A c \in Appends : Live(c)' => Live(c)
        BY <1>0, <2>1, <2>4 DEF Live, OrdinaryTypeOK
      <3> QED BY <1>1, <2>1, <2>4, <3>1, <3>2
    <2>5. \/ \E out \in Outcomes : Settle(b, out)
          \/ StopEnd(b)
          \/ /\ UNCHANGED <<current, active, buffer, owner, receipt>>
             /\ \E l \in {"send", "cleanup", "stopping"} :
                  /\ loop' = [loop EXCEPT ![b] = l] \/ (l = "send" /\ loop[b] = "send" /\ loop' = loop)
                  /\ \/ net' = [net EXCEPT ![b] = "none"]
                     \/ net' = [net EXCEPT ![b] = "sent"] /\ l = "send"
      BY <1>0, <1>3, LoopKinds
    <2> QED BY <2>2, <2>3, <2>4, <2>5
  <1>4. ASSUME NEW e \in Appends, Join(e) PROVE Goal
    BY <1>4, JoinPrefix DEF Goal
  <1>5. ASSUME NEW e \in Appends, Interrupt(e) \/ Call(e) PROVE Goal
    <2>1. /\ UNCHANGED <<active, buffer, loop, net, joined, receipt>> /\ pc[e] # "new"
          /\ \E l \in Locations \ {"new"} : pc' = [pc EXCEPT ![e] = l]
      BY <1>5 DEF Interrupt, Call, Receive, LookActive, Drain, Release, Closed, bursts, request,
                  entry, Locations
    <2>2. \A f \in Appends : pc'[f] = "new" <=> pc[f] = "new"
      BY <1>0, <2>1 DEF OrdinaryTypeOK
    <2>3. NetSend' /\ \A b \in Appends : Live(b)' => Live(b)
      BY <1>0, <2>1 DEF NetSend, Live
    <2> QED BY <1>1, <2>1, <2>2, <2>3
  <1>6. ASSUME NEW b \in Appends, Serve(b) \/ Fault(b) PROVE Goal
    <2>1. /\ UNCHANGED <<active, buffer, loop, pc, joined, receipt>>
          /\ net[b] # "none" /\ \E n : net' = [net EXCEPT ![b] = n]
      BY <1>6 DEF Serve, Fault, bursts, entry
    <2>2. NetSend'
      BY <1>0, <2>1 DEF NetSend, OrdinaryTypeOK
    <2> QED BY <1>1, <2>1, <2>2 DEF Live
  <1>7. CASE ServeStray \/ UNCHANGED vars
    <2>1. UNCHANGED <<active, buffer, loop, net, pc, joined, receipt>>
      BY <1>7 DEF ServeStray, vars, bursts, request, entry
    <2> QED BY <1>0, <1>1, <2>1 DEF NetSend, Live
  <1> QED BY <1>3, <1>4, <1>5, <1>6, <1>7 DEF Next, Terminated

LEMMA PrefixHolds == Spec => []PrefixInv
  <1>1. Init => PrefixInv
    <2>1. Init => JoinOrder /\ Queue /\ Unbroken /\ NetSend /\ BurstIsPrefix
      BY DEF Init, JoinOrder, Queue, Unbroken, NetSend, BurstIsPrefix, Live
    <2> QED BY <2>1, LeaseInit DEF PrefixInv
  <1> QED BY <1>1, PrefixStep, PTL DEF Spec

-----------------------------------------------------------------------------
(* What is stored.  A batch only reaches the server when everything that    *)
(* joined before it is in it or has its outcome.                            *)

Stored(e) == \E i \in 1..Len(log) : e \in log[i]
StoredOnes ==
  /\ \A e \in Appends : receipt[e] = "ok" => Stored(e)
  /\ \A b \in Appends : net[b] = "ok" => \A e \in active[b] : Stored(e)
Ahead(X) == \A e \in X : \A f \in Appends : f < e => f \in X \/ receipt[f] # "open"
StraysAhead == \A r \in strays : Ahead(r.batch)
\* What joined before a stored append has failed, or was stored no later.
LogOrder ==
  \A i \in 1..Len(log) : \A e \in log[i], f \in Appends :
     f < e => receipt[f] \in {"unknown", "rejected"} \/ \E j \in 1..i : f \in log[j]

StoreInv == StoredOnes /\ StraysAhead /\ LogOrder

LEMMA ActiveAhead ==
  ASSUME PrefixInv, NEW b \in Appends, Live(b)
  PROVE  Ahead(active[b]) /\ active[b] \in SUBSET Appends
  <1>0. /\ OrdinaryTypeOK /\ CurrentLives /\ Membership /\ Kept /\ Emptied /\ JoinOrder /\ Queue
        /\ Appends \subseteq Nat
    BY PrefixFacts
  <1>1. active[b] \in SUBSET Appends
    BY <1>0 DEF OrdinaryTypeOK
  <1>2. ASSUME NEW e \in active[b], NEW f \in Appends, f < e, receipt[f] = "open"
        PROVE  f \in active[b]
    <2>1. pc[f] # "new"
      BY <1>0, <1>1, <1>2 DEF JoinOrder, Membership
    <2>2. joined[f] \in Appends /\ f \in active[joined[f]] \cup buffer[joined[f]]
      BY <1>0, <1>2, <2>1 DEF Kept
    <2>3. joined[f] = b
      <3>1. Live(joined[f])
        BY <1>0, <2>2 DEF Emptied
      <3> QED BY <1>0, <2>2, <3>1 DEF CurrentLives
    <2>4. f \notin buffer[b]
      <3>1. f \in buffer[b] => e < f
        BY <1>0, <1>2 DEF Queue
      <3>2. e \in Nat /\ f \in Nat
        BY <1>0, <1>1, <1>2
      <3> QED BY <1>2, <3>1, <3>2
    <2> QED BY <2>2, <2>3, <2>4
  <1> QED BY <1>1, <1>2 DEF Ahead

\* A step stores one such batch, or none, and reopens no receipt.
LEMMA StoreGrows ==
  ASSUME OrdinaryTypeOK, StoreInv, NEW X \in SUBSET Appends, Ahead(X),
         log' = log \/ log' = Append(log, X),
         \A e \in Appends : receipt[e] # "open" => receipt'[e] = receipt[e],
         \A r \in strays' : r \in strays \/ r.batch = X,
         \A e \in Appends : receipt'[e] = "ok" => receipt[e] = "ok" \/ Stored(e),
         \A b \in Appends : net'[b] = "ok" =>
            \/ net[b] = "ok" /\ active'[b] = active[b]
            \/ active'[b] = X /\ log' = Append(log, X)
  PROVE  StoreInv'
  <1>1. log \in Seq(SUBSET Appends) /\ receipt \in [Appends -> Outcomes \cup {"open"}]
    BY DEF OrdinaryTypeOK
  <1>2. /\ Len(log) \in Nat
        /\ \/ Len(log') = Len(log) /\ log' = log
           \/ Len(log') = Len(log) + 1 /\ log'[Len(log) + 1] = X /\ log' = Append(log, X)
        /\ \A i \in 1..Len(log) : log'[i] = log[i] /\ i \in 1..Len(log')
    BY <1>1
  <1>3. \A e : Stored(e) => Stored(e)'
    BY <1>2 DEF Stored
  <1>4. log' = Append(log, X) => \A e \in X : Stored(e)'
    <2> SUFFICES ASSUME log' = Append(log, X), NEW e \in X PROVE Stored(e)'
      OBVIOUS
    <2>1. Len(log') = Len(log) + 1 /\ log'[Len(log) + 1] = X /\ Len(log) \in Nat
      BY <1>1
    <2>2. Len(log) + 1 \in 1..Len(log')
      BY <2>1
    <2> QED BY <2>1, <2>2 DEF Stored
  <1>5. StoredOnes'
    BY <1>3, <1>4 DEF StoreInv, StoredOnes
  <1>6. \A Y : Ahead(Y) => Ahead(Y)'
    BY DEF Ahead
  <1>7. StraysAhead'
    BY <1>6 DEF StoreInv, StraysAhead
  <1>8. LogOrder'
    <2> SUFFICES ASSUME NEW i \in 1..Len(log'), NEW e \in log'[i], NEW f \in Appends, f < e
                 PROVE  receipt'[f] \in {"unknown", "rejected"} \/ \E j \in 1..i : f \in log'[j]
      BY DEF LogOrder
    <2>1. CASE i \in 1..Len(log)
      <3>1. e \in log[i]
        BY <1>2, <2>1
      <3>2. receipt[f] \in {"unknown", "rejected"} \/ \E j \in 1..i : f \in log[j]
        BY <2>1, <3>1 DEF StoreInv, LogOrder
      <3>3. \A j \in 1..i : j \in 1..Len(log)
        BY <1>2, <2>1
      <3> QED BY <1>2, <3>2, <3>3
    <2>2. CASE i \notin 1..Len(log)
      <3>1. i = Len(log) + 1 /\ log'[i] = X
        BY <1>2, <2>2
      <3>2. CASE f \in X
        <4>1. i \in 1..i
          BY <1>2, <3>1
        <4> QED BY <3>1, <3>2, <4>1
      <3>3. CASE receipt[f] \in {"unknown", "rejected"}
        BY <3>3
      <3>4. CASE receipt[f] = "ok"
        <4>1. PICK j \in 1..Len(log) : f \in log[j]
          BY <3>4 DEF StoreInv, StoredOnes, Stored
        <4>2. j \in 1..i /\ log'[j] = log[j]
          BY <1>2, <3>1
        <4> QED BY <4>1, <4>2
      <3> QED BY <1>1, <3>1, <3>2, <3>3, <3>4 DEF Ahead, Outcomes
    <2> QED BY <2>1, <2>2
  <1> QED BY <1>5, <1>7, <1>8 DEF StoreInv

LEMMA StoreStep ==
  ASSUME PrefixInv, StoreInv, [Next]_vars
  PROVE  StoreInv'
  <1>0. /\ OrdinaryInv /\ OrdinaryTypeOK /\ CurrentLives /\ Membership /\ Kept /\ Fresh /\ Emptied
        /\ NetSend /\ StoredOnes /\ StraysAhead /\ 0 \notin Appends
    BY PrefixFacts DEF StoreInv
  <1>e. Ahead({}) /\ {} \in SUBSET Appends
    BY DEF Ahead
  <1>1. CASE /\ UNCHANGED <<active, receipt, log>>
             /\ \A r \in strays' : r \in strays
             /\ \A b \in Appends : net'[b] = "ok" => net[b] = "ok"
    BY <1>0, <1>1, <1>e, StoreGrows
  <1>2. ASSUME NEW b \in Appends, Loop(b) PROVE StoreInv'
    <2>1. UNCHANGED <<log>> /\ Live(b)
      BY <1>0, <1>2, LoopKinds
    <2>2. Ahead(active[b]) /\ active[b] \in SUBSET Appends
      BY <2>1, ActiveAhead
    <2>3. ASSUME NEW out \in Outcomes, Settle(b, out), UNCHANGED strays, out = "ok" => net[b] = "ok"
          PROVE  StoreInv'
      <3> DEFINE done == active[b] \cup TakenAlong(b, out)
                 next == IF buffer[b] \ TakenAlong(b, out) = {} THEN {}
                         ELSE Promoted(buffer[b] \ TakenAlong(b, out))
      <3>1. /\ out = "ok" => done = active[b]
            /\ active' = [active EXCEPT ![b] = next]
            /\ net' = [net EXCEPT ![b] = "none"]
            /\ receipt' = [e \in Appends |-> IF e \in done /\ receipt[e] = "open" THEN out
                                             ELSE receipt[e]]
        BY <2>3 DEF Settle, ReceiptsDone, TakenAlong
      <3> HIDE DEF done, next
      <3>2. \A e \in Appends : receipt'[e] = "ok" => receipt[e] = "ok" \/ Stored(e)
        BY <1>0, <2>3, <3>1 DEF StoredOnes
      <3>3. \A c \in Appends : net'[c] = "ok" => net[c] = "ok" /\ active'[c] = active[c]
        BY <1>0, <3>1 DEF OrdinaryTypeOK
      <3>4. \A e \in Appends : receipt[e] # "open" => receipt'[e] = receipt[e]
        BY <3>1
      <3> QED BY <1>0, <1>e, <2>1, <2>3, <3>2, <3>3, <3>4, StoreGrows
    <2>4. CASE StopEnd(b)
      <3>1. /\ active' = [active EXCEPT ![b] = {}] /\ loop[b] = "stopping"
            /\ receipt' = [e \in Appends |->
                             IF e \in active[b] \cup buffer[b] /\ receipt[e] = "open"
                             THEN "unknown" ELSE receipt[e]]
            /\ UNCHANGED <<net, strays>>
        BY <1>0, <2>4, StopEndShape
      <3>2. \A c \in Appends : net'[c] = "ok" => net[c] = "ok" /\ active'[c] = active[c]
        BY <1>0, <3>1 DEF OrdinaryTypeOK, NetSend
      <3>3. \A e \in Appends : /\ receipt[e] # "open" => receipt'[e] = receipt[e]
                               /\ receipt'[e] = "ok" => receipt[e] = "ok"
        BY <3>1
      <3> QED BY <1>0, <1>e, <2>1, <3>1, <3>2, <3>3, StoreGrows
    <2>5. ASSUME UNCHANGED <<active, receipt>>, strays' = strays \/ strays' = Abandoned(b),
                 NEW n \in {"none", "sent"}, net' = [net EXCEPT ![b] = n]
          PROVE  StoreInv'
      <3>1. \A c \in Appends : net'[c] = "ok" => net[c] = "ok" /\ active'[c] = active[c]
        BY <1>0, <2>5 DEF OrdinaryTypeOK
      <3>2. \A r \in strays' : r \in strays \/ r.batch = active[b]
        BY <2>5 DEF Abandoned
      <3> QED BY <1>0, <2>1, <2>2, <2>5, <3>1, <3>2, StoreGrows
    <2>6. \/ \E out \in Outcomes : Settle(b, out) /\ UNCHANGED strays /\ (out = "ok" => net[b] = "ok")
          \/ StopEnd(b)
          \/ /\ UNCHANGED <<active, receipt>> /\ (strays' = strays \/ strays' = Abandoned(b))
             /\ \E n \in {"none", "sent"} : net' = [net EXCEPT ![b] = n]
      BY <1>0, <1>2, LoopKinds
    <2> QED BY <2>3, <2>4, <2>5, <2>6
  <1>3. ASSUME NEW e \in Appends, Join(e) PROVE StoreInv'
    <2>1. UNCHANGED <<receipt, log, strays, net>>
      BY <1>3 DEF Join, request, server
    <2>2. \A c \in Appends : net'[c] = "ok" => net[c] = "ok" /\ active'[c] = active[c]
      <3>1. CASE current = 0
        BY <1>0, <2>1, <3>1 DEF NetSend, CurrentLives, Live
      <3>2. CASE current # 0
        BY <1>3, <2>1, <3>2 DEF Join
      <3> QED BY <3>1, <3>2
    <2> QED BY <1>0, <1>e, <2>1, <2>2, StoreGrows
  <1>4. ASSUME NEW e \in Appends, Interrupt(e) \/ Call(e) PROVE StoreInv'
    <2>1. UNCHANGED <<active, receipt, log, strays, net>>
      BY <1>4 DEF Interrupt, Call, Receive, LookActive, Drain, Release, Closed, bursts, request,
                  entry, server
    <2> QED BY <1>1, <2>1
  <1>5. ASSUME NEW b \in Appends, Serve(b) \/ Fault(b) PROVE StoreInv'
    <2>1. Live(b) /\ UNCHANGED <<active, receipt>> /\ net[b] # "none"
      BY <1>0, <1>5 DEF Serve, Fault, NetSend, Live, bursts, entry
    <2>2. Ahead(active[b]) /\ active[b] \in SUBSET Appends
      BY <2>1, ActiveAhead
    <2>3. CASE Serve(b)
      <3>1. /\ log' = Append(log, active[b]) /\ strays' = strays
            /\ net' = [net EXCEPT ![b] = "ok"]
        BY <2>3 DEF Serve
      <3>2. \A c \in Appends : net'[c] = "ok" => net[c] = "ok" \/ c = b
        BY <1>0, <3>1 DEF OrdinaryTypeOK
      <3> QED BY <1>0, <2>1, <2>2, <3>1, <3>2, StoreGrows
    <2>4. CASE Fault(b)
      <3>1. /\ log' = log /\ (strays' = strays \/ strays' = Abandoned(b))
            /\ \E n \in {"retryable", "rejected"} : net' = [net EXCEPT ![b] = n]
        BY <2>4 DEF Fault
      <3>2. \A c \in Appends : net'[c] = "ok" => net[c] = "ok"
        BY <1>0, <3>1 DEF OrdinaryTypeOK
      <3>3. \A r \in strays' : r \in strays \/ r.batch = active[b]
        BY <3>1 DEF Abandoned
      <3> QED BY <1>0, <2>1, <2>2, <3>1, <3>2, <3>3, StoreGrows
    <2> QED BY <1>5, <2>3, <2>4
  <1>6. CASE ServeStray
    <2>1. PICK r \in strays : strays' = strays \ {r} /\ log' = Append(log, r.batch)
      BY <1>6 DEF ServeStray
    <2>2. UNCHANGED <<active, receipt, net>>
      BY <1>6 DEF ServeStray, bursts, request, entry
    <2>3. r.batch \in SUBSET Appends /\ Ahead(r.batch)
      BY <1>0 DEF OrdinaryTypeOK, StraysAhead
    <2> QED BY <1>0, <2>1, <2>2, <2>3, StoreGrows
  <1>7. CASE UNCHANGED vars
    BY <1>1, <1>7 DEF vars, bursts, request, entry, server
  <1> QED BY <1>2, <1>3, <1>4, <1>5, <1>6, <1>7 DEF Next, Terminated

LEMMA StoreHolds == Spec => []StoreInv
  <1>1. Init => StoreInv
    BY DEF Init, StoreInv, StoredOnes, StraysAhead, LogOrder, Ahead
  <1> QED BY <1>1, StoreStep, PrefixHolds, PTL DEF Spec

-----------------------------------------------------------------------------
(* Overlap.  As long as no request fails, an append that is waiting to be   *)
(* sent has not left a trace at the server or on the wire, and as long as   *)
(* nobody is interrupted either no burst is closed while its fiber lives.   *)

Unsent(e) == (\A i \in 1..Len(log) : e \notin log[i]) /\ (\A r \in strays : e \notin r.batch)
Waiting(b) == buffer[b] \cup (IF loop[b] = "ready" \/ net[b] = "sent" THEN active[b] ELSE {})
Traces ==
  /\ \A i, j \in 1..Len(log) : i # j => log[i] \cap log[j] = {}
  /\ \A r, s \in strays : r # s => r.batch \cap s.batch = {}
  /\ \A r \in strays : \A i \in 1..Len(log) : r.batch \cap log[i] = {}
OnceInv ==
  /\ \A b \in Appends : net[b] \in {"none", "sent", "ok"}
  /\ \A e \in Appends : pc[e] = "new" => Unsent(e)
  /\ \A b \in Appends : \A e \in Waiting(b) : Unsent(e)
  /\ Traces
Undisturbed ==
  /\ \A e \in Appends : receipt[e] \in {"open", "ok"}
  /\ \A b \in Appends : (closing[b] => ~Live(b)) /\ loop[b] \notin {"cleanup", "stopping"}
Filled == \A b \in Appends : loop[b] \in {"ready", "send"} => active[b] # {}
ClosedOnes == \A b \in Appends : closing[b] => pc[b] # "new"

HarmInv ==
  /\ PrefixInv /\ ContextInv /\ Filled /\ ClosedOnes
  /\ faults = 0 => OnceInv
  /\ faults = 0 /\ (\A e \in Appends : ~cancelled[e]) => Undisturbed

LEMMA TracesMove ==
  ASSUME OnceInv, UNCHANGED <<log, strays>>,
         \A b \in Appends : net'[b] \in {"none", "sent", "ok"},
         \A e \in Appends : pc'[e] = "new" => pc[e] = "new",
         \A b \in Appends : \A e \in Waiting(b)' :
            (\E c \in Appends : e \in Waiting(c)) \/ (e \in Appends /\ pc[e] = "new")
  PROVE  OnceInv'
  <1>1. \A e : Unsent(e)' <=> Unsent(e)
    BY DEF Unsent
  <1>2. Traces'
    BY DEF OnceInv, Traces
  <1> QED BY <1>1, <1>2 DEF OnceInv

\* A batch that is new to the server goes to its log, or is left on the wire.
LEMMA TracesGrow ==
  ASSUME OrdinaryTypeOK, OnceInv, NEW r \in [batch : SUBSET Appends, try : Nat],
         \A e \in r.batch : Unsent(e),
         \/ strays' = strays /\ log' = Append(log, r.batch)
         \/ strays' = strays \cup {r} /\ log' = log,
         \A b \in Appends : net'[b] \in {"none", "sent", "ok"},
         \A e \in Appends : pc'[e] = "new" => pc[e] = "new" /\ e \notin r.batch,
         \A b \in Appends : \A e \in Waiting(b)' : e \in Waiting(b) /\ e \notin r.batch
  PROVE  OnceInv'
  <1>1. /\ Len(log) \in Nat
        /\ \/ Len(log') = Len(log) /\ log' = log
           \/ Len(log') = Len(log) + 1 /\ log'[Len(log) + 1] = r.batch
        /\ \A i \in 1..Len(log) : log'[i] = log[i] /\ i \in 1..Len(log')
    <2>1. log \in Seq(SUBSET Appends) /\ r.batch \in SUBSET Appends
      BY DEF OrdinaryTypeOK
    <2>2. CASE log' = log
      BY <2>1, <2>2
    <2>3. CASE log' = Append(log, r.batch)
      BY <2>1, <2>3
    <2> QED BY <2>2, <2>3
  <1>2. \A i \in 1..Len(log') : \/ i \in 1..Len(log) /\ log'[i] = log[i]
                                \/ strays' = strays /\ i = Len(log) + 1 /\ log'[i] = r.batch
    BY <1>1
  <1>3. \A e : Unsent(e) /\ e \notin r.batch => Unsent(e)'
    BY <1>2 DEF Unsent
  <1>4. Traces'
    <2>0. Traces
      BY DEF OnceInv
    <2>1. ASSUME NEW i \in 1..Len(log'), NEW j \in 1..Len(log'), i # j
          PROVE  log'[i] \cap log'[j] = {}
      BY <1>2, <2>0, <2>1 DEF Traces, Unsent
    <2>2. ASSUME NEW q \in strays', NEW s \in strays', q # s PROVE q.batch \cap s.batch = {}
      BY <2>0, <2>2 DEF Traces, Unsent
    <2>3. ASSUME NEW q \in strays', NEW i \in 1..Len(log') PROVE q.batch \cap log'[i] = {}
      <3>1. CASE q \in strays /\ i \in 1..Len(log) /\ log'[i] = log[i]
        BY <2>0, <3>1 DEF Traces
      <3>2. CASE q \in strays /\ log'[i] = r.batch
        BY <3>2 DEF Unsent
      <3>3. CASE q = r /\ i \in 1..Len(log) /\ log'[i] = log[i]
        BY <3>3 DEF Unsent
      <3>4. CASE q \notin strays
        <4>1. q = r /\ log' = log
          BY <3>4
        <4> QED BY <1>1, <3>3, <4>1
      <3> QED BY <1>2, <3>1, <3>2, <3>4
    <2> QED BY <2>1, <2>2, <2>3 DEF Traces
  <1> QED BY <1>3, <1>4 DEF OnceInv

LEMMA OnceStep ==
  ASSUME PrefixInv, OnceInv, [Next]_vars, faults = 0, faults' = 0
  PROVE  OnceInv'
  <1>0. /\ OrdinaryInv /\ OrdinaryTypeOK /\ CurrentLives /\ Membership /\ Separate /\ Emptied
        /\ NetSend /\ 0 \notin Appends
        /\ \A b \in Appends : net[b] \in {"none", "sent", "ok"}
    BY PrefixFacts DEF OnceInv
  <1>1. CASE /\ UNCHANGED <<log, strays, active, buffer, net, loop>>
             /\ \A e \in Appends : pc'[e] = "new" => pc[e] = "new"
    BY <1>0, <1>1, TracesMove DEF Waiting
  <1>2. ASSUME NEW b \in Appends, Loop(b) PROVE OnceInv'
    <2>1. UNCHANGED <<pc, log>> /\ Live(b)
      BY <1>0, <1>2, LoopKinds
    <2>2. ASSUME NEW out \in Outcomes, Settle(b, out), UNCHANGED strays PROVE OnceInv'
      <3>1. PICK next \in SUBSET Appends, rest \in SUBSET Appends :
              /\ next \cup rest \subseteq buffer[b]
              /\ active' = [active EXCEPT ![b] = next] /\ buffer' = [buffer EXCEPT ![b] = rest]
              /\ loop' = [loop EXCEPT ![b] = IF next = {} THEN "ended" ELSE "ready"]
              /\ net' = [net EXCEPT ![b] = "none"]
        <4> DEFINE left == buffer[b] \ TakenAlong(b, out)
                   n == IF left = {} THEN {} ELSE Promoted(left)
        <4>1. /\ active' = [active EXCEPT ![b] = n] /\ buffer' = [buffer EXCEPT ![b] = left \ n]
              /\ loop' = [loop EXCEPT ![b] = IF n = {} THEN "ended" ELSE "ready"]
              /\ net' = [net EXCEPT ![b] = "none"]
          BY <2>2 DEF Settle
        <4>2. left \subseteq buffer[b] /\ buffer[b] \in SUBSET Appends /\ n \subseteq left
          BY <1>0, PromotedSome DEF OrdinaryTypeOK
        <4> HIDE DEF left, n
        <4>3. n \in SUBSET Appends /\ left \ n \in SUBSET Appends /\ n \cup (left \ n) \subseteq buffer[b]
          BY <4>2
        <4> QED BY <4>1, <4>3
      <3>2. \A c \in Appends : net'[c] \in {"none", "sent", "ok"}
        BY <1>0, <3>1 DEF OrdinaryTypeOK
      <3>3. \A c \in Appends : \A e \in Waiting(c)' : e \in Waiting(c)
        BY <1>0, <3>1 DEF Waiting, OrdinaryTypeOK
      <3> QED BY <2>1, <2>2, <3>2, <3>3, TracesMove
    <2>3. CASE StopEnd(b)
      <3>1. /\ loop[b] = "stopping" /\ loop' = [loop EXCEPT ![b] = "ended"]
            /\ active' = [active EXCEPT ![b] = {}] /\ buffer' = [buffer EXCEPT ![b] = {}]
            /\ UNCHANGED <<net, strays>>
        BY <1>0, <2>3, StopEndShape
      <3>2. \A c \in Appends : \A e \in Waiting(c)' : e \in Waiting(c)
        BY <1>0, <3>1 DEF Waiting, OrdinaryTypeOK
      <3> QED BY <1>0, <2>1, <3>1, <3>2, TracesMove
    <2>4. CASE /\ loop[b] = "ready" /\ loop' = [loop EXCEPT ![b] = "send"]
               /\ net' = [net EXCEPT ![b] = "sent"] /\ UNCHANGED <<active, buffer, strays>>
      <3>1. \A c \in Appends : \A e \in Waiting(c)' : e \in Waiting(c)
        BY <1>0, <2>4 DEF Waiting, OrdinaryTypeOK
      <3>2. \A c \in Appends : net'[c] \in {"none", "sent", "ok"}
        BY <1>0, <2>4 DEF OrdinaryTypeOK
      <3> QED BY <2>1, <2>4, <3>1, <3>2, TracesMove
    <2>5. ASSUME UNCHANGED <<active, buffer>>, strays' = Abandoned(b),
                 net' = [net EXCEPT ![b] = "none"],
                 NEW l \in {"cleanup", "stopping"}, loop' = [loop EXCEPT ![b] = l]
          PROVE  OnceInv'
      <3>1. \A c \in Appends : net'[c] \in {"none", "sent", "ok"}
        BY <1>0, <2>5 DEF OrdinaryTypeOK
      <3>2. \A c \in Appends : \A e \in Waiting(c)' :
               e \in Waiting(c) /\ (c = b => e \in buffer[b])
        BY <1>0, <2>5 DEF Waiting, OrdinaryTypeOK
      <3>3. CASE net[b] = "sent"
        <4>1. PICK r \in [batch : SUBSET Appends, try : Nat] :
                r = [batch |-> active[b], try |-> attempts[b]]
          BY <1>0 DEF OrdinaryTypeOK
        <4>2. r.batch = active[b] /\ strays' = strays \cup {r}
          BY <2>5, <3>3, <4>1 DEF Abandoned
        <4>3. \A e \in r.batch : Unsent(e)
          BY <3>3, <4>2 DEF OnceInv, Waiting
        <4>4. \A c \in Appends : \A e \in Waiting(c)' : e \notin r.batch
          BY <1>0, <3>2, <4>2 DEF Waiting, Membership, Separate
        <4>5. \A e \in Appends : pc[e] = "new" => e \notin r.batch
          BY <1>0, <4>2 DEF Membership
        <4> QED BY <1>0, <2>1, <3>1, <3>2, <4>2, <4>3, <4>4, <4>5, TracesGrow
      <3>4. CASE net[b] # "sent"
        <4>1. strays' = strays
          BY <2>5, <3>4 DEF Abandoned
        <4> QED BY <2>1, <3>1, <3>2, <4>1, TracesMove
      <3> QED BY <3>3, <3>4
    <2> QED
      <3>1. \/ \E out \in Outcomes : Settle(b, out) /\ UNCHANGED strays
            \/ StopEnd(b)
            \/ /\ UNCHANGED <<active, buffer>>
               /\ \/ /\ loop[b] = "ready" /\ loop' = [loop EXCEPT ![b] = "send"]
                     /\ net' = [net EXCEPT ![b] = "sent"] /\ UNCHANGED strays
                  \/ net[b] = "retryable"
                  \/ /\ strays' = Abandoned(b) /\ net' = [net EXCEPT ![b] = "none"]
                     /\ \E l \in {"cleanup", "stopping"} : loop' = [loop EXCEPT ![b] = l]
        BY <1>0, <1>2, LoopKinds
      <3>2. net[b] # "retryable"
        BY <1>0
      <3> QED BY <2>2, <2>3, <2>4, <2>5, <3>1, <3>2
  <1>3. ASSUME NEW e \in Appends, Join(e) PROVE OnceInv'
    <2>1. UNCHANGED <<log, strays, net>> /\ pc[e] = "new" /\ pc' = [pc EXCEPT ![e] = "await"]
      BY <1>3 DEF Join, request, server
    <2>2. \A c \in Appends : \A f \in Waiting(c)' : f \in Waiting(c) \/ f = e
      <3>1. CASE current = 0
        <4>1. active' = [active EXCEPT ![e] = {e}] /\ buffer' = buffer
              /\ loop' = [loop EXCEPT ![e] = "ready"]
          BY <1>3, <3>1 DEF Join
        <4> QED BY <1>0, <2>1, <4>1 DEF Waiting, OrdinaryTypeOK
      <3>2. CASE current # 0
        <4>1. UNCHANGED <<active, loop>> /\ buffer' = [buffer EXCEPT ![current] = @ \cup {e}]
          BY <1>3, <3>2 DEF Join
        <4>2. \A c \in Appends : \A f \in buffer'[c] : f \in buffer[c] \/ f = e
          BY <1>0, <4>1 DEF OrdinaryTypeOK
        <4> QED BY <2>1, <4>1, <4>2 DEF Waiting
      <3> QED BY <3>1, <3>2
    <2>3. \A f \in Appends : pc'[f] = "new" => pc[f] = "new"
      BY <1>0, <2>1 DEF OrdinaryTypeOK
    <2> QED BY <1>0, <2>1, <2>2, <2>3, TracesMove
  <1>4. ASSUME NEW e \in Appends, Interrupt(e) \/ Call(e) PROVE OnceInv'
    <2>1. /\ UNCHANGED <<active, buffer, loop, net, log, strays>>
          /\ \E l \in Locations \ {"new"} : pc' = [pc EXCEPT ![e] = l]
      BY <1>4 DEF Interrupt, Call, Receive, LookActive, Drain, Release, Closed, bursts, request,
                  entry, server, Locations
    <2>2. \A f \in Appends : pc'[f] = "new" => pc[f] = "new"
      BY <1>0, <2>1 DEF OrdinaryTypeOK
    <2> QED BY <1>1, <2>1, <2>2
  <1>5. ASSUME NEW b \in Appends, Serve(b) PROVE OnceInv'
    <2>1. /\ net[b] = "sent" /\ net' = [net EXCEPT ![b] = "ok"] /\ log' = Append(log, active[b])
          /\ UNCHANGED <<active, buffer, loop, pc, strays>>
      BY <1>5 DEF Serve, bursts
    <2>2. loop[b] = "send"
      BY <1>0, <2>1 DEF NetSend
    <2>3. \A c \in Appends : \A e \in Waiting(c)' : e \in Waiting(c) /\ (c = b => e \in buffer[b])
      BY <1>0, <2>1, <2>2 DEF Waiting, OrdinaryTypeOK
    <2>4. PICK r \in [batch : SUBSET Appends, try : Nat] : r.batch = active[b]
      <3>1. [batch |-> active[b], try |-> attempts[b]] \in [batch : SUBSET Appends, try : Nat]
        BY <1>0 DEF OrdinaryTypeOK
      <3> QED BY <3>1
    <2>5. \A e \in r.batch : Unsent(e)
      BY <2>1, <2>4 DEF OnceInv, Waiting
    <2>6. \A c \in Appends : \A e \in Waiting(c)' : e \notin r.batch
      BY <1>0, <2>3, <2>4 DEF Waiting, Membership, Separate
    <2>7. \A e \in Appends : pc[e] = "new" => e \notin r.batch
      BY <1>0, <2>4 DEF Membership
    <2>8. \A c \in Appends : net'[c] \in {"none", "sent", "ok"}
      BY <1>0, <2>1 DEF OrdinaryTypeOK
    <2> QED BY <1>0, <2>1, <2>3, <2>4, <2>5, <2>6, <2>7, <2>8, TracesGrow
  <1>6. ASSUME NEW b \in Appends, Fault(b) PROVE OnceInv'
    BY <1>6 DEF Fault
  <1>7. CASE ServeStray
    <2>1. PICK r \in strays : strays' = strays \ {r} /\ log' = Append(log, r.batch)
      BY <1>7 DEF ServeStray
    <2>2. UNCHANGED <<active, buffer, loop, net, pc>>
      BY <1>7 DEF ServeStray, bursts, request
    <2>3. /\ Len(log) \in Nat
          /\ \A i \in 1..Len(log') : \/ i \in 1..Len(log) /\ log'[i] = log[i]
                                     \/ i = Len(log) + 1 /\ log'[i] = r.batch
      BY <1>0, <2>1 DEF OrdinaryTypeOK
    <2>4. \A e : Unsent(e) => Unsent(e)'
      BY <2>1, <2>3 DEF Unsent
    <2>5. Traces'
      <3>0. Traces
        BY DEF OnceInv
      <3>1. ASSUME NEW i \in 1..Len(log'), NEW j \in 1..Len(log'), i # j
            PROVE  log'[i] \cap log'[j] = {}
        BY <2>3, <3>0, <3>1 DEF Traces
      <3>2. ASSUME NEW q \in strays', NEW i \in 1..Len(log') PROVE q.batch \cap log'[i] = {}
        BY <2>1, <2>3, <3>0, <3>2 DEF Traces
      <3> QED BY <2>1, <3>0, <3>1, <3>2 DEF Traces
    <2>6. \A c \in Appends : Waiting(c)' = Waiting(c)
      BY <2>2 DEF Waiting
    <2> QED BY <2>2, <2>4, <2>5, <2>6 DEF OnceInv
  <1>8. CASE UNCHANGED vars
    BY <1>1, <1>8 DEF vars, bursts, request, server
  <1> QED BY <1>2, <1>3, <1>4, <1>5, <1>6, <1>7, <1>8 DEF Next, Terminated

LEMMA FilledStep ==
  ASSUME PrefixInv, Filled, ClosedOnes, [Next]_vars
  PROVE  Filled' /\ ClosedOnes'
  <1> DEFINE Goal == Filled' /\ ClosedOnes'
  <1> SUFFICES Goal
    OBVIOUS
  <1>0. /\ OrdinaryInv /\ OrdinaryTypeOK /\ Kept /\ Founded /\ NetSend
    BY PrefixFacts
  <1> HIDE DEF Goal
  <1>1. CASE /\ UNCHANGED <<closing, active, loop>>
             /\ \A e \in Appends : pc'[e] = "new" => pc[e] = "new"
    BY <1>1 DEF Filled, ClosedOnes, Goal
  <1>2. ASSUME NEW b \in Appends, Loop(b) PROVE Goal
    <2>1. UNCHANGED <<pc, closing>>
      BY <1>0, <1>2, LoopKinds
    <2>2. ClosedOnes'
      BY <2>1 DEF ClosedOnes
    <2>3. ASSUME NEW out \in Outcomes, Settle(b, out) PROVE Filled'
      <3> DEFINE left == buffer[b] \ TakenAlong(b, out)
                 next == IF left = {} THEN {} ELSE Promoted(left)
      <3>1. /\ active' = [active EXCEPT ![b] = next]
            /\ loop' = [loop EXCEPT ![b] = IF next = {} THEN "ended" ELSE "ready"]
        BY <2>3 DEF Settle
      <3> HIDE DEF left, next
      <3> QED BY <1>0, <3>1 DEF Filled, OrdinaryTypeOK
    <2>4. CASE StopEnd(b)
      <3>1. /\ active' = [active EXCEPT ![b] = {}] /\ loop' = [loop EXCEPT ![b] = "ended"]
        BY <1>0, <2>4, StopEndShape
      <3>2. Filled'
        BY <1>0, <3>1 DEF Filled, OrdinaryTypeOK
      <3> QED BY <2>2, <3>2 DEF Goal
    <2>5. CASE /\ active' = active /\ loop[b] \in {"ready", "send"}
               /\ loop' = loop \/ \E l \in Loops : loop' = [loop EXCEPT ![b] = l]
      <3>1. Filled'
        BY <1>0, <2>5 DEF Filled, OrdinaryTypeOK
      <3> QED BY <2>2, <3>1 DEF Goal
    <2>6. CASE /\ active' = active
               /\ \E l \in {"cleanup", "stopping"} : loop' = [loop EXCEPT ![b] = l]
      <3>1. Filled'
        BY <1>0, <2>6 DEF Filled, OrdinaryTypeOK
      <3> QED BY <2>2, <3>1 DEF Goal
    <2>7. \/ \E out \in Outcomes : Settle(b, out)
          \/ StopEnd(b)
          \/ /\ active' = active /\ loop[b] \in {"ready", "send"}
             /\ loop' = loop \/ \E l \in Loops : loop' = [loop EXCEPT ![b] = l]
          \/ /\ active' = active
             /\ \E l \in {"cleanup", "stopping"} : loop' = [loop EXCEPT ![b] = l]
      BY <1>0, <1>2, LoopKinds DEF Loops
    <2> QED BY <2>2, <2>3, <2>4, <2>5, <2>6, <2>7 DEF Goal
  <1>3. ASSUME NEW e \in Appends, Join(e) PROVE Goal
    <2>1. UNCHANGED closing /\ pc' = [pc EXCEPT ![e] = "await"]
      BY <1>3 DEF Join
    <2>2. ClosedOnes'
      BY <1>0, <2>1 DEF ClosedOnes, OrdinaryTypeOK
    <2>3. Filled'
      <3>1. CASE current = 0
        <4>1. active' = [active EXCEPT ![e] = {e}] /\ loop' = [loop EXCEPT ![e] = "ready"]
          BY <1>3, <3>1 DEF Join
        <4> QED BY <1>0, <4>1 DEF Filled, OrdinaryTypeOK
      <3>2. CASE current # 0
        <4>1. UNCHANGED <<active, loop>>
          BY <1>3, <3>2 DEF Join
        <4> QED BY <4>1 DEF Filled
      <3> QED BY <3>1, <3>2
    <2> QED BY <2>2, <2>3 DEF Goal
  <1>4. ASSUME NEW e \in Appends, Interrupt(e) \/ Receive(e) \/ LookActive(e) \/ Drain(e) \/ Closed(e)
        PROVE  Goal
    <2>1. /\ UNCHANGED <<closing, active, loop>>
          /\ \E l \in Locations \ {"new"} : pc' = [pc EXCEPT ![e] = l]
      BY <1>4 DEF Interrupt, Receive, LookActive, Drain, Closed, bursts, Locations
    <2>2. \A f \in Appends : pc'[f] = "new" => pc[f] = "new"
      BY <1>0, <2>1 DEF OrdinaryTypeOK
    <2> QED BY <1>1, <2>1, <2>2
  <1>5. ASSUME NEW e \in Appends, Release(e) PROVE Goal
    <2>1. /\ UNCHANGED <<active, loop>> /\ pc[e] = "release"
          /\ closing' = [closing EXCEPT ![joined[e]] = @ \/ LastLease(joined[e])]
          /\ \E l \in Locations \ {"new"} : pc' = [pc EXCEPT ![e] = l]
      BY <1>5 DEF Release, Locations
    <2>2. joined[e] \in Appends /\ pc[joined[e]] # "new"
      BY <1>0, <2>1 DEF Kept, Founded
    <2>3. \A c \in Appends : closing'[c] => closing[c] \/ c = joined[e]
      BY <1>0, <2>1, <2>2 DEF OrdinaryTypeOK
    <2>4. \A f \in Appends : pc'[f] = "new" => pc[f] = "new"
      BY <1>0, <2>1 DEF OrdinaryTypeOK
    <2>5. ClosedOnes'
      BY <2>2, <2>3, <2>4 DEF ClosedOnes
    <2> QED BY <2>1, <2>5 DEF Filled, Goal
  <1>6. CASE (\E b \in Appends : Serve(b) \/ Fault(b)) \/ ServeStray \/ UNCHANGED vars
    <2>1. UNCHANGED <<active, closing, loop, pc>>
      BY <1>6 DEF Serve, Fault, ServeStray, vars, bursts
    <2> QED BY <1>1, <2>1
  <1> QED BY <1>2, <1>3, <1>4, <1>5, <1>6 DEF Next, Terminated, Call

(* Without a failure and without an interruption a fiber only ever settles  *)
(* with success, and the last lease is given back when it has ended.        *)
LEMMA UndisturbedStep ==
  ASSUME HarmInv, [Next]_vars, faults = 0, \A e \in Appends : ~cancelled[e] /\ ~cancelled'[e]
  PROVE  Undisturbed'
  <1>0. /\ OrdinaryInv /\ OrdinaryTypeOK /\ CurrentLives /\ Membership /\ Announced /\ Kept
        /\ Filled /\ ClosedOnes /\ Undisturbed /\ Said /\ Counted
        /\ \A b \in Appends : net[b] \in {"none", "sent", "ok"}
    BY PrefixFacts DEF HarmInv, ContextInv, OnceInv, PrefixInv, LeaseInv
  <1>1. CASE UNCHANGED <<receipt, closing, loop>>
    BY <1>0, <1>1 DEF Undisturbed, Live
  <1>2. ASSUME NEW b \in Appends, Loop(b) PROVE Undisturbed'
    <2>1. UNCHANGED closing /\ Live(b)
      BY <1>0, <1>2, LoopKinds
    <2>2. ~closing[b] /\ loop[b] \notin {"cleanup", "stopping"}
      BY <1>0, <2>1 DEF Undisturbed
    <2>3. loop[b] = "ready" => Sendable(b)
      <3> SUFFICES ASSUME loop[b] = "ready" PROVE Sendable(b)
        OBVIOUS
      <3>1. active[b] # {} /\ active[b] \in SUBSET Appends
        BY <1>0 DEF Filled, OrdinaryTypeOK
      <3>2. First(active[b]) \in active[b]
        BY <3>1, FirstOfAppends
      <3>3. \A e \in active[b] : owner[e] /\ ~cancelled[e]
        BY <1>0, <3>1 DEF Membership, Said
      <3> QED BY <3>2, <3>3 DEF Sendable
    <2>4. ASSUME NEW out \in Outcomes, Settle(b, out), out = "ok" PROVE Undisturbed'
      <3> DEFINE left == buffer[b] \ TakenAlong(b, out)
                 next == IF left = {} THEN {} ELSE Promoted(left)
      <3>1. /\ loop' = [loop EXCEPT ![b] = IF next = {} THEN "ended" ELSE "ready"]
            /\ \A e \in Appends : receipt'[e] \in {receipt[e], out}
        BY <2>4 DEF Settle, ReceiptsDone
      <3> HIDE DEF left, next
      <3>2. \A c \in Appends : /\ Live(c)' => Live(c)
                               /\ loop'[c] \in {"ended", "ready", loop[c]}
        BY <1>0, <2>1, <3>1 DEF Live, OrdinaryTypeOK
      <3> QED BY <1>0, <2>1, <2>4, <3>1, <3>2 DEF Undisturbed
    <2>5. CASE UNCHANGED receipt /\ (loop' = [loop EXCEPT ![b] = "send"] \/ loop' = loop)
      <3>1. \A c \in Appends : (Live(c)' => Live(c)) /\ loop'[c] \in {"send", loop[c]}
        BY <1>0, <2>1, <2>5 DEF Live, OrdinaryTypeOK
      <3> QED BY <1>0, <2>1, <2>5, <3>1 DEF Undisturbed
    <2>6. \/ \E out \in Outcomes : Settle(b, out) /\ out = "ok"
          \/ UNCHANGED receipt /\ (loop' = [loop EXCEPT ![b] = "send"] \/ loop' = loop)
      <3>1. net[b] # "retryable" /\ net[b] # "rejected" /\ net[b] # "unknown"
        BY <1>0
      <3>2. StopEnd(b) => loop[b] = "stopping"
        BY DEF StopEnd
      <3>3. \A e \in active[b] : ~cancelled[e]
        BY <1>0 DEF OrdinaryTypeOK
      <3> QED BY <1>0, <1>2, <2>2, <2>3, <3>1, <3>2, <3>3, LoopKinds DEF Outcomes
    <2> QED BY <2>4, <2>5, <2>6
  <1>3. ASSUME NEW e \in Appends, Join(e) PROVE Undisturbed'
    <2>1. UNCHANGED <<receipt, closing>> /\ pc[e] = "new"
      BY <1>3 DEF Join
    <2>2. CASE current = 0
      <3>1. loop' = [loop EXCEPT ![e] = "ready"] /\ ~closing[e]
        BY <1>0, <1>3, <2>1, <2>2 DEF Join, ClosedOnes
      <3>2. \A c \in Appends : /\ Live(c)' => Live(c) \/ c = e
                               /\ loop'[c] \in {"ready", loop[c]}
        BY <1>0, <3>1 DEF Live, OrdinaryTypeOK
      <3> QED BY <1>0, <2>1, <3>1, <3>2 DEF Undisturbed
    <2>3. CASE current # 0
      <3>1. UNCHANGED loop
        BY <1>3, <2>3 DEF Join
      <3> QED BY <1>1, <2>1, <3>1
    <2> QED BY <2>2, <2>3
  <1>4. ASSUME NEW e \in Appends, Release(e) PROVE Undisturbed'
    <2>1. PICK b \in Appends : b = joined[e]
      BY <1>0, <1>4 DEF Release, Kept
    <2>2. /\ UNCHANGED <<receipt, loop>> /\ pc[e] = "release"
          /\ closing' = [closing EXCEPT ![b] = @ \/ LastLease(b)]
      BY <1>4, <2>1 DEF Release, entry
    <2>3. LastLease(b) => ~Live(b)
      <3> SUFFICES ASSUME leases[b] = 1, Live(b) PROVE FALSE
        BY DEF LastLease
      <3>1. \A f, g \in Holders(b) : f = g
        <4>1. IsFiniteSet(Holders(b)) /\ Cardinality(Holders(b)) = 1
          BY <1>0, HoldersFinite DEF Counted
        <4> QED BY <4>1, FS_Singleton
      <3>2. loop[b] \in {"ready", "send"}
        BY <1>0 DEF Undisturbed, Live
      <3>3. PICK f \in active[b] : TRUE
        BY <1>0, <3>2 DEF Filled
      <3>4. f \in Appends /\ joined[f] = b /\ pc[f] = "await"
        BY <1>0 DEF Membership, Announced, OrdinaryTypeOK
      <3>5. f \in Holders(b) /\ e \in Holders(b)
        BY <2>1, <2>2, <3>4 DEF Holders
      <3>6. f = e
        BY <3>1, <3>5
      <3> QED BY <2>2, <3>4, <3>6
    <2>4. \A c \in Appends : closing'[c] => closing[c] \/ (c = b /\ LastLease(b))
      BY <1>0, <2>2 DEF OrdinaryTypeOK
    <2> QED BY <1>0, <2>2, <2>3, <2>4 DEF Undisturbed, Live
  <1>5. ASSUME NEW e \in Appends, Receive(e) \/ LookActive(e) \/ Drain(e) \/ Closed(e)
        PROVE  Undisturbed'
    BY <1>1, <1>5 DEF Receive, LookActive, Drain, Closed, bursts, entry
  <1>6. ASSUME NEW e \in Appends, Interrupt(e) PROVE Undisturbed'
    <2>1. cancelled'[e]
      BY <1>0, <1>6 DEF Interrupt, OrdinaryTypeOK
    <2> QED BY <2>1
  <1>7. CASE (\E b \in Appends : Serve(b) \/ Fault(b)) \/ ServeStray \/ UNCHANGED vars
    BY <1>1, <1>7 DEF Serve, Fault, ServeStray, vars, bursts, entry
  <1> QED BY <1>2, <1>3, <1>4, <1>5, <1>6, <1>7 DEF Next, Terminated, Call

LEMMA HarmHolds == Spec => []HarmInv
  <1>1. Init => Filled /\ ClosedOnes /\ OnceInv /\ Undisturbed
    <2> SUFFICES ASSUME Init PROVE Filled /\ ClosedOnes /\ OnceInv /\ Undisturbed
      OBVIOUS
    <2>1. Len(log) = 0
      BY DEF Init
    <2>2. OnceInv
      BY <2>1 DEF Init, OnceInv, Unsent, Waiting, Traces
    <2> QED BY <2>2 DEF Init, Filled, ClosedOnes, Undisturbed, Live
  <1>2. ASSUME HarmInv, [Next]_vars, PrefixInv', ContextInv' PROVE HarmInv'
    <2>1. PrefixInv /\ Filled /\ ClosedOnes /\ OrdinaryTypeOK
      BY <1>2, PrefixFacts DEF HarmInv
    <2>2. Filled' /\ ClosedOnes'
      BY <1>2, <2>1, FilledStep
    <2>3. faults' = 0 => faults = 0
      <3>1. faults \in Nat
        BY <2>1 DEF OrdinaryTypeOK
      <3>2. faults' = faults \/ faults' = faults + 1
        BY <1>2 DEF Next, Loop, Serve, Fault, Join, Interrupt, Call, ServeStray, Terminated,
           Dispatch, Answered, Retry, CancelWins, CleanedUp, Stop, StopEnd, Receive, LookActive,
           Drain, Release, Closed, vars, server
      <3> QED BY <3>1, <3>2
    <2>4. faults' = 0 => OnceInv'
      BY <1>2, <2>1, <2>3, OnceStep DEF HarmInv
    <2>5. \A e \in Appends : cancelled[e] => cancelled'[e]
      <3>1. UNCHANGED cancelled \/ \E e \in Appends : cancelled' = [cancelled EXCEPT ![e] = TRUE]
        BY <1>2 DEF Next, Loop, Serve, Fault, Join, Interrupt, Call, ServeStray, Terminated,
           Dispatch, Answered, Retry, CancelWins, CleanedUp, Stop, StopEnd, Receive, LookActive,
           Drain, Release, Closed, vars, entry
      <3> QED BY <2>1, <3>1 DEF OrdinaryTypeOK
    <2>6. faults' = 0 /\ (\A e \in Appends : ~cancelled'[e]) => Undisturbed'
      BY <1>2, <2>3, <2>5, UndisturbedStep
    <2> QED BY <1>2, <2>2, <2>4, <2>6 DEF HarmInv
  <1>3. Init /\ PrefixInv /\ ContextInv => HarmInv
    BY <1>1 DEF HarmInv
  <1> QED BY <1>2, <1>3, PrefixHolds, ContextHolds, PTL DEF Spec
-----------------------------------------------------------------------------
(* The theorems. *)

(* Every variable stays in its range; in particular a lease is never given  *)
(* back twice, nor one that was not taken.                                  *)
THEOREM OrdinaryTypeCorrect == Spec => []OrdinaryTypeOK
  <1>1. LeaseInv => OrdinaryTypeOK
    BY DEF LeaseInv, OrdinaryInv
  <1> QED BY <1>1, AlwaysInv, PTL

(* At most one request of the handle is under way or in cleanup, across     *)
(* bursts: a second burst begins only after the fiber of the first ended.   *)
THEOREM SingleRequest == Spec => []OneRequestAtATime
  <1>1. LeaseInv => OneRequestAtATime
    BY DEF LeaseInv, OrdinaryInv, CurrentLives, Live, Busy, OneRequestAtATime
  <1> QED BY <1>1, AlwaysInv, PTL

(* When append has returned, no request with its value runs, is cleaned up  *)
(* after, or will be sent again.                                            *)
THEOREM CallsOutliveRequests == Spec => []NothingOutlivesItsCall
  <1>1. LeaseInv => NothingOutlivesItsCall
    BY DEF LeaseInv, OrdinaryInv, Attended, NothingOutlivesItsCall
  <1> QED BY <1>1, AlwaysInv, PTL

(* Whoever waits for a receipt is in a burst whose fiber lives.             *)
THEOREM NobodyForgotten == Spec => []NobodyIsForgotten
  <1>1. LeaseInv => NobodyIsForgotten
    <2> SUFFICES ASSUME LeaseInv, NEW e \in Appends, pc[e] \in {"await", "drain"},
                        receipt[e] = "open"
                 PROVE  /\ e \in active[joined[e]] \cup buffer[joined[e]]
                        /\ loop[joined[e]] # "ended"
      BY DEF NobodyIsForgotten
    <2>1. joined[e] \in Appends /\ e \in active[joined[e]] \cup buffer[joined[e]]
      BY DEF LeaseInv, OrdinaryInv, Kept
    <2>2. Live(joined[e])
      BY <2>1 DEF LeaseInv, OrdinaryInv, Emptied
    <2> QED BY <2>1, <2>2 DEF Live
  <1> QED BY <1>1, AlwaysInv, PTL

(* Only appends of one content type and context share a request, whichever  *)
(* of them are interrupted, and before or after they are promoted.          *)
THEOREM RequestsKeepContexts == Spec => []OneContextPerRequest
  <1>1. LeaseInv /\ ContextInv => OneContextPerRequest
    <2> SUFFICES ASSUME LeaseInv, ContextInv, NEW b \in Appends, Busy(b),
                        NEW e \in active[b], NEW f \in active[b]
                 PROVE  owner[e] /\ group[e] = group[f]
      BY DEF OneContextPerRequest
    <2>1. OrdinaryTypeOK /\ Shared /\ Owned
      BY DEF LeaseInv, OrdinaryInv, ContextInv
    <2>2. PICK d \in active[b] : d = First(active[b])
      BY <2>1, FirstOfAppends DEF OrdinaryTypeOK
    <2>3. owner[d] /\ owner[e] /\ owner[f] /\ Compatible(e, d) /\ Compatible(f, d)
      BY <2>1, <2>2 DEF Owned, Shared
    <2>4. group[e] \in Groups /\ group[f] \in Groups
      BY <2>1 DEF OrdinaryTypeOK
    <2> QED BY <2>3, <2>4, OrdinaryAssumption DEF Compatible
  <1> QED BY <1>1, AlwaysInv, ContextHolds, PTL

(* Within a burst a failure is final: what joined behind a failed append is *)
(* not acknowledged around it, however the batches were cut and whoever was *)
(* interrupted.                                                             *)
THEOREM FailureIsFinal == Spec => []BurstIsPrefix
  <1>1. PrefixInv => BurstIsPrefix
    BY DEF PrefixInv
  <1> QED BY <1>1, PrefixHolds, PTL

(* What append reports as stored is in the stream, and what joined earlier  *)
(* and was also reported is found there no later, across bursts, retries    *)
(* and requests that arrive after their client has let go of them.          *)
THEOREM StoredInOrder == Spec => []AckedInOrder
  <1>1. ASSUME OrdinaryTypeOK, StoreInv, NEW e \in Appends, receipt[e] = "ok"
        PROVE  /\ Stores(e) # {}
               /\ \A f \in 1..(e - 1) : receipt[f] = "ok" => First(Stores(f)) <= First(Stores(e))
    <2>1. \A f \in Appends : Stores(f) \in SUBSET Nat
      BY <1>1 DEF OrdinaryTypeOK, Stores
    <2>2. Stores(e) # {}
      BY <1>1 DEF StoreInv, StoredOnes, Stored, Stores
    <2>3. ASSUME NEW f \in 1..(e - 1), receipt[f] = "ok"
          PROVE  First(Stores(f)) <= First(Stores(e))
      <3>1. f \in Appends /\ f < e
        BY OrdinaryAssumption DEF Appends
      <3>2. PICK i \in Stores(e) : i = First(Stores(e))
        BY <2>1, <2>2, FirstIsLeast
      <3>3. i \in 1..Len(log) /\ e \in log[i] /\ Len(log) \in Nat
        BY <1>1, <3>2 DEF Stores, OrdinaryTypeOK
      <3>4. PICK j \in 1..i : f \in log[j]
        BY <1>1, <2>3, <3>1, <3>3 DEF StoreInv, LogOrder
      <3>5. j \in Stores(f)
        BY <3>3, <3>4 DEF Stores
      <3>6. First(Stores(f)) <= j /\ First(Stores(f)) \in Nat
        BY <2>1, <3>1, <3>5, FirstIsLeast
      <3>7. j <= i /\ i \in Nat /\ j \in Nat
        BY <3>3, <3>4
      <3> HIDE DEF First, Stores
      <3> QED BY <3>2, <3>6, <3>7
    <2> QED BY <2>2, <2>3
  <1>2. LeaseInv /\ StoreInv => AckedInOrder
    BY <1>1 DEF LeaseInv, OrdinaryInv, AckedInOrder
  <1> QED BY <1>2, AlwaysInv, StoreHolds, PTL

(* Overlapping appends never hurt each other by themselves: without a        *)
(* failed request no value is stored twice, whoever is interrupted, and     *)
(* without an interruption either every append succeeds: no lease, scope    *)
(* or promotion of the batching itself can fail one.                        *)
THEOREM OverlapHarmless == Spec => []OverlapIsHarmless
  <1>1. ASSUME OnceInv, NEW e \in Appends PROVE Cardinality(Stores(e)) <= 1
    <2>1. CASE Stores(e) = {}
      <3>1. Cardinality(Stores(e)) = 0
        BY <2>1, FS_EmptySet
      <3> QED BY <3>1
    <2>2. CASE Stores(e) # {}
      <3>1. PICK i \in Stores(e) : TRUE
        BY <2>2
      <3>2. Stores(e) = {i}
        BY <1>1, <3>1 DEF OnceInv, Traces, Stores
      <3>3. Cardinality(Stores(e)) = 1
        BY <3>2, FS_Singleton
      <3> QED BY <3>3
    <2> QED BY <2>1, <2>2
  <1>2. HarmInv => OverlapIsHarmless
    BY <1>1 DEF HarmInv, Undisturbed, OverlapIsHarmless
  <1> QED BY <1>2, HarmHolds, PTL
=============================================================================
