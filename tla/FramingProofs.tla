---------------------------- MODULE FramingProofs ----------------------------
(***************************************************************************)
(* Proofs about EventFraming for texts, chunks and connections of any      *)
(* number and length.  The parser is related to the text it has read one   *)
(* character at a time: Reached(t, out) is its state after the text t.     *)
(***************************************************************************)
EXTENDS EventFraming, FiniteSetTheorems, SequenceTheorems, WellFoundedInduction, TLAPS

LEMMA LeastExists ==
  ASSUME NEW S \in SUBSET Nat, S # {}
  PROVE  \E x \in S : \A y \in S : x <= y
  <1> DEFINE less == OpToRel(<, Nat)
  <1>1. \E x \in S : \A y \in S : <<y, x>> \notin less
    <2>1. IsWellFoundedOn(less, Nat)
      BY NatLessThanWellFounded
    <2> HIDE DEF less
    <2> QED BY WFMin, <2>1
  <1>2. \A x, y \in Nat : <<y, x>> \notin less => x <= y
    BY DEF OpToRel
  <1> HIDE DEF less
  <1> QED BY <1>1, <1>2

-----------------------------------------------------------------------------
(* Positions in order.                                                      *)

Rank(S, x) == Cardinality({y \in S : y <= x})

(* Ranks lie between 1 and the number of positions and tell them apart.     *)
LEMMA Ranks ==
  ASSUME NEW S \in SUBSET Nat, IsFiniteSet(S)
  PROVE  /\ Cardinality(S) \in Nat
         /\ \A x \in S : Rank(S, x) \in 1..Cardinality(S)
         /\ \A x, y \in S : x < y => Rank(S, x) < Rank(S, y)
  <1>1. Cardinality(S) \in Nat
    BY FS_CardinalityType
  <1>2. ASSUME NEW x \in S
        PROVE  Rank(S, x) \in 1..Cardinality(S)
    <2> DEFINE T == {y \in S : y <= x}
    <2>1. T \in SUBSET S /\ x \in T
      OBVIOUS
    <2> HIDE DEF T
    <2>2. IsFiniteSet(T) /\ Cardinality(T) <= Cardinality(S)
      BY <2>1, FS_Subset
    <2>3. Cardinality(T) \in Nat /\ Cardinality(T) # 0
      BY <2>1, <2>2, FS_CardinalityType, FS_EmptySet
    <2>4. Cardinality(T) \in 1..Cardinality(S)
      BY <1>1, <2>2, <2>3
    <2> QED BY <2>4 DEF Rank, T
  <1>3. ASSUME NEW x \in S, NEW y \in S, x < y
        PROVE  Rank(S, x) < Rank(S, y)
    <2> DEFINE T == {z \in S : z <= x}
               U == {z \in S : z <= y}
    <2>0. ~(y <= x) /\ y <= y /\ \A z \in S : z \in Nat /\ (z <= x => z <= y)
      BY <1>3
    <2>1. T \in SUBSET U /\ U \in SUBSET S /\ y \in U /\ y \notin T
      BY <1>3, <2>0
    <2> HIDE DEF T, U
    <2>2. IsFiniteSet(U)
      BY <2>1, FS_Subset
    <2>3. IsFiniteSet(T) /\ Cardinality(T) <= Cardinality(U) /\ Cardinality(T) # Cardinality(U)
      BY <2>1, <2>2, FS_Subset
    <2>4. Cardinality(T) \in Nat /\ Cardinality(U) \in Nat
      BY <2>2, <2>3, FS_CardinalityType
    <2>5. Cardinality(T) < Cardinality(U)
      BY <2>3, <2>4
    <2> QED BY <2>5 DEF Rank, T, U
  <1> QED BY <1>1, <1>2, <1>3

(* Every rank is taken.                                                     *)
LEMMA RankTaken ==
  ASSUME NEW S \in SUBSET Nat, IsFiniteSet(S), NEW k \in 1..Cardinality(S)
  PROVE  \E x \in S : Rank(S, x) = k
  <1> DEFINE n == Cardinality(S)
             f == [x \in S |-> Rank(S, x)]
  <1>1. n \in Nat /\ IsFiniteSet(1..n) /\ Cardinality(1..n) = n
    BY Ranks, FS_Interval
  <1>2. f \in [S -> 1..n] /\ \A x, y \in S : f[x] = f[y] => x = y
    <2>1. \A x, y \in S : Rank(S, x) \in 1..n /\ (x < y => Rank(S, x) < Rank(S, y))
      BY Ranks
    <2>2. \A x, y \in S : Rank(S, x) = Rank(S, y) => x = y
      <3> SUFFICES ASSUME NEW x \in S, NEW y \in S, Rank(S, x) = Rank(S, y)
                   PROVE  x = y
        OBVIOUS
      <3>1. Rank(S, x) \in Nat /\ Rank(S, y) \in Nat /\ x \in Nat /\ y \in Nat
        BY <1>1, <2>1
      <3> QED BY <2>1, <3>1
    <2> QED BY <2>1, <2>2
  <1> HIDE DEF f
  <1>3. f \in Injection(S, 1..n)
    BY <1>2 DEF Injection, IsInjective
  <1>4. f \in Surjection(S, 1..n)
    BY <1>1, <1>3, FS_Injection DEF n
  <1>5. \E x \in S : f[x] = k
    BY <1>4 DEF Surjection
  <1> QED BY <1>5 DEF f

LEMMA InOrderIs ==
  ASSUME NEW S \in SUBSET Nat, IsFiniteSet(S)
  PROVE  /\ InOrder(S) \in [1..Cardinality(S) -> S]
         /\ \A x \in S : InOrder(S)[Rank(S, x)] = x
  <1>1. \A k \in 1..Cardinality(S) : \E x \in S : Rank(S, x) = k
    BY RankTaken
  <1>2. \A x, y \in S : Rank(S, x) = Rank(S, y) => x = y
    <2> SUFFICES ASSUME NEW x \in S, NEW y \in S, Rank(S, x) = Rank(S, y)
                 PROVE  x = y
      OBVIOUS
    <2>1. /\ \A z \in S : Rank(S, z) \in 1..Cardinality(S)
          /\ \A v, w \in S : v < w => Rank(S, v) < Rank(S, w)
          /\ Cardinality(S) \in Nat
      BY Ranks
    <2>2. x \in Nat /\ y \in Nat /\ Rank(S, x) \in Nat
      BY <2>1
    <2> QED BY <2>1, <2>2
  <1>3. InOrder(S) = [k \in 1..Cardinality(S) |-> CHOOSE x \in S : Rank(S, x) = k]
    BY DEF InOrder, Rank
  <1>4. \A x \in S : Rank(S, x) \in 1..Cardinality(S)
    BY Ranks
  <1>5. \A x \in S : (CHOOSE y \in S : Rank(S, y) = Rank(S, x)) = x
    BY <1>2
  <1> QED BY <1>1, <1>3, <1>4, <1>5

LEMMA InOrderSeq ==
  ASSUME NEW S \in SUBSET Nat, IsFiniteSet(S)
  PROVE  InOrder(S) \in Seq(S) /\ Len(InOrder(S)) = Cardinality(S)
  <1>1. InOrder(S) \in [1..Cardinality(S) -> S] /\ Cardinality(S) \in Nat
    BY InOrderIs, Ranks
  <1> QED BY <1>1

LEMMA InOrderEmpty == InOrder({}) = <<>>
  <1>1. IsFiniteSet({}) /\ Cardinality({}) = 0
    BY FS_EmptySet
  <1>2. InOrder({}) \in Seq({}) /\ Len(InOrder({})) = 0
    BY <1>1, InOrderSeq
  <1> QED BY <1>2

(* A position behind all others comes last.                                 *)
LEMMA InOrderLast ==
  ASSUME NEW S \in SUBSET Nat, IsFiniteSet(S), NEW x \in Nat, \A y \in S : y < x
  PROVE  /\ IsFiniteSet(S \cup {x}) /\ S \cup {x} \in SUBSET Nat
         /\ InOrder(S \cup {x}) = Append(InOrder(S), x)
  <1> DEFINE T == S \cup {x}
             n == Cardinality(S)
  <1>1. IsFiniteSet(T) /\ T \in SUBSET Nat /\ x \notin S
    <2>1. ~(x < x)
      OBVIOUS
    <2>2. IsFiniteSet(T)
      BY FS_AddElement
    <2> QED BY <2>1, <2>2
  <1>2. Cardinality(T) = n + 1 /\ n \in Nat
    BY <1>1, FS_AddElement, FS_CardinalityType
  <1>3. InOrder(S) \in [1..n -> S] /\ InOrder(S) \in Seq(S) /\ Len(InOrder(S)) = n
    BY InOrderIs, InOrderSeq
  <1>4. InOrder(T) \in [1..n + 1 -> T] /\ InOrder(T) \in Seq(T) /\ Len(InOrder(T)) = n + 1
    <2> HIDE DEF T
    <2> QED BY <1>1, <1>2, InOrderIs, InOrderSeq
  <1>5. \A y \in S : Rank(T, y) = Rank(S, y)
    <2> SUFFICES ASSUME NEW y \in S
                 PROVE  Rank(T, y) = Rank(S, y)
      OBVIOUS
    <2>1. y \in Nat /\ ~(x <= y)
      OBVIOUS
    <2>2. {z \in T : z <= y} = {z \in S : z <= y}
      BY <2>1
    <2> QED BY <2>2 DEF Rank
  <1>6. Rank(T, x) = n + 1
    <2>1. \A y \in T : y <= x
      OBVIOUS
    <2>2. {z \in T : z <= x} = T
      BY <2>1
    <2> QED BY <2>2, <1>2 DEF Rank
  <1>7. \A y \in T : InOrder(T)[Rank(T, y)] = y
    <2> HIDE DEF T
    <2> QED BY <1>1, InOrderIs
  <1>8. \A k \in 1..n : InOrder(T)[k] = InOrder(S)[k]
    <2> SUFFICES ASSUME NEW k \in 1..n
                 PROVE  InOrder(T)[k] = InOrder(S)[k]
      OBVIOUS
    <2>1. PICK y \in S : Rank(S, y) = k
      BY RankTaken
    <2>2. InOrder(S)[k] = y
      BY <2>1, InOrderIs
    <2>3. InOrder(T)[k] = y
      BY <2>1, <1>5, <1>7
    <2> QED BY <2>2, <2>3
  <1>9. InOrder(T)[n + 1] = x
    BY <1>6, <1>7
  <1> HIDE DEF T
  <1>10. InOrder(T) = Append(InOrder(S), x)
    BY <1>2, <1>3, <1>4, <1>8, <1>9
  <1>11. IsFiniteSet(S \cup {x}) /\ S \cup {x} \in SUBSET Nat
    BY <1>1, FS_AddElement DEF T
  <1> QED BY <1>10, <1>11 DEF T

-----------------------------------------------------------------------------
(* Where a line starts.                                                     *)

Begins(t, i, j) ==
  /\ j \in 1..i
  /\ j > 1 => t[j - 1] \in Breaks
  /\ \A k \in j..i - 1 : t[k] \notin Breaks

LEMMA StartExists ==
  ASSUME NEW t, NEW i \in Nat \ {0}
  PROVE  \E j \in 1..i : Begins(t, i, j)
  <1> DEFINE S == {j \in 1..i : \A k \in j..i - 1 : t[k] \notin Breaks}
  <1>1. i \in S
    OBVIOUS
  <1>2. S \in SUBSET Nat
    OBVIOUS
  <1> HIDE DEF S
  <1>3. PICK j \in S : \A y \in S : j <= y
    BY <1>1, <1>2, LeastExists
  <1>4. j \in 1..i /\ \A k \in j..i - 1 : t[k] \notin Breaks
    BY DEF S
  <1>5. ASSUME j > 1, t[j - 1] \notin Breaks
        PROVE  FALSE
    <2>1. j - 1 \in 1..i
      BY <1>4, <1>5
    <2>2. \A k \in j - 1..i - 1 : k = j - 1 \/ k \in j..i - 1
      BY <1>4
    <2>3. j - 1 \in S
      BY <2>1, <2>2, <1>4, <1>5 DEF S
    <2> QED BY <2>3, <1>3, <1>4
  <1> QED BY <1>4, <1>5 DEF Begins

LEMMA StartUnique ==
  ASSUME NEW t, NEW i \in Nat \ {0}, NEW j, Begins(t, i, j)
  PROVE  LineStart(t, i) = j
  <1> DEFINE P(m) == (m > 1 => t[m - 1] \in Breaks) /\ \A k \in m..i - 1 : t[k] \notin Breaks
  <1>1. j \in 1..i /\ P(j)
    BY DEF Begins
  <1>2. ASSUME NEW m \in 1..i, P(m)
        PROVE  m = j
    <2>1. CASE m < j
      <3>1. j > 1 /\ j - 1 \in m..i - 1
        BY <2>1, <1>1
      <3> QED BY <3>1, <1>1, <1>2
    <2>2. CASE j < m
      <3>1. m > 1 /\ m - 1 \in j..i - 1
        BY <2>2, <1>1
      <3> QED BY <3>1, <1>1, <1>2
    <2> QED BY <2>1, <2>2, <1>1
  <1>3. LineStart(t, i) = CHOOSE m \in 1..i : P(m)
    BY DEF LineStart
  <1> HIDE DEF P
  <1> QED BY <1>1, <1>2, <1>3

LEMMA StartBegins ==
  ASSUME NEW t, NEW i \in Nat \ {0}
  PROVE  Begins(t, i, LineStart(t, i))
  BY StartExists, StartUnique

(* A line depends on what comes before its end only.                        *)
LEMMA SameLine ==
  ASSUME NEW t, NEW u, NEW i \in Nat \ {0}, \A k \in 1..i - 1 : t[k] = u[k]
  PROVE  LineStart(u, i) = LineStart(t, i) /\ LineAt(u, i) = LineAt(t, i)
  <1> DEFINE j == LineStart(t, i)
  <1>1. Begins(t, i, j)
    BY StartBegins
  <1> HIDE DEF j
  <1>2. j \in 1..i
    BY <1>1 DEF Begins
  <1>3. Begins(u, i, j)
    BY <1>1, <1>2 DEF Begins
  <1>4. LineStart(u, i) = j
    BY <1>3, StartUnique
  <1>5. SubSeq(u, j, i - 1) = SubSeq(t, j, i - 1)
    <2>1. \A k \in 1..i - j : u[j + k - 1] = t[j + k - 1]
      BY <1>2
    <2> QED BY <1>2, <2>1
  <1> QED BY <1>4, <1>5 DEF LineAt, j

LEMMA LineType ==
  ASSUME NEW t \in Seq(Chars), NEW i \in 1..Len(t) + 1
  PROVE  LineAt(t, i) \in Seq(Chars)
  <1> DEFINE j == LineStart(t, i)
  <1>1. j \in 1..i
    BY StartBegins DEF Begins
  <1> HIDE DEF j
  <1>2. SubSeq(t, j, i - 1) \in Seq(Chars)
    BY <1>1
  <1> QED BY <1>2 DEF LineAt, j

-----------------------------------------------------------------------------
(* One more character: what it changes of the positions that count.         *)

Ending(t, c) == c \in Breaks /\ ~(c = "LF" /\ t # <<>> /\ t[Len(t)] = "CR")
Blank(t) == LineAt(t, Len(t) + 1) = <<>>

LEMMA MoreLine ==
  ASSUME NEW t \in Seq(Chars), NEW c \in Chars
  PROVE  LET u == Append(t, c) n == Len(t) IN
         /\ u \in Seq(Chars) /\ Len(u) = n + 1 /\ n \in Nat /\ u[n + 1] = c
         /\ \A i \in 1..n : u[i] = t[i]
         /\ \A i \in 1..n + 1 : LineAt(u, i) = LineAt(t, i)
         /\ LineAt(u, n + 2) = IF c \in Breaks THEN <<>> ELSE Append(LineAt(t, n + 1), c)
  <1> DEFINE u == Append(t, c)
             n == Len(t)
  <1>1. u \in Seq(Chars) /\ Len(u) = n + 1 /\ n \in Nat /\ u[n + 1] = c /\ \A i \in 1..n : u[i] = t[i]
    OBVIOUS
  <1> HIDE DEF u
  <1>2. \A i \in 1..n + 1 : LineAt(u, i) = LineAt(t, i)
    <2> SUFFICES ASSUME NEW i \in 1..n + 1
                 PROVE  LineAt(u, i) = LineAt(t, i)
      OBVIOUS
    <2>1. i \in Nat \ {0} /\ \A k \in 1..i - 1 : t[k] = u[k]
      BY <1>1
    <2> QED BY <2>1, SameLine
  <1>3. CASE c \in Breaks
    <2>1. Begins(u, n + 2, n + 2)
      BY <1>1, <1>3 DEF Begins
    <2>2. LineStart(u, n + 2) = n + 2
      BY <2>1, <1>1, StartUnique
    <2>3. LineAt(u, n + 2) = <<>>
      BY <2>2, <1>1 DEF LineAt
    <2> QED BY <2>3, <1>1, <1>2, <1>3 DEF u
  <1>4. CASE c \notin Breaks
    <2> DEFINE j == LineStart(t, n + 1)
    <2>1. Begins(t, n + 1, j)
      BY <1>1, StartBegins
    <2> HIDE DEF j
    <2>2. j \in 1..n + 1 /\ (j > 1 => t[j - 1] \in Breaks) /\ \A k \in j..n : t[k] \notin Breaks
      BY <2>1, <1>1 DEF Begins
    <2>3. \A k \in j..n + 1 : u[k] \notin Breaks
      BY <1>1, <1>4, <2>2
    <2>4. j > 1 => u[j - 1] \in Breaks
      BY <1>1, <2>2
    <2>5. Begins(u, n + 2, j)
      BY <1>1, <2>2, <2>3, <2>4 DEF Begins
    <2>6. LineStart(u, n + 2) = j
      BY <2>5, <1>1, StartUnique
    <2>7. SubSeq(u, j, n + 1) = Append(SubSeq(t, j, n), c)
      BY <1>1, <2>2
    <2>8. (n + 2) - 1 = n + 1 /\ (n + 1) - 1 = n
      BY <1>1
    <2>9. LineAt(u, n + 2) = SubSeq(u, j, n + 1) /\ LineAt(t, n + 1) = SubSeq(t, j, n)
      BY <2>6, <2>8 DEF LineAt, j
    <2>10. LineAt(u, n + 2) = Append(LineAt(t, n + 1), c)
      BY <2>7, <2>9
    <2> QED BY <2>10, <1>1, <1>2, <1>4 DEF u
  <1> QED BY <1>3, <1>4

LEMMA EndsFinite ==
  ASSUME NEW t \in Seq(Chars)
  PROVE  /\ Ends(t) \subseteq 1..Len(t) /\ Blanks(t) \subseteq Ends(t)
         /\ \A S \in SUBSET Ends(t) : S \in SUBSET Nat /\ IsFiniteSet(S)
  <1>1. Ends(t) \subseteq 1..Len(t) /\ Blanks(t) \subseteq Ends(t) /\ Len(t) \in Nat
    BY DEF Ends, Blanks
  <1>2. IsFiniteSet(1..Len(t))
    BY <1>1, FS_Interval
  <1>3. \A S \in SUBSET Ends(t) : IsFiniteSet(S)
    BY <1>1, <1>2, FS_Subset
  <1> QED BY <1>1, <1>3

LEMMA MoreEnds ==
  ASSUME NEW t \in Seq(Chars), NEW c \in Chars
  PROVE  LET u == Append(t, c) n == Len(t) IN
         /\ Ends(u) = IF Ending(t, c) THEN Ends(t) \cup {n + 1} ELSE Ends(t)
         /\ Blanks(u) = IF Ending(t, c) /\ Blank(t) THEN Blanks(t) \cup {n + 1} ELSE Blanks(t)
  <1> DEFINE u == Append(t, c)
             n == Len(t)
  <1>1. /\ u \in Seq(Chars) /\ Len(u) = n + 1 /\ n \in Nat /\ u[n + 1] = c
        /\ \A i \in 1..n : u[i] = t[i]
        /\ \A i \in 1..n + 1 : LineAt(u, i) = LineAt(t, i)
        /\ DOMAIN u = 1..n + 1 /\ DOMAIN t = 1..n /\ (t # <<>> <=> n > 0)
    BY MoreLine
  <1> HIDE DEF u
  <1>2. \A i \in 1..n : i \in Ends(u) <=> i \in Ends(t)
    BY <1>1 DEF Ends
  <1>3. n + 1 \in Ends(u) <=> Ending(t, c)
    BY <1>1 DEF Ends, Ending
  <1>4. Ends(u) \subseteq 1..n + 1 /\ Ends(t) \subseteq 1..n
    BY <1>1 DEF Ends
  <1>5. Ends(u) = IF Ending(t, c) THEN Ends(t) \cup {n + 1} ELSE Ends(t)
    <2>1. \A i \in 1..n + 1 : i = n + 1 \/ i \in 1..n
      BY <1>1
    <2>2. n + 1 \notin 1..n /\ 1..n \subseteq 1..n + 1
      BY <1>1
    <2>3. \A i : i \in Ends(u) <=> i \in Ends(t) \/ (i = n + 1 /\ Ending(t, c))
      BY <2>1, <2>2, <1>2, <1>3, <1>4
    <2> QED BY <2>3
  <1>6. \A i \in Ends(u) : LineAt(u, i) = LineAt(t, i)
    BY <1>1, <1>4
  <1>7. Blanks(u) = {i \in Ends(u) : LineAt(t, i) = <<>>}
    BY <1>6 DEF Blanks
  <1>8. Blanks(u) = IF Ending(t, c) /\ Blank(t) THEN Blanks(t) \cup {n + 1} ELSE Blanks(t)
    BY <1>5, <1>7, <1>1 DEF Blanks, Blank
  <1> QED BY <1>5, <1>8 DEF u

LEMMA MoreBlock ==
  ASSUME NEW t \in Seq(Chars), NEW c \in Chars
  PROVE  LET u == Append(t, c) n == Len(t) IN
         /\ \A i \in 1..n + 1 : Block(u, i) = Block(t, i)
         /\ Block(u, n + 2) = IF ~Ending(t, c) THEN Block(t, n + 1)
                              ELSE IF Blank(t) THEN {} ELSE Block(t, n + 1) \cup {n + 1}
  <1> DEFINE u == Append(t, c)
             n == Len(t)
  <1>1. n \in Nat /\ Ends(t) \subseteq 1..n /\ Blanks(t) \subseteq 1..n
    BY EndsFinite
  <1>2. /\ Ends(u) = IF Ending(t, c) THEN Ends(t) \cup {n + 1} ELSE Ends(t)
        /\ Blanks(u) = IF Ending(t, c) /\ Blank(t) THEN Blanks(t) \cup {n + 1} ELSE Blanks(t)
    BY MoreEnds
  <1> HIDE DEF u
  <1>3. ASSUME NEW i \in 1..n + 1
        PROVE  Block(u, i) = Block(t, i)
    <2>1. \A j \in Ends(u) : j < i => j \in Ends(t)
      BY <1>1, <1>2
    <2>2. Ends(t) \subseteq Ends(u) /\ Blanks(t) \subseteq Blanks(u)
      BY <1>2
    <2>3. \A b \in Blanks(u) : b < i => b \in Blanks(t)
      BY <1>1, <1>2
    <2>4. Block(u, i) \subseteq Block(t, i)
      BY <2>1, <2>2, <2>3 DEF Block
    <2>5. Block(t, i) \subseteq Block(u, i)
      BY <2>1, <2>2, <2>3 DEF Block
    <2> QED BY <2>4, <2>5
  <1>4. \A j \in 1..n + 1 : j < n + 2
    BY <1>1
  <1>5. \A j \in 1..n : j < n + 1 /\ ~(n + 1 < j)
    BY <1>1
  <1>6. CASE ~Ending(t, c)
    <2>1. Block(u, n + 2) = Block(t, n + 1)
      BY <1>1, <1>2, <1>4, <1>5, <1>6 DEF Block
    <2> QED BY <2>1, <1>3, <1>6 DEF u
  <1>7. CASE Ending(t, c) /\ Blank(t)
    <2>1. n + 1 \in Blanks(u) /\ n + 1 < n + 2 /\ \A j \in Ends(u) : ~(n + 1 < j)
      BY <1>1, <1>2, <1>5, <1>7
    <2>2. Block(u, n + 2) = {}
      BY <2>1 DEF Block
    <2> QED BY <2>2, <1>3, <1>7 DEF u
  <1>8. CASE Ending(t, c) /\ ~Blank(t)
    <2>1. Block(u, n + 2) \subseteq Block(t, n + 1) \cup {n + 1}
      BY <1>1, <1>2, <1>4, <1>5, <1>8 DEF Block
    <2>2. Block(t, n + 1) \cup {n + 1} \subseteq Block(u, n + 2)
      BY <1>1, <1>2, <1>4, <1>5, <1>8 DEF Block
    <2> QED BY <2>1, <2>2, <1>3, <1>8 DEF u
  <1> QED BY <1>6, <1>7, <1>8

-----------------------------------------------------------------------------
(* What a field has been given since the last blank line.                   *)

Said(t, i, field) == {j \in Block(t, i) : Says(LineAt(t, j), field)}

LEMMA SaidFinite ==
  ASSUME NEW t \in Seq(Chars), NEW i, NEW field
  PROVE  /\ Said(t, i, field) \in SUBSET Ends(t) /\ Said(t, i, field) \in SUBSET Nat
         /\ IsFiniteSet(Said(t, i, field))
         /\ \A j \in Said(t, i, field) : j \in 1..Len(t)
  <1>1. Said(t, i, field) \in SUBSET Ends(t)
    BY DEF Said, Block
  <1> QED BY <1>1, EndsFinite

LEMMA ValueType ==
  ASSUME NEW l \in Seq(Chars)
  PROVE  Value(l) \in Seq(Chars)
  <1>1. SubSeq(l, 4, Len(l)) \in Seq(Chars) /\ SubSeq(l, 3, Len(l)) \in Seq(Chars)
    OBVIOUS
  <1> QED BY <1>1 DEF Value

LEMMA ValuesType ==
  ASSUME NEW t \in Seq(Chars), NEW i, NEW field
  PROVE  /\ Values(t, i, field) \in Seq(Seq(Chars))
         /\ Len(Values(t, i, field)) = Len(InOrder(Said(t, i, field)))
         /\ \A k \in 1..Len(Values(t, i, field)) :
               Values(t, i, field)[k] = Value(LineAt(t, InOrder(Said(t, i, field))[k]))
         /\ InOrder(Said(t, i, field)) \in Seq(Said(t, i, field))
  <1> DEFINE S == Said(t, i, field)
             s == InOrder(S)
  <1>1. s \in Seq(S) /\ \A j \in S : j \in 1..Len(t) + 1
    BY SaidFinite, InOrderSeq
  <1>2. \A j \in S : Value(LineAt(t, j)) \in Seq(Chars)
    BY <1>1, LineType, ValueType
  <1>3. Values(t, i, field) = [k \in DOMAIN s |-> Value(LineAt(t, s[k]))]
    BY DEF Values, Said
  <1> HIDE DEF s, S
  <1>4. DOMAIN s = 1..Len(s) /\ Len(s) \in Nat /\ \A k \in 1..Len(s) : s[k] \in S
    BY <1>1
  <1>5. Values(t, i, field) \in [1..Len(s) -> Seq(Chars)]
    BY <1>2, <1>3, <1>4
  <1>6. Values(t, i, field) \in Seq(Seq(Chars)) /\ Len(Values(t, i, field)) = Len(s)
    BY <1>4, <1>5
  <1>7. \A k \in 1..Len(s) : Values(t, i, field)[k] = Value(LineAt(t, s[k]))
    BY <1>3, <1>4
  <1> QED BY <1>1, <1>6, <1>7 DEF s, S

LEMMA MoreSaid ==
  ASSUME NEW t \in Seq(Chars), NEW c \in Chars, NEW field
  PROVE  LET u == Append(t, c) n == Len(t) l == LineAt(t, n + 1) IN
         /\ \A i \in 1..n + 1 : Said(u, i, field) = Said(t, i, field)
         /\ Said(u, n + 2, field) =
              IF ~Ending(t, c) THEN Said(t, n + 1, field)
              ELSE IF Blank(t) THEN {}
              ELSE IF Says(l, field) THEN Said(t, n + 1, field) \cup {n + 1}
              ELSE Said(t, n + 1, field)
  <1> DEFINE u == Append(t, c)
             n == Len(t)
             l == LineAt(t, n + 1)
  <1>1. n \in Nat /\ Ends(t) \subseteq 1..n
    BY EndsFinite
  <1>2. \A i : Block(t, i) \subseteq Ends(t)
    BY DEF Block
  <1>3. \A i \in 1..n + 1 : LineAt(u, i) = LineAt(t, i)
    BY MoreLine
  <1>4. /\ \A i \in 1..n + 1 : Block(u, i) = Block(t, i)
        /\ Block(u, n + 2) = IF ~Ending(t, c) THEN Block(t, n + 1)
                             ELSE IF Blank(t) THEN {} ELSE Block(t, n + 1) \cup {n + 1}
    BY MoreBlock
  <1> HIDE DEF u
  <1>5. \A i : \A j \in Block(t, i) : LineAt(u, j) = LineAt(t, j)
    BY <1>1, <1>2, <1>3
  <1>6. \A i \in 1..n + 1 : Said(u, i, field) = Said(t, i, field)
    <2> SUFFICES ASSUME NEW i \in 1..n + 1
                 PROVE  Said(u, i, field) = Said(t, i, field)
      OBVIOUS
    <2> QED BY <1>4, <1>5 DEF Said
  <1>7. CASE ~Ending(t, c)
    <2>1. Said(u, n + 2, field) = Said(t, n + 1, field)
      BY <1>4, <1>5, <1>7 DEF Said
    <2> QED BY <2>1, <1>6, <1>7 DEF u
  <1>8. CASE Ending(t, c) /\ Blank(t)
    <2>1. Said(u, n + 2, field) = {}
      BY <1>4, <1>8 DEF Said
    <2> QED BY <2>1, <1>6, <1>8 DEF u
  <1>9. CASE Ending(t, c) /\ ~Blank(t)
    <2>1. LineAt(u, n + 1) = l /\ Block(u, n + 2) = Block(t, n + 1) \cup {n + 1}
      BY <1>1, <1>3, <1>4, <1>9
    <2> HIDE DEF l
    <2>2. Said(u, n + 2, field) =
            IF Says(l, field) THEN Said(t, n + 1, field) \cup {n + 1} ELSE Said(t, n + 1, field)
      BY <2>1, <1>5 DEF Said
    <2> QED BY <2>2, <1>6, <1>9 DEF u, l
  <1> QED BY <1>7, <1>8, <1>9

LEMMA MoreValues ==
  ASSUME NEW t \in Seq(Chars), NEW c \in Chars, NEW field
  PROVE  LET u == Append(t, c) n == Len(t) l == LineAt(t, n + 1) IN
         /\ \A i \in 1..n + 1 : Values(u, i, field) = Values(t, i, field)
         /\ Values(u, n + 2, field) =
              IF ~Ending(t, c) THEN Values(t, n + 1, field)
              ELSE IF Blank(t) THEN <<>>
              ELSE IF Says(l, field) THEN Append(Values(t, n + 1, field), Value(l))
              ELSE Values(t, n + 1, field)
  <1> DEFINE u == Append(t, c)
             n == Len(t)
             l == LineAt(t, n + 1)
  <1>1. u \in Seq(Chars) /\ n \in Nat /\ \A i \in 1..n + 1 : LineAt(u, i) = LineAt(t, i)
    BY MoreLine
  <1>2. /\ \A i \in 1..n + 1 : Said(u, i, field) = Said(t, i, field)
        /\ Said(u, n + 2, field) =
              IF ~Ending(t, c) THEN Said(t, n + 1, field)
              ELSE IF Blank(t) THEN {}
              ELSE IF Says(l, field) THEN Said(t, n + 1, field) \cup {n + 1}
              ELSE Said(t, n + 1, field)
    BY MoreSaid
  <1> HIDE DEF u, l
  \* The same positions hold the same values.
  <1>3. ASSUME NEW i, NEW j, Said(u, i, field) = Said(t, j, field)
        PROVE  Values(u, i, field) = Values(t, j, field)
    <2> DEFINE V == Values(u, i, field)
               W == Values(t, j, field)
               s == InOrder(Said(t, j, field))
    <2>1. V \in Seq(Seq(Chars)) /\ Len(V) = Len(s) /\ \A k \in 1..Len(V) : V[k] = Value(LineAt(u, s[k]))
      BY <1>1, <1>3, ValuesType
    <2>2. W \in Seq(Seq(Chars)) /\ Len(W) = Len(s) /\ \A k \in 1..Len(W) : W[k] = Value(LineAt(t, s[k]))
      BY ValuesType
    <2>3. s \in Seq(Said(t, j, field))
      BY ValuesType
    <2>4. \A m \in Said(t, j, field) : m \in 1..n
      BY SaidFinite
    <2> HIDE DEF V, W, s
    <2>5. \A k \in 1..Len(s) : s[k] \in 1..n + 1
      BY <2>3, <2>4, <1>1
    <2>6. \A k \in 1..Len(s) : V[k] = W[k]
      BY <2>1, <2>2, <2>5, <1>1
    <2>7. V = W
      <3>1. V \in [1..Len(s) -> Seq(Chars)] /\ W \in [1..Len(s) -> Seq(Chars)]
        BY <2>1, <2>2
      <3> QED BY <3>1, <2>6
    <2> QED BY <2>7 DEF V, W
  <1>4. \A i \in 1..n + 1 : Values(u, i, field) = Values(t, i, field)
    BY <1>2, <1>3
  <1>5. CASE ~Ending(t, c)
    BY <1>2, <1>3, <1>4, <1>5 DEF u
  <1>6. CASE Ending(t, c) /\ Blank(t)
    <2>1. InOrder(Said(u, n + 2, field)) = <<>>
      BY <1>2, <1>6, InOrderEmpty
    <2>2. Values(u, n + 2, field) \in Seq(Seq(Chars)) /\ Len(Values(u, n + 2, field)) = 0
      BY <2>1, <1>1, ValuesType
    <2>3. Values(u, n + 2, field) = <<>>
      BY <2>2
    <2> QED BY <2>3, <1>4, <1>6 DEF u
  <1>7. CASE Ending(t, c) /\ ~Blank(t) /\ ~Says(l, field)
    BY <1>2, <1>3, <1>4, <1>7 DEF u, l
  <1>8. CASE Ending(t, c) /\ ~Blank(t) /\ Says(l, field)
    <2> DEFINE S == Said(t, n + 1, field)
               s == InOrder(S)
               V == Values(u, n + 2, field)
               W == Values(t, n + 1, field)
    <2>1. S \in SUBSET Nat /\ IsFiniteSet(S) /\ \A y \in S : y \in 1..n
      BY SaidFinite
    <2>2. \A y \in S : y < n + 1
      BY <2>1, <1>1
    <2> HIDE DEF S
    <2>3. InOrder(S \cup {n + 1}) = Append(s, n + 1)
      <3> DEFINE x == n + 1
      <3>1. x \in Nat /\ \A y \in S : y < x
        BY <2>2, <1>1
      <3> HIDE DEF x
      <3>2. InOrder(S \cup {x}) = Append(InOrder(S), x)
        BY <2>1, <3>1, InOrderLast
      <3> QED BY <3>2 DEF x
    <2>4. Said(u, n + 2, field) = S \cup {n + 1}
      BY <1>2, <1>8 DEF S
    <2>5. V \in Seq(Seq(Chars)) /\ Len(V) = Len(Append(s, n + 1))
          /\ \A k \in 1..Len(V) : V[k] = Value(LineAt(u, Append(s, n + 1)[k]))
      <3>1. InOrder(Said(u, n + 2, field)) = Append(s, n + 1)
        BY <2>3, <2>4
      <3> HIDE DEF s
      <3>2. /\ Values(u, n + 2, field) \in Seq(Seq(Chars))
            /\ Len(Values(u, n + 2, field)) = Len(InOrder(Said(u, n + 2, field)))
            /\ \A k \in 1..Len(Values(u, n + 2, field)) :
                  Values(u, n + 2, field)[k] =
                    Value(LineAt(u, InOrder(Said(u, n + 2, field))[k]))
        BY <1>1, ValuesType
      <3> QED BY <3>1, <3>2
    <2>6. W \in Seq(Seq(Chars)) /\ Len(W) = Len(s) /\ \A k \in 1..Len(W) : W[k] = Value(LineAt(t, s[k]))
      BY ValuesType DEF S
    <2>7. s \in Seq(S)
      BY <2>1, InOrderSeq
    <2>8. LineAt(u, n + 1) = l
      BY <1>1 DEF l
    <2>9. Value(l) \in Seq(Chars)
      <3>1. l \in Seq(Chars)
        BY <1>1, LineType DEF l
      <3> QED BY <3>1, ValueType
    <2> HIDE DEF s, V, W
    <2>10. Len(V) = Len(s) + 1 /\ Len(s) \in Nat
      BY <2>5, <2>7
    <2>11. \A k \in 1..Len(s) : s[k] \in 1..n + 1 /\ Append(s, n + 1)[k] = s[k]
      <3>1. Len(s) \in Nat /\ \A k \in 1..Len(s) : s[k] \in S /\ Append(s, n + 1)[k] = s[k]
        BY <2>7
      <3>2. \A y \in S : y \in 1..n + 1
        BY <2>1, <1>1
      <3> QED BY <3>1, <3>2
    <2>12. \A k \in 1..Len(s) : V[k] = W[k]
      BY <2>5, <2>6, <2>10, <2>11, <1>1
    <2>13. V[Len(s) + 1] = Value(l)
      <3>1. Append(s, n + 1)[Len(s) + 1] = n + 1
        BY <2>7
      <3>2. Len(s) + 1 \in 1..Len(V)
        BY <2>10
      <3>3. V[Len(s) + 1] = Value(LineAt(u, Append(s, n + 1)[Len(s) + 1]))
        BY <2>5, <3>2
      <3> QED BY <2>8, <3>1, <3>3
    <2>14. V = Append(W, Value(l))
      BY <2>5, <2>6, <2>9, <2>10, <2>12, <2>13
    <2> QED BY <2>14, <1>4, <1>8 DEF u, l, V, W
  <1> QED BY <1>5, <1>6, <1>7, <1>8 DEF l

LEMMA MoreEvent ==
  ASSUME NEW t \in Seq(Chars), NEW c \in Chars, NEW i \in 1..Len(t) + 1
  PROVE  EventAt(Append(t, c), i) = EventAt(t, i)
  <1>1. \A field : Values(Append(t, c), i, field) = Values(t, i, field)
    BY MoreValues
  <1> QED BY <1>1 DEF EventAt

(* A blank line adds what was said since the one before it, and nothing     *)
(* else adds an event.                                                      *)
LEMMA MoreEvents ==
  ASSUME NEW t \in Seq(Chars), NEW c \in Chars
  PROVE  EventsOf(Append(t, c)) =
           IF Ending(t, c) /\ Blank(t)
           THEN Append(EventsOf(t), EventAt(t, Len(t) + 1)) ELSE EventsOf(t)
  <1> DEFINE u == Append(t, c)
             n == Len(t)
             B == Blanks(t)
             bs == InOrder(B)
  <1>1. u \in Seq(Chars) /\ n \in Nat
    BY MoreLine
  <1>2. B \in SUBSET Nat /\ IsFiniteSet(B) /\ \A b \in B : b \in 1..n
    BY EndsFinite
  <1>3. \A i \in 1..n + 1 : EventAt(u, i) = EventAt(t, i)
    BY MoreEvent
  <1>4. Blanks(u) = IF Ending(t, c) /\ Blank(t) THEN B \cup {n + 1} ELSE B
    BY MoreEnds
  <1>5. /\ EventsOf(t) = [k \in DOMAIN bs |-> EventAt(t, bs[k])]
        /\ EventsOf(u) = LET vs == InOrder(Blanks(u)) IN [k \in DOMAIN vs |-> EventAt(u, vs[k])]
    BY DEF EventsOf
  <1> HIDE DEF u, B
  <1>6. bs \in Seq(B)
    BY <1>2, InOrderSeq
  <1>7. DOMAIN bs = 1..Len(bs) /\ Len(bs) \in Nat /\ \A k \in 1..Len(bs) : bs[k] \in 1..n + 1
    <2>1. DOMAIN bs = 1..Len(bs) /\ Len(bs) \in Nat /\ \A k \in 1..Len(bs) : bs[k] \in B
      BY <1>6
    <2>2. \A b \in B : b \in 1..n + 1
      BY <1>1, <1>2
    <2> QED BY <2>1, <2>2
  <1>8. CASE ~(Ending(t, c) /\ Blank(t))
    <2>1. EventsOf(u) = [k \in DOMAIN bs |-> EventAt(u, bs[k])]
      BY <1>4, <1>5, <1>8
    <2> HIDE DEF bs
    <2>2. \A k \in DOMAIN bs : EventAt(u, bs[k]) = EventAt(t, bs[k])
      BY <1>3, <1>7
    <2>3. EventsOf(u) = EventsOf(t)
      BY <2>1, <2>2, <1>5
    <2> QED BY <2>3, <1>8 DEF u
  <1>9. CASE Ending(t, c) /\ Blank(t)
    <2> DEFINE x == n + 1
               vs == Append(bs, x)
    <2>1. x \in Nat /\ \A b \in B : b < x
      BY <1>1, <1>2
    <2>2. InOrder(B \cup {x}) = Append(bs, x)
      <3> HIDE DEF x
      <3> QED BY <1>2, <2>1, InOrderLast
    <2>3. EventsOf(u) = [k \in DOMAIN vs |-> EventAt(u, vs[k])]
      BY <1>4, <1>5, <1>9, <2>2
    <2>4. EventAt(u, x) = EventAt(t, x)
      BY <1>3, <1>1
    <2> HIDE DEF x, bs
    <2>5. /\ DOMAIN vs = 1..Len(bs) + 1 /\ vs[Len(bs) + 1] = x
          /\ \A k \in 1..Len(bs) : vs[k] = bs[k]
      BY <1>6
    <2> HIDE DEF vs
    <2>6. EventsOf(t) = [k \in 1..Len(bs) |-> EventAt(t, bs[k])]
      BY <1>5, <1>7
    <2>7. EventsOf(u) = [k \in 1..Len(bs) + 1 |-> EventAt(u, vs[k])]
      BY <2>3, <2>5
    <2>8. \A k \in 1..Len(bs) : EventAt(u, vs[k]) = EventAt(t, bs[k])
      BY <1>3, <1>7, <2>5
    <2>9. EventAt(u, vs[Len(bs) + 1]) = EventAt(t, x)
      BY <2>4, <2>5
    <2>10. EventsOf(u) = Append(EventsOf(t), EventAt(t, x))
      <3> DEFINE E == {EventAt(t, i) : i \in 1..n + 1}
      <3>1. EventAt(t, x) \in E /\ \A k \in 1..Len(bs) : EventAt(t, bs[k]) \in E
        <4>1. x \in 1..n + 1
          BY <1>1 DEF x
        <4> QED BY <4>1, <1>7
      <3> HIDE DEF E
      <3>2. EventsOf(t) \in Seq(E) /\ Len(EventsOf(t)) = Len(bs)
        BY <2>6, <3>1, <1>7
      <3> QED BY <2>6, <2>7, <2>8, <2>9, <3>1, <3>2, <1>7
    <2> QED BY <2>10, <1>9 DEF u, x
  <1> QED BY <1>8, <1>9

-----------------------------------------------------------------------------
(* What the parser makes of a line is what the line says.                   *)

LEMMA ColonIs ==
  ASSUME NEW l \in Seq(Chars)
  PROVE  /\ Colon(l) \in 1..Len(l) + 1
         /\ Colon(l) <= Len(l) => l[Colon(l)] = ":"
         /\ \A j \in 1..Colon(l) - 1 : l[j] # ":"
  <1> DEFINE S == {i \in 1..Len(l) + 1 : i <= Len(l) => l[i] = ":"}
             P(i) == (i <= Len(l) => l[i] = ":") /\ \A j \in 1..i - 1 : l[j] # ":"
  <1>1. Len(l) \in Nat
    OBVIOUS
  <1>2. Len(l) + 1 \in S /\ S \in SUBSET Nat
    BY <1>1
  <1> HIDE DEF S
  <1>3. PICK i \in S : \A y \in S : i <= y
    BY <1>2, LeastExists
  <1>4. i \in 1..Len(l) + 1 /\ (i <= Len(l) => l[i] = ":")
    BY DEF S
  <1>5. \A j \in 1..i - 1 : l[j] # ":"
    <2> SUFFICES ASSUME NEW j \in 1..i - 1, l[j] = ":"
                 PROVE  FALSE
      OBVIOUS
    <2>1. j \in S
      BY <1>1, <1>4 DEF S
    <2> QED BY <2>1, <1>3, <1>4
  <1>6. P(i)
    BY <1>4, <1>5
  <1>7. Colon(l) = CHOOSE k \in 1..Len(l) + 1 : P(k)
    BY DEF Colon
  <1> HIDE DEF P
  <1>8. Colon(l) \in 1..Len(l) + 1 /\ P(Colon(l))
    BY <1>4, <1>6, <1>7
  <1> QED BY <1>8 DEF P

LEMMA SmallLengths ==
  ASSUME NEW n \in Nat
  PROVE  /\ n > 2 => 4 <= n \/ n = 3
         /\ n >= 1 => n = 1 \/ 2 <= n
  OBVIOUS

LEMMA FieldIsSaid ==
  ASSUME NEW l \in Seq(Chars), l # <<>>, NEW field, field # ":"
  PROVE  /\ Field(l) = <<field>> <=> Says(l, field)
         /\ Says(l, field) => Content(l) = Value(l)
  <1> DEFINE c == Colon(l)
  <1>1. c \in 1..Len(l) + 1 /\ (c <= Len(l) => l[c] = ":") /\ \A j \in 1..c - 1 : l[j] # ":"
    BY ColonIs
  <1>2. Field(l) = SubSeq(l, 1, c - 1)
    BY DEF Field
  <1>3. Content(l) = LET raw == SubSeq(l, c + 1, Len(l))
                     IN IF raw # <<>> /\ Head(raw) = " " THEN Tail(raw) ELSE raw
    BY DEF Content
  <1> HIDE DEF c
  <1>4. Len(l) \in Nat /\ Len(l) >= 1
    OBVIOUS
  <1>5. ASSUME Says(l, field)
        PROVE  c = 2 /\ l[1] = field
    <2>1. l[1] = field /\ (Len(l) = 1 \/ l[2] = ":")
      BY <1>5 DEF Says
    <2>2. c # 1
      BY <2>1, <1>1, <1>4
    <2>3. ~(c > 2)
      BY <2>1, <1>1, <1>4
    <2> QED BY <2>1, <2>2, <2>3, <1>1, <1>4
  <1>6. ASSUME Says(l, field)
        PROVE  Field(l) = <<field>>
    <2>1. SubSeq(l, 1, 1) = <<l[1]>>
      <3>1. l[1] \in Chars /\ 1 \in 1..Len(l)
        BY <1>4
      <3>2. SubSeq(l, 1, 1) = SubSeq(l, 1, 1 - 1) \o <<l[1]>>
        BY <3>1, SubSeqRecursiveSecond
      <3>3. SubSeq(l, 1, 1 - 1) = <<>>
        BY SubSeqEmpty
      <3>4. <<l[1]>> \in Seq(Chars)
        BY <3>1
      <3>5. <<>> \o <<l[1]>> = <<l[1]>>
        BY <3>4, ConcatEmptySeq
      <3> QED BY <3>2, <3>3, <3>5
    <2>2. c - 1 = 1 /\ l[1] = field
      BY <1>5, <1>6
    <2> QED BY <2>1, <2>2, <1>2
  <1>7. ASSUME Field(l) = <<field>>
        PROVE  Says(l, field)
    <2>1. Len(SubSeq(l, 1, c - 1)) = c - 1
      BY <1>1, <1>4
    <2>2. c - 1 = 1
      <3>1. Len(<<field>>) = 1
        OBVIOUS
      <3> QED BY <2>1, <3>1, <1>2, <1>7
    <2>3. SubSeq(l, 1, 1)[1] = l[1]
      BY <1>4
    <2>4. l[1] = field
      BY <2>2, <2>3, <1>2, <1>7
    <2>5. c = 2 /\ (Len(l) = 1 \/ c <= Len(l))
      <3>1. c = 2
        BY <2>2, <1>1
      <3> QED BY <3>1, <1>4, SmallLengths
    <2> QED BY <2>4, <2>5, <1>1 DEF Says
  <1>8. ASSUME Says(l, field)
        PROVE  Content(l) = Value(l)
    <2> DEFINE raw == SubSeq(l, 3, Len(l))
    <2>1. c + 1 = 3
      BY <1>5, <1>8
    <2>2. Content(l) = IF raw # <<>> /\ Head(raw) = " " THEN Tail(raw) ELSE raw
      BY <2>1, <1>3
    <2>3. CASE Len(l) > 2
      <3>1. raw \in Seq(Chars) /\ Len(raw) = Len(l) - 2 /\ raw # <<>> /\ Head(raw) = l[3]
            /\ \A k \in 1..Len(raw) : raw[k] = l[k + 2]
        <4>1. /\ raw \in Seq(Chars) /\ Len(raw) = Len(l) - 2
              /\ \A k \in 1..Len(l) - 2 : raw[k] = l[3 + k - 1]
          <5>1. \A k \in 3..Len(l) : l[k] \in Chars
            BY <1>4
          <5> QED BY <5>1, <2>3, <1>4, SubSeqProperties
        <4> HIDE DEF raw
        <4>2. Len(raw) >= 1 /\ \A k \in 1..Len(l) - 2 : 3 + k - 1 = k + 2
          BY <4>1, <2>3, <1>4
        <4>3. raw # <<>> /\ Head(raw) = raw[1]
          BY <4>1, <4>2
        <4> QED BY <4>1, <4>2, <4>3, <2>3, <1>4
      <3> DEFINE rest == SubSeq(l, 4, Len(l))
      <3>2. rest \in Seq(Chars) /\ Len(rest) = Len(l) - 3 /\ \A k \in 1..Len(rest) : rest[k] = l[k + 3]
        <4>1. /\ rest \in Seq(Chars) /\ Len(rest) = Len(l) - 3
              /\ \A k \in 1..Len(l) - 3 : rest[k] = l[4 + k - 1]
          <5>1. \A k \in 4..Len(l) : l[k] \in Chars
            BY <1>4
          <5>2. 4 <= Len(l) \/ Len(l) = 3
            BY <2>3, <1>4, SmallLengths
          <5> QED BY <5>1, <5>2, <1>4, SubSeqProperties
        <4> HIDE DEF rest
        <4>2. \A k \in 1..Len(l) - 3 : 4 + k - 1 = k + 3
          BY <1>4
        <4> QED BY <4>1, <4>2
      <3> HIDE DEF raw, rest
      <3>3. Tail(raw) \in Seq(Chars) /\ Len(Tail(raw)) = Len(raw) - 1
            /\ \A k \in 1..Len(raw) - 1 : Tail(raw)[k] = raw[k + 1]
        BY <3>1
      <3>4. \A k \in 1..Len(l) - 3 : Tail(raw)[k] = rest[k]
        BY <3>1, <3>2, <3>3, <1>4
      <3>5. Tail(raw) = rest
        <4>1. Len(Tail(raw)) = Len(l) - 3
          BY <3>1, <3>3, <1>4
        <4> QED BY <3>2, <3>3, <3>4, <4>1, SeqEqual
      <3> QED BY <3>1, <3>5, <2>2, <2>3 DEF Value, raw, rest
    <2>4. CASE ~(Len(l) > 2)
      <3>1. raw = <<>>
        BY <2>4, <1>4
      <3> QED BY <3>1, <2>2, <2>4 DEF Value
    <2> QED BY <2>3, <2>4
  <1> QED BY <1>6, <1>7, <1>8

-----------------------------------------------------------------------------
(* The parser after a text.                                                 *)

Reached(t, out) ==
  [line |-> LineAt(t, Len(t) + 1), afterCr |-> t # <<>> /\ t[Len(t)] = "CR",
   event |-> EventAt(t, Len(t) + 1).event, data |-> EventAt(t, Len(t) + 1).data,
   out |-> out]

LEMMA AfterBreak ==
  ASSUME NEW t \in Seq(Chars), t # <<>>, t[Len(t)] \in Breaks
  PROVE  LineAt(t, Len(t) + 1) = <<>>
  <1> DEFINE n == Len(t)
  <1>1. n \in Nat /\ n + 1 \in Nat \ {0} /\ (n + 1) - 1 = n
    OBVIOUS
  <1>2. Begins(t, n + 1, n + 1)
    BY <1>1 DEF Begins
  <1>3. LineStart(t, n + 1) = n + 1
    BY <1>1, <1>2, StartUnique
  <1>4. SubSeq(t, n + 1, n) = <<>>
    BY <1>1, SubSeqEmpty
  <1> QED BY <1>1, <1>3, <1>4 DEF LineAt

LEMMA ReachedEvent ==
  ASSUME NEW t \in Seq(Chars), NEW c \in Chars
  PROVE  LET l == LineAt(t, Len(t) + 1)
             e == EventAt(t, Len(t) + 1)
         IN EventAt(Append(t, c), Len(t) + 2) =
              IF ~Ending(t, c) THEN e
              ELSE IF Blank(t) THEN [event |-> <<>>, data |-> <<>>]
              ELSE [event |-> IF Says(l, "event") THEN Value(l) ELSE e.event,
                    data |-> IF Says(l, "data") THEN Append(e.data, Value(l)) ELSE e.data]
  <1> DEFINE u == Append(t, c)
             n == Len(t)
             l == LineAt(t, n + 1)
             V(f) == Values(t, n + 1, f)
             W(f) == Values(u, n + 2, f)
             Named(names) == IF names = <<>> THEN <<>> ELSE names[Len(names)]
  <1>1. \A f : W(f) = IF ~Ending(t, c) THEN V(f)
                      ELSE IF Blank(t) THEN <<>>
                      ELSE IF Says(l, f) THEN Append(V(f), Value(l)) ELSE V(f)
    BY MoreValues
  <1>2. EventAt(u, n + 2) = [event |-> Named(W("event")), data |-> W("data")]
    BY DEF EventAt
  <1>3. EventAt(t, n + 1) = [event |-> Named(V("event")), data |-> V("data")]
    BY DEF EventAt
  <1>4. V("event") \in Seq(Seq(Chars)) /\ Value(l) \in Seq(Chars)
    <2>1. l \in Seq(Chars)
      BY LineType
    <2> QED BY <2>1, ValueType, ValuesType
  <1>5. Named(Append(V("event"), Value(l))) = Value(l)
    <2> DEFINE A == Append(V("event"), Value(l))
    <2> HIDE DEF V, l
    <2>1. A # <<>> /\ Len(A) = Len(V("event")) + 1 /\ A[Len(V("event")) + 1] = Value(l)
      BY <1>4, AppendProperties
    <2> QED BY <2>1
  <1> HIDE DEF V, W, l, u, Named
  <1>6. CASE ~Ending(t, c)
    BY <1>1, <1>2, <1>3, <1>6 DEF u
  <1>7. CASE Ending(t, c) /\ Blank(t)
    <2>1. Named(<<>>) = <<>>
      BY DEF Named
    <2> QED BY <1>1, <1>2, <1>7, <2>1 DEF u
  <1>8. CASE Ending(t, c) /\ ~Blank(t)
    <2>1. W("event") = IF Says(l, "event") THEN Append(V("event"), Value(l)) ELSE V("event")
      BY <1>1, <1>8
    <2>2. W("data") = IF Says(l, "data") THEN Append(V("data"), Value(l)) ELSE V("data")
      BY <1>1, <1>8
    <2>3. Named(W("event")) = IF Says(l, "event") THEN Value(l) ELSE EventAt(t, n + 1).event
      <3>1. EventAt(t, n + 1).event = Named(V("event"))
        BY <1>3
      <3>2. CASE Says(l, "event")
        BY <2>1, <1>5, <3>2
      <3>3. CASE ~Says(l, "event")
        BY <2>1, <3>1, <3>3
      <3> QED BY <3>2, <3>3
    <2>4. EventAt(t, n + 1).data = V("data")
      BY <1>3
    <2> QED BY <2>2, <2>3, <2>4, <1>2, <1>8 DEF u, l
  <1> QED BY <1>6, <1>7, <1>8

(* One character takes the parser from a text to the text with it.          *)
LEMMA ReadOne ==
  ASSUME NEW t \in Seq(Chars), NEW c \in Chars, NEW out
  PROVE  Read(Reached(t, out), c) =
           Reached(Append(t, c), IF Ending(t, c) /\ Blank(t)
                                 THEN Append(out, EventAt(t, Len(t) + 1)) ELSE out)
  <1> DEFINE u == Append(t, c)
             n == Len(t)
             l == LineAt(t, n + 1)
             e == EventAt(t, n + 1)
             v == EventAt(u, n + 2)
             after == t # <<>> /\ t[n] = "CR"
             p == Reached(t, out)
             q == [p EXCEPT !.afterCr = (c = "CR")]
  <1>1. /\ Len(u) = n + 1 /\ u # <<>> /\ u[n + 1] = c /\ (n + 1) + 1 = n + 2
        /\ LineAt(u, n + 2) = IF c \in Breaks THEN <<>> ELSE Append(l, c)
    <2>1. u # <<>> /\ n \in Nat
      OBVIOUS
    <2> QED BY <2>1, MoreLine
  <1>2. v = IF ~Ending(t, c) THEN e
            ELSE IF Blank(t) THEN [event |-> <<>>, data |-> <<>>]
            ELSE [event |-> IF Says(l, "event") THEN Value(l) ELSE e.event,
                  data |-> IF Says(l, "data") THEN Append(e.data, Value(l)) ELSE e.data]
    BY ReachedEvent
  <1>3. \A o : Reached(u, o) = [line |-> IF c \in Breaks THEN <<>> ELSE Append(l, c),
                                afterCr |-> c = "CR", event |-> v.event, data |-> v.data,
                                out |-> o]
    BY <1>1 DEF Reached
  <1>4. p = [line |-> l, afterCr |-> after, event |-> e.event, data |-> e.data, out |-> out]
    BY DEF Reached
  <1>5. q = [line |-> l, afterCr |-> c = "CR", event |-> e.event, data |-> e.data, out |-> out]
    BY <1>4
  <1>6. Ending(t, c) <=> c \in Breaks /\ ~(c = "LF" /\ after)
    BY DEF Ending
  <1>7. e = [event |-> e.event, data |-> e.data]
    BY DEF EventAt
  <1>8. Read(p, c) = IF after /\ c = "LF" THEN [p EXCEPT !.afterCr = FALSE]
                     ELSE IF c \in Breaks THEN EndLine(q) ELSE [q EXCEPT !.line = Append(l, c)]
    <2> HIDE DEF p, after, l
    <2>1. p.afterCr = after /\ q.line = l
      BY <1>4
    <2> QED BY <2>1 DEF Read
  <1>9. after => l = <<>>
    BY AfterBreak DEF Breaks
  <1>10. Blank(t) <=> l = <<>>
    BY DEF Blank
  <1>11. l \in Seq(Chars)
    BY LineType
  <1> HIDE DEF u, l, e, v, after, p, q
  <1>12. CASE after /\ c = "LF"
    <2>1. Read(p, c) = [line |-> l, afterCr |-> FALSE, event |-> e.event, data |-> e.data, out |-> out]
      BY <1>4, <1>8, <1>12
    <2>2. ~Ending(t, c) /\ c \in Breaks /\ c # "CR" /\ v = e /\ l = <<>>
      BY <1>2, <1>6, <1>9, <1>12 DEF Breaks
    <2> QED BY <2>1, <2>2, <1>3 DEF p, u, n
  <1>13. CASE c \notin Breaks
    <2>1. ~(after /\ c = "LF") /\ c # "CR" /\ ~Ending(t, c) /\ v = e
      BY <1>2, <1>6, <1>13 DEF Breaks
    <2>2. Read(p, c) = [line |-> Append(l, c), afterCr |-> c = "CR", event |-> e.event,
                        data |-> e.data, out |-> out]
      BY <1>5, <1>8, <1>13, <2>1
    <2> QED BY <2>1, <2>2, <1>3, <1>13 DEF p, u, n
  <1>14. CASE Ending(t, c) /\ l = <<>>
    <2>1. Read(p, c) = EndLine(q)
      BY <1>6, <1>8, <1>14
    <2>2. EndLine(q) = [line |-> l, afterCr |-> c = "CR", event |-> <<>>, data |-> <<>>,
                        out |-> Append(out, e)]
      BY <1>5, <1>7, <1>14 DEF EndLine
    <2>3. v = [event |-> <<>>, data |-> <<>>]
      BY <1>2, <1>10, <1>14
    <2>4. v.event = <<>> /\ v.data = <<>> /\ c \in Breaks
      BY <2>3, <1>6, <1>14
    <2>5. EndLine(q) = Reached(u, Append(out, e))
      BY <2>2, <2>4, <1>3, <1>14
    <2> QED BY <2>1, <2>5, <1>10, <1>14 DEF p, u, n, e
  <1>15. CASE Ending(t, c) /\ l # <<>>
    <2>1. Read(p, c) = EndLine(q)
      BY <1>6, <1>8, <1>15
    <2>2. /\ Field(l) = <<"event">> <=> Says(l, "event")
          /\ Field(l) = <<"data">> <=> Says(l, "data")
          /\ Says(l, "event") => Content(l) = Value(l)
          /\ Says(l, "data") => Content(l) = Value(l)
      <3>1. "event" # ":" /\ "data" # ":"
        OBVIOUS
      <3> QED BY <3>1, <1>11, <1>15, FieldIsSaid
    <2>3. EndLine(q) = [line |-> <<>>, afterCr |-> c = "CR",
                        event |-> IF Field(l) = <<"event">> THEN Content(l) ELSE e.event,
                        data |-> IF Field(l) = <<"data">> THEN Append(e.data, Content(l)) ELSE e.data,
                        out |-> out]
      BY <1>5, <1>15 DEF EndLine
    <2>4. v = [event |-> IF Says(l, "event") THEN Value(l) ELSE e.event,
               data |-> IF Says(l, "data") THEN Append(e.data, Value(l)) ELSE e.data]
      BY <1>2, <1>10, <1>15
    <2>5. v.event = (IF Field(l) = <<"event">> THEN Content(l) ELSE e.event)
      BY <2>2, <2>4
    <2>6. v.data = (IF Field(l) = <<"data">> THEN Append(e.data, Content(l)) ELSE e.data)
      BY <2>2, <2>4
    <2>7. EndLine(q) = Reached(u, out)
      BY <2>3, <2>5, <2>6, <1>3, <1>6, <1>15
    <2> QED BY <2>1, <2>7, <1>10, <1>15 DEF p, u
  <1> QED BY <1>12, <1>13, <1>14, <1>15, <1>6

-----------------------------------------------------------------------------
(* A chunk, character by character.                                         *)

\* What ReadAll counts through.
Steps(start, chunk, f) ==
  f = [i \in 0..Len(chunk) |-> IF i = 0 THEN start ELSE Read(f[i - 1], chunk[i])]

LEMMA StepsExist ==
  ASSUME NEW start, NEW chunk, Len(chunk) \in Nat
  PROVE  \E f : Steps(start, chunk, f)
  <1> DEFINE Good(n, g) == /\ DOMAIN g = 0..n /\ g = [i \in 0..n |-> g[i]]
                           /\ g[0] = start
                           /\ \A i \in 1..n : g[i] = Read(g[i - 1], chunk[i])
             S == {n \in Nat : \A g : ~Good(n, g)}
  <1>1. S = {}
    <2> SUFFICES ASSUME S # {}
                 PROVE  FALSE
      OBVIOUS
    <2>1. S \in SUBSET Nat
      OBVIOUS
    <2> HIDE DEF S
    <2>2. PICK n \in S : \A y \in S : n <= y
      BY <2>1, LeastExists
    <2>3. n \in Nat /\ \A g : ~Good(n, g)
      BY <2>2 DEF S
    <2>4. CASE n = 0
      <3> DEFINE g == [i \in 0..0 |-> start]
      <3>1. Good(0, g)
        OBVIOUS
      <3> HIDE DEF g
      <3> QED BY <3>1, <2>3, <2>4
    <2>5. CASE n # 0
      <3>1. n - 1 \in Nat /\ n - 1 \notin S
        BY <2>2, <2>3, <2>5
      <3>2. PICK g : Good(n - 1, g)
        BY <3>1 DEF S
      <3> DEFINE h == [i \in 0..n |-> IF i = n THEN Read(g[n - 1], chunk[n]) ELSE g[i]]
      <3>3. h[0] = start
        BY <2>3, <2>5, <3>2
      <3>4. \A i \in 1..n : h[i] = Read(h[i - 1], chunk[i])
        <4> SUFFICES ASSUME NEW i \in 1..n
                     PROVE  h[i] = Read(h[i - 1], chunk[i])
          OBVIOUS
        <4>1. h[i - 1] = g[i - 1]
          BY <2>3
        <4>2. CASE i = n
          BY <4>1, <4>2
        <4>3. CASE i # n
          <5>1. i \in 1..n - 1 /\ h[i] = g[i]
            BY <4>3, <2>3
          <5> QED BY <5>1, <4>1, <3>2
        <4> QED BY <4>2, <4>3
      <3>5. DOMAIN h = 0..n /\ h = [i \in 0..n |-> h[i]]
        OBVIOUS
      <3> HIDE DEF h
      <3>6. Good(n, h)
        BY <3>3, <3>4, <3>5
      <3> QED BY <3>6, <2>3
    <2> QED BY <2>4, <2>5
  <1>2. PICK g : Good(Len(chunk), g)
    BY <1>1
  <1>3. g = [i \in 0..Len(chunk) |-> IF i = 0 THEN start ELSE Read(g[i - 1], chunk[i])]
    <2> DEFINE F == [i \in 0..Len(chunk) |-> IF i = 0 THEN start ELSE Read(g[i - 1], chunk[i])]
    <2>1. \A i \in 0..Len(chunk) : i = 0 \/ i \in 1..Len(chunk)
      OBVIOUS
    <2>2. \A i \in 0..Len(chunk) : g[i] = F[i]
      BY <1>2, <2>1
    <2> QED BY <1>2, <2>2
  <1> QED BY <1>3 DEF Steps

LEMMA ReadAllSteps ==
  ASSUME NEW start, NEW chunk, Len(chunk) \in Nat
  PROVE  \E f : /\ f[0] = start
                /\ \A i \in 1..Len(chunk) : f[i] = Read(f[i - 1], chunk[i])
                /\ ReadAll(start, chunk) = f[Len(chunk)]
  <1> DEFINE g == CHOOSE f : Steps(start, chunk, f)
  <1>1. Steps(start, chunk, g)
    BY StepsExist
  <1>2. ReadAll(start, chunk) = g[Len(chunk)]
    BY DEF ReadAll, Steps
  <1> HIDE DEF g
  <1>3. g[0] = start /\ \A i \in 1..Len(chunk) : g[i] = Read(g[i - 1], chunk[i])
    BY <1>1 DEF Steps
  <1> QED BY <1>2, <1>3

Event == [event : Seq(Chars), data : Seq(Seq(Chars))]

LEMMA EventType ==
  ASSUME NEW t \in Seq(Chars), NEW i
  PROVE  EventAt(t, i) \in Event
  <1> DEFINE names == Values(t, i, "event")
  <1>1. names \in Seq(Seq(Chars)) /\ Values(t, i, "data") \in Seq(Seq(Chars))
    BY ValuesType
  <1>2. <<>> \in Seq(Chars)
    OBVIOUS
  <1>3. EventAt(t, i) = [event |-> IF names = <<>> THEN <<>> ELSE names[Len(names)],
                         data |-> Values(t, i, "data")]
    BY DEF EventAt
  <1> HIDE DEF names
  <1>4. names # <<>> => names[Len(names)] \in Seq(Chars)
    BY <1>1
  <1> QED BY <1>1, <1>2, <1>3, <1>4 DEF Event

LEMMA EventsType ==
  ASSUME NEW t \in Seq(Chars)
  PROVE  EventsOf(t) \in Seq(Event)
  <1> DEFINE bs == InOrder(Blanks(t))
  <1>1. bs \in Seq(Blanks(t))
    BY EndsFinite, InOrderSeq
  <1>2. EventsOf(t) = [k \in DOMAIN bs |-> EventAt(t, bs[k])]
    BY DEF EventsOf
  <1> HIDE DEF bs
  <1>3. DOMAIN bs = 1..Len(bs) /\ Len(bs) \in Nat
    BY <1>1
  <1>4. \A k \in DOMAIN bs : EventAt(t, bs[k]) \in Event
    BY EventType
  <1> QED BY <1>2, <1>3, <1>4

LEMMA NoText == Reached(<<>>, <<>>) = Fresh /\ EventsOf(<<>>) = <<>>
  <1>1. <<>> \in Seq(Chars) /\ Len(<<>>) = 0
    OBVIOUS
  <1>2. Ends(<<>>) = {} /\ Blanks(<<>>) = {}
    BY DEF Ends, Blanks
  <1>3. EventsOf(<<>>) = <<>>
    <2>1. InOrder(Blanks(<<>>)) = <<>>
      BY <1>2, InOrderEmpty
    <2> QED BY <2>1 DEF EventsOf
  <1>4. \A field : Values(<<>>, 1, field) = <<>>
    <2> SUFFICES ASSUME NEW field
                 PROVE  Values(<<>>, 1, field) = <<>>
      OBVIOUS
    <2>1. Said(<<>>, 1, field) = {}
      BY <1>2 DEF Said, Block
    <2>2. InOrder(Said(<<>>, 1, field)) = <<>>
      BY <2>1, InOrderEmpty
    <2>3. Values(<<>>, 1, field) \in Seq(Seq(Chars)) /\ Len(Values(<<>>, 1, field)) = 0
      <3>1. Len(Values(<<>>, 1, field)) = Len(InOrder(Said(<<>>, 1, field)))
            /\ Values(<<>>, 1, field) \in Seq(Seq(Chars))
        BY <1>1, ValuesType
      <3> QED BY <3>1, <2>2, <1>1
    <2> QED BY <2>3
  <1>5. EventAt(<<>>, 1) = [event |-> <<>>, data |-> <<>>]
    BY <1>4 DEF EventAt
  <1>6. LineAt(<<>>, 1) = <<>>
    <2>1. LineStart(<<>>, 1) \in 1..1
      BY StartBegins DEF Begins
    <2>2. SubSeq(<<>>, 1, 0) = <<>>
      BY SubSeqEmpty
    <2> QED BY <2>1, <2>2 DEF LineAt
  <1>7. Reached(<<>>, <<>>) =
          [line |-> LineAt(<<>>, 1), afterCr |-> FALSE, event |-> EventAt(<<>>, 1).event,
           data |-> EventAt(<<>>, 1).data, out |-> <<>>]
    <2>1. Len(<<>>) + 1 = 1 /\ (<<>> # <<>> /\ <<>>[Len(<<>>)] = "CR") = FALSE
      BY <1>1
    <2> QED BY <2>1 DEF Reached
  <1> QED BY <1>3, <1>5, <1>6, <1>7 DEF Fresh

LEMMA ReadText ==
  ASSUME NEW t \in Seq(Chars), NEW chunk \in Seq(Chars)
  PROVE  \E out \in Seq(Event) :
            /\ ReadAll(Reached(t, <<>>), chunk) = Reached(t \o chunk, out)
            /\ EventsOf(t \o chunk) = EventsOf(t) \o out
  <1> DEFINE upTo(i) == t \o SubSeq(chunk, 1, i)
  <1>1. Len(chunk) \in Nat
    OBVIOUS
  <1>2. PICK f : /\ f[0] = Reached(t, <<>>)
                 /\ \A i \in 1..Len(chunk) : f[i] = Read(f[i - 1], chunk[i])
                 /\ ReadAll(Reached(t, <<>>), chunk) = f[Len(chunk)]
    BY <1>1, ReadAllSteps
  <1> DEFINE Good(i) == \E out \in Seq(Event) : /\ f[i] = Reached(upTo(i), out)
                                                /\ EventsOf(upTo(i)) = EventsOf(t) \o out
             S == {i \in 0..Len(chunk) : ~Good(i)}
  <1>3. upTo(0) = t
    <2>1. SubSeq(chunk, 1, 0) = <<>>
      BY SubSeqEmpty
    <2> QED BY <2>1, ConcatEmptySeq
  <1>4. Good(0)
    <2>1. <<>> \in Seq(Event) /\ EventsOf(t) \o <<>> = EventsOf(t)
      BY EventsType, ConcatEmptySeq
    <2> QED BY <2>1, <1>2, <1>3
  <1>5. ASSUME NEW i \in 1..Len(chunk), Good(i - 1)
        PROVE  Good(i)
    <2> DEFINE u == upTo(i - 1)
               c == chunk[i]
    <2>1. PICK out \in Seq(Event) : f[i - 1] = Reached(u, out) /\ EventsOf(u) = EventsOf(t) \o out
      BY <1>5
    <2>2. c \in Chars /\ u \in Seq(Chars)
      <3>1. SubSeq(chunk, 1, i - 1) \in Seq(Chars)
        BY <1>1
      <3> QED BY <3>1, ConcatProperties
    <2>3. upTo(i) = Append(u, c)
      <3>1. SubSeq(chunk, 1, i) = SubSeq(chunk, 1, i - 1) \o <<c>>
        BY <1>1, SubSeqRecursiveSecond
      <3>2. SubSeq(chunk, 1, i - 1) \in Seq(Chars) /\ <<c>> \in Seq(Chars)
        BY <1>1
      <3>3. upTo(i) = u \o <<c>>
        BY <3>1, <3>2, ConcatAssociative
      <3> HIDE DEF u, c
      <3> QED BY <3>3, <2>2, AppendIsConcat
    <2> DEFINE e == EventAt(u, Len(u) + 1)
               ends == Ending(u, c) /\ Blank(u)
               more == IF ends THEN Append(out, e) ELSE out
    <2> HIDE DEF upTo, u, c
    <2>4. e \in Event
      BY <2>2, EventType
    <2>5. Read(Reached(u, out), c) = Reached(Append(u, c), more)
      BY <2>2, ReadOne
    <2>6. EventsOf(Append(u, c)) = IF ends THEN Append(EventsOf(u), e) ELSE EventsOf(u)
      BY <2>2, MoreEvents
    <2> HIDE DEF e, ends
    <2>7. EventsOf(t) \in Seq(Event)
      BY EventsType
    <2>8. Append(EventsOf(t) \o out, e) = EventsOf(t) \o Append(out, e)
      <3>1. Append(out, e) = out \o <<e>> /\ <<e>> \in Seq(Event)
        BY <2>4, AppendIsConcat
      <3>2. EventsOf(t) \o out \in Seq(Event)
        BY <2>7, ConcatProperties
      <3>3. Append(EventsOf(t) \o out, e) = (EventsOf(t) \o out) \o <<e>>
        BY <3>2, <2>4, AppendIsConcat
      <3> QED BY <3>1, <3>3, <2>7, ConcatAssociative
    <2>9. more \in Seq(Event)
      BY <2>4
    <2>10. f[i] = Reached(upTo(i), more)
      <3>1. f[i] = Read(f[i - 1], chunk[i])
        BY <1>2
      <3>2. f[i] = Read(Reached(u, out), c)
        BY <3>1, <2>1 DEF c
      <3> QED BY <3>2, <2>3, <2>5
    <2>11. EventsOf(upTo(i)) = EventsOf(t) \o more
      BY <2>1, <2>3, <2>6, <2>8
    <2> HIDE DEF more
    <2> QED BY <2>9, <2>10, <2>11
  <1> HIDE DEF Good
  <1>6. S = {}
    <2> SUFFICES ASSUME S # {}
                 PROVE  FALSE
      OBVIOUS
    <2>1. S \in SUBSET Nat
      BY <1>1
    <2> HIDE DEF S
    <2>2. PICK i \in S : \A y \in S : i <= y
      BY <2>1, LeastExists
    <2>3. i \in 0..Len(chunk) /\ ~Good(i)
      BY <2>2 DEF S
    <2>4. i # 0
      BY <2>3, <1>4
    <2>5. i \in 1..Len(chunk) /\ i - 1 \in 0..Len(chunk) /\ ~(i <= i - 1)
      BY <2>3, <2>4, <1>1
    <2>6. Good(i - 1)
      BY <2>2, <2>5 DEF S
    <2> QED BY <2>3, <2>5, <2>6, <1>5
  <1>7. Good(Len(chunk))
    BY <1>1, <1>6
  <1>8. upTo(Len(chunk)) = t \o chunk
    BY SubSeqFull
  <1> HIDE DEF upTo
  <1> QED BY <1>2, <1>7, <1>8 DEF Good

-----------------------------------------------------------------------------

FramingInv ==
  /\ text \in Seq(Chars)
  /\ parser = Reached(text, <<>>)
  /\ EventsAreFramed

LEMMA ParsedFeed ==
  ASSUME FramingInv, NEW chunk \in Chunks, Feed(chunk)
  PROVE  FramingInv'
  <1>1. chunk \in Seq(Chars)
    <2>1. PICK n \in 1..MaxChunk : chunk \in [1..n -> Chars]
      BY DEF Chunks
    <2>2. n \in Nat
      OBVIOUS
    <2> QED BY <2>1, <2>2
  <1>2. text \in Seq(Chars) /\ parser = Reached(text, <<>>) /\ events = EventsOf(text)
    BY DEF FramingInv, EventsAreFramed
  <1>3. PICK out \in Seq(Event) :
          /\ ReadAll(Reached(text, <<>>), chunk) = Reached(text \o chunk, out)
          /\ EventsOf(text \o chunk) = EventsOf(text) \o out
    BY <1>1, <1>2, ReadText
  <1> DEFINE p == ReadAll(Resumed, chunk)
  <1>4. p = Reached(text \o chunk, out)
    BY <1>2, <1>3 DEF Resumed
  <1>5. text' = text \o chunk /\ parser' = [p EXCEPT !.out = <<>>] /\ events' = events \o p.out
    BY DEF Feed
  <1> HIDE DEF p
  <1>6. text' \in Seq(Chars)
    BY <1>1, <1>2, <1>5
  <1>7. p.out = out /\ parser' = Reached(text \o chunk, <<>>)
    BY <1>4, <1>5 DEF Reached
  <1>8. parser' = Reached(text', <<>>) /\ events' = EventsOf(text')
    BY <1>2, <1>3, <1>5, <1>7
  <1> QED BY <1>6, <1>8 DEF FramingInv, EventsAreFramed

(* However a text is cut into chunks, the parser dispatches its events.     *)
THEOREM FramingIsExact == Spec => []EventsAreFramed
  <1>1. Init => FramingInv
    BY NoText DEF Init, FramingInv, EventsAreFramed
  <1>2. FramingInv /\ [Next]_vars => FramingInv'
    <2> SUFFICES ASSUME FramingInv, [Next]_vars
                 PROVE  FramingInv'
      OBVIOUS
    <2>1. CASE Reconnect
      BY <2>1, NoText DEF Reconnect, FramingInv, EventsAreFramed
    <2>2. ASSUME NEW chunk \in Chunks, Feed(chunk)
          PROVE  FramingInv'
      BY <2>2, ParsedFeed
    <2>3. CASE UNCHANGED vars
      BY <2>3 DEF vars, FramingInv, EventsAreFramed
    <2> QED BY <2>1, <2>2, <2>3 DEF Next
  <1>3. FramingInv => EventsAreFramed
    BY DEF FramingInv
  <1> QED BY <1>1, <1>2, <1>3, PTL DEF Spec
=============================================================================
