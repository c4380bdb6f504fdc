------------------------- MODULE TraceAnalysis_proofs -------------------------
(***************************************************************************)
(* The passes over a trace, for every trace of every length: what a fold   *)
(* leaves after each event and each line of an access; the oracle's pass   *)
(* only goes on; without ticks it agrees with that over the lifetimes; and  *)
(* a percentile of the lifetimes covers its share of the bytes.            *)
(***************************************************************************)
EXTENDS TraceAnalysis, FiniteSetTheorems, SequenceTheorems, WellFoundedInduction, TLAPS

\* A nonempty set of numbers has a least one; the smallest of the intervals
\* 1..n is the one with the least n.
LEMMA Least ==
  ASSUME NEW T, T \subseteq Nat, T # {}
  PROVE  \E n \in T : \A m \in T : n <= m
<1> DEFINE Intervals == {1..n : n \in T}
<1>1. Intervals \subseteq FiniteSubsetsOf(Nat) /\ Intervals # {}
  <2>1. ASSUME NEW n \in T PROVE 1..n \in FiniteSubsetsOf(Nat)
    <3>1. IsFiniteSet(1..n) BY FS_Interval, n \in Int
    <3> QED BY <3>1 DEF FiniteSubsetsOf
  <2> QED BY <2>1
<1>2. PICK x \in Intervals : \A y \in Intervals : <<y, x>> \notin StrictSubsetOrdering(Nat)
  BY <1>1, FS_StrictSubsetOrderingWellFounded, WFMin
<1>3. PICK n \in T : x = 1..n OBVIOUS
<1>4. ASSUME NEW m \in T, ~(n <= m) PROVE FALSE
  <2>1. 1..m \subseteq 1..n /\ 1..m # 1..n /\ 1..m \in Intervals
    <3>1. n \in Nat /\ m \in Nat /\ m < n BY <1>4
    <3>2. n \in 1..n /\ n \notin 1..m BY <3>1
    <3> QED BY <3>1, <3>2
  <2>2. <<1..m, 1..n>> \in StrictSubsetOrdering(Nat)
    BY <2>1 DEF StrictSubsetOrdering
  <2> QED BY <2>1, <2>2, <1>2, <1>3
<1> QED BY <1>4

LEMMA MaxIs ==
  ASSUME NEW S, S \subseteq Nat, IsFiniteSet(S), S # {}
  PROVE  Max(S) \in S /\ \A y \in S : Max(S) >= y
<1> DEFINE Above(x) == {y \in S : y > x}
           All == {Above(x) : x \in S}
<1>1. All \subseteq FiniteSubsetsOf(S) /\ All # {}
  <2>1. \A x \in S : IsFiniteSet(Above(x)) /\ Above(x) \subseteq S
    <3>1. \A x \in S : Above(x) \subseteq S OBVIOUS
    <3> QED BY <3>1, FS_Subset
  <2> QED BY <2>1 DEF FiniteSubsetsOf
<1>2. PICK A \in All : \A B \in All : <<B, A>> \notin StrictSubsetOrdering(S)
  BY <1>1, FS_StrictSubsetOrderingWellFounded, WFMin
<1>3. PICK x \in S : A = Above(x) OBVIOUS
<1>4. ASSUME NEW y \in S, y > x PROVE FALSE
  <2>1. Above(y) \subseteq A /\ y \in A /\ y \notin Above(y) /\ Above(y) \in All
    <3>1. Above(y) \in All OBVIOUS
    <3>2. y \in A /\ y \notin Above(y) BY <1>3, <1>4
    <3>3. ASSUME NEW z \in Above(y) PROVE z \in Above(x)
      <4>1. z \in Nat /\ y \in Nat /\ x \in Nat /\ z > y /\ z \in S OBVIOUS
      <4> QED BY <4>1, <1>4
    <3> QED BY <3>1, <3>2, <3>3, <1>3
  <2>2. <<Above(y), A>> \in StrictSubsetOrdering(S)
    BY <2>1, <1>3 DEF StrictSubsetOrdering
  <2> QED BY <2>1, <2>2, <1>2
<1>5. \A y \in S : x >= y
  BY <1>4
<1> QED BY <1>5 DEF Max

LEMMA MinIs ==
  ASSUME NEW S, S \subseteq Nat, S # {}
  PROVE  Min(S) \in S /\ \A y \in S : Min(S) =< y
BY Least DEF Min

LEMMA Division ==
  ASSUME NEW a \in Nat, NEW b \in Nat, a <= b, NEW d \in Nat \ {0}
  PROVE  a \div d \in Nat /\ a \div d <= b \div d
OBVIOUS

LEMMA DivisionBelow ==
  ASSUME NEW a \in Nat, NEW n \in Nat, a < n, NEW d \in Nat \ {0}
  PROVE  (n + d - 1) \div d \in Nat /\ a \div d < (n + d - 1) \div d
OBVIOUS

LEMMA AlignedIs ==
  ASSUME NEW n \in Nat \ {0}
  PROVE  AlignedLines(n) \in Nat \ {0}
<1>1. (n + LineBytes - 1) \div LineBytes \in Nat /\ 0 \div LineBytes < (n + LineBytes - 1) \div LineBytes
  BY DivisionBelow, LineAssumption
<1>2. 0 \div LineBytes \in Nat
  BY Division, LineAssumption
<1> QED BY <1>1, <1>2 DEF AlignedLines

LEMMA AccessLines ==
  ASSUME NEW e \in TraceEvent, NEW size \in Nat, InBounds(e, size)
  PROVE  /\ FirstLine(e) \in Nat /\ LastLine(e) \in Nat /\ FirstLine(e) <= LastLine(e)
         /\ LastLine(e) < AlignedLines(size)
<1> DEFINE first == e.offset
           last == e.offset + e.size - 1
<1>1. first \in Nat /\ last \in Nat /\ first <= last /\ last < size
  BY DEF TraceEvent, InBounds
<1>2. FirstLine(e) = first \div LineBytes /\ LastLine(e) = last \div LineBytes
      /\ AlignedLines(size) = (size + LineBytes - 1) \div LineBytes
  BY DEF FirstLine, LastLine, AlignedLines
<1> HIDE DEF first, last
<1> QED BY <1>1, <1>2, Division, DivisionBelow, LineAssumption

-----------------------------------------------------------------------------
(* What a fold computes.  A fold over a sequence is defined by a recursive   *)
(* function on sets of indices: it exists, and its values for the first      *)
(* indices are the trail the fold leaves.                                    *)

LEMMA FirstIndices ==
  ASSUME NEW n \in Nat \ {0}
  PROVE  /\ 1..n # {} /\ Max(1..n) = n /\ (1..n) \ {n} = 1..(n - 1)
<1>1. 1..n \subseteq Nat /\ IsFiniteSet(1..n) /\ 1..n # {} /\ n \in 1..n
  <2>1. IsFiniteSet(1..n) BY FS_Interval
  <2> QED BY <2>1
<1>2. Max(1..n) \in 1..n /\ \A y \in 1..n : Max(1..n) >= y
  <2> QED BY <1>1, MaxIs
<1>3. (1..n) \ {n} = 1..(n - 1) OBVIOUS
<1> QED BY <1>1, <1>2, <1>3

\* What is true of the start and of each next value is true of all.
LEMMA Along ==
  ASSUME NEW n \in Nat, NEW P, 0 \in P, \A i \in 1..n : i - 1 \in P => i \in P
  PROVE  \A i \in 0..n : i \in P
<1> SUFFICES ASSUME ~(\A i \in 0..n : i \in P) PROVE FALSE
  OBVIOUS
<1> DEFINE T == {i \in 0..n : i \notin P}
<1>1. T \subseteq Nat /\ T # {} OBVIOUS
<1>2. PICK m \in T : \A k \in T : m <= k
  <2> HIDE DEF T
  <2> QED BY <1>1, Least
<1>3. m \in 1..n /\ m - 1 \in 0..n /\ ~(m <= m - 1) OBVIOUS
<1>4. m - 1 \in P BY <1>2, <1>3
<1> QED BY <1>3, <1>4

\* A fold of n elements of T into S, its step as a function, and its recursive function.
Folding(S, T, base, step, n, seq) ==
  base \in S /\ step \in [S \X T -> S] /\ n \in Nat /\ seq \in [1..n -> T]

Recursive(S, base, step, n, seq, g) ==
  /\ g \in [SUBSET (1..n) -> S]
  /\ \A s \in SUBSET (1..n) :
       g[s] = IF s = {} THEN base ELSE step[<<g[s \ {Max(s)}], seq[Max(s)]>>]

\* As long as its values are in S, h is the recursive function.
Computing(S, base, step, n, seq, h) ==
  \A s \in SUBSET (1..n) :
    IF s = {} THEN h[s] = base
    ELSE h[s \ {Max(s)}] \in S => h[s] = step[<<h[s \ {Max(s)}], seq[Max(s)]>>]

\* The values for the first indices.
Trail(S, base, step, n, seq, f) ==
  f \in [0..n -> S] /\ f[0] = base /\ \A i \in 1..n : f[i] = step[<<f[i - 1], seq[i]>>]

LEMMA FoldExists ==
  ASSUME NEW S, NEW T, NEW base, NEW step, NEW n, NEW seq, Folding(S, T, base, step, n, seq)
  PROVE  \E g : Recursive(S, base, step, n, seq, g)
<1>a. /\ base \in S /\ step \in [S \X T -> S] /\ n \in Nat /\ seq \in [1..n -> T]
  BY DEF Folding
<1> USE <1>a
<1> DEFINE Right(g, m) == \A s \in SUBSET (1..m) :
                 g[s] = IF s = {} THEN base ELSE step[<<g[s \ {Max(s)}], seq[Max(s)]>>]
           P == {m \in 0..n : \E g \in [SUBSET (1..m) -> S] : Right(g, m)}
<1>0. ASSUME NEW m \in 0..n, NEW s \in SUBSET (1..m), s # {}
      PROVE  Max(s) \in s /\ Max(s) \in 1..n /\ \A y \in s : y <= Max(s)
  <2>1. s \subseteq Nat BY <1>0
  <2>2. IsFiniteSet(s)
    <3>1. IsFiniteSet(1..m) BY FS_Interval
    <3> QED BY <3>1, FS_Subset
  <2>3. Max(s) \in s /\ \A y \in s : Max(s) >= y BY <1>0, <2>1, <2>2, MaxIs
  <2>4. Max(s) \in Nat /\ \A y \in s : y \in Nat BY <2>1, <2>3
  <2> QED BY <2>3, <2>4
<1>1. 0 \in P
  <2> DEFINE g == [s \in SUBSET (1..0) |-> base]
  <2>1. g \in [SUBSET (1..0) -> S] OBVIOUS
  <2>2. \A s \in SUBSET (1..0) : s = {} OBVIOUS
  <2>3. \A s \in SUBSET (1..0) : g[s] = base OBVIOUS
  <2> HIDE DEF g
  <2>4. Right(g, 0) BY <2>2, <2>3
  <2>5. \E f \in [SUBSET (1..0) -> S] : Right(f, 0) BY <2>1, <2>4, Zenon
  <2>6. 0 \in 0..n OBVIOUS
  <2> HIDE DEF Right
  <2> QED BY <2>5, <2>6
<1>2. ASSUME NEW i \in 1..n, i - 1 \in P PROVE i \in P
  <2>1. PICK g \in [SUBSET (1..(i - 1)) -> S] : Right(g, i - 1) BY <1>2
  <2>2. i - 1 \in 0..n /\ i \in 0..n /\ 1..(i - 1) \subseteq 1..i
        /\ \A s \in SUBSET (1..i) : s \ {i} \in SUBSET (1..(i - 1))
    OBVIOUS
  <2> DEFINE h == [s \in SUBSET (1..i) |->
                     IF i \in s THEN step[<<g[s \ {i}], seq[i]>>] ELSE g[s]]
  <2>3. h \in [SUBSET (1..i) -> S]
    <3> SUFFICES ASSUME NEW s \in SUBSET (1..i) PROVE h[s] \in S OBVIOUS
    <3>1. CASE i \in s
      <4>1. g[s \ {i}] \in S /\ seq[i] \in T BY <2>2
      <4>2. <<g[s \ {i}], seq[i]>> \in S \X T BY <4>1
      <4> QED BY <3>1, <4>2
    <3>2. CASE i \notin s
      <4>1. s \in SUBSET (1..(i - 1)) BY <2>2, <3>2
      <4> QED BY <3>2, <4>1
    <3> QED BY <3>1, <3>2
  <2>4. ASSUME NEW s \in SUBSET (1..i)
        PROVE  h[s] = IF s = {} THEN base ELSE step[<<h[s \ {Max(s)}], seq[Max(s)]>>]
    <3>1. CASE i \in s
      <4>1. Max(s) = i
        <5>1. Max(s) \in s /\ i <= Max(s) BY <1>0, <2>2, <3>1
              <5>2. Max(s) \in 1..i BY <5>1
        <5> QED BY <5>1, <5>2
      <4>2. s # {} /\ i \notin s \ {i} /\ s \ {i} \in SUBSET (1..i) BY <3>1
      <4>3. h[s \ {i}] = g[s \ {i}] BY <4>2
      <4>4. h[s] = step[<<g[s \ {i}], seq[i]>>] BY <3>1
      <4> HIDE DEF h
      <4>5. h[s] = step[<<h[s \ {i}], seq[i]>>] BY <4>3, <4>4
      <4> QED BY <4>1, <4>2, <4>5
    <3>2. CASE i \notin s
      <4>1. s \in SUBSET (1..(i - 1)) /\ h[s] = g[s] BY <2>2, <3>2
      <4>2. CASE s = {}
        <5>1. g[s] = base BY <2>1, <4>1, <4>2
        <5> HIDE DEF h
        <5> QED BY <4>1, <4>2, <5>1
      <4>3. CASE s # {}
        <5> DEFINE r == s \ {Max(s)}
        <5>1. r \in SUBSET (1..i) /\ i \notin r BY <3>2
        <5>2. h[r] = g[r] BY <5>1
        <5>3. g[s] = step[<<g[r], seq[Max(s)]>>] BY <2>1, <4>1, <4>3
        <5> HIDE DEF h, r
        <5>4. h[s] = step[<<h[r], seq[Max(s)]>>] BY <4>1, <5>2, <5>3
        <5> QED BY <4>3, <5>4 DEF r
      <4> QED BY <4>2, <4>3
    <3> QED BY <3>1, <3>2
  <2>5. Right(h, i) BY <2>4
  <2> HIDE DEF h
  <2> QED BY <2>2, <2>3, <2>5
<1>3. n \in P
  <2> HIDE DEF P
  <2>1. \A i \in 0..n : i \in P BY <1>1, <1>2, Along
  <2> QED BY <2>1
<1>4. PICK g \in [SUBSET (1..n) -> S] : Right(g, n) BY <1>3
<1> QED BY <1>4 DEF Recursive

\* The trail a fold leaves.
LEMMA FoldTrail ==
  ASSUME NEW S, NEW T, NEW base, NEW step, NEW n, NEW seq, NEW h,
         Folding(S, T, base, step, n, seq), Computing(S, base, step, n, seq, h)
  PROVE  \E f : Trail(S, base, step, n, seq, f) /\ f[n] = h[1..n]
<1>a. /\ base \in S /\ step \in [S \X T -> S] /\ n \in Nat /\ seq \in [1..n -> T]
  BY DEF Folding
<1> USE <1>a
<1> DEFINE f == [i \in 0..n |-> h[1..i]]
           P == {i \in 0..n : f[i] \in S}
<1>1. 0 \in 0..n /\ n \in 0..n /\ f[0] = h[1..0] /\ f[n] = h[1..n] OBVIOUS
<1>2. f[0] = base
  <2>1. 1..0 = {} /\ {} \in SUBSET (1..n) OBVIOUS
  <2>2. h[{}] = base BY <2>1 DEF Computing
  <2>3. h[1..0] = h[{}] BY <2>1, Zenon
  <2> QED BY <1>1, <2>2, <2>3
<1>3. ASSUME NEW i \in 1..n, f[i - 1] \in S PROVE f[i] = step[<<f[i - 1], seq[i]>>]
  <2>1. i \in Nat \ {0} /\ i \in 0..n /\ i - 1 \in 0..n /\ 1..i \in SUBSET (1..n) OBVIOUS
  <2>2. 1..i # {} /\ Max(1..i) = i /\ (1..i) \ {i} = 1..(i - 1) BY <2>1, FirstIndices
  <2>3. f[i] = h[1..i] /\ f[i - 1] = h[1..(i - 1)] BY <2>1
  <2>4. h[(1..i) \ {Max(1..i)}] = h[1..(i - 1)] BY <2>2, Zenon
  <2>5. (IF 1..i = {} THEN h[1..i] = base
         ELSE h[(1..i) \ {Max(1..i)}] \in S =>
                h[1..i] = step[<<h[(1..i) \ {Max(1..i)}], seq[Max(1..i)]>>])
    BY <2>1, Zenon DEF Computing
  <2> HIDE DEF f
  <2> QED BY <1>3, <2>2, <2>3, <2>4, <2>5
<1>4. \A i \in 0..n : i \in P
  <2>1. 0 \in P BY <1>1, <1>2
  <2>2. ASSUME NEW i \in 1..n, i - 1 \in P PROVE i \in P
    <3>1. i \in 0..n /\ seq[i] \in T /\ f[i - 1] \in S BY <2>2
    <3>2. f[i] = step[<<f[i - 1], seq[i]>>] BY <1>3, <3>1
    <3> HIDE DEF f
    <3>3. <<f[i - 1], seq[i]>> \in S \X T BY <3>1
    <3> QED BY <3>1, <3>2, <3>3
  <2> HIDE DEF P
  <2> QED BY <2>1, <2>2, Along
<1>5. f \in [0..n -> S]
  <2>1. \A i \in 0..n : f[i] \in S BY <1>4
  <2> QED BY <2>1
<1>6. \A i \in 1..n : f[i] = step[<<f[i - 1], seq[i]>>]
  <2> TAKE i \in 1..n
  <2>1. f[i - 1] \in S
    <3>1. i - 1 \in 0..n OBVIOUS
    <3> QED BY <1>4, <3>1
  <2> QED BY <1>3, <2>1
<1> HIDE DEF f
<1>7. Trail(S, base, step, n, seq, f) BY <1>2, <1>5, <1>6 DEF Trail
<1> QED BY <1>1, <1>7

-----------------------------------------------------------------------------
(* The oracle's pass over a trace.                                           *)

Dated == UNION {[D -> Nat] : D \in SUBSET Nat}
OracleState ==
  [cycle : Nat, valid : BOOLEAN, size : [Buffer -> Nat], written : [Buffer -> Dated],
   age : [Buffer -> Nat]]

LEMMA DatedIs ==
  /\ <<>> \in Dated
  /\ \A f \in Dated : f \in [DOMAIN f -> Nat] /\ DOMAIN f \subseteq Nat
  /\ \A f \in Dated, k \in Nat, v \in Nat : Put(f, k, v) \in Dated
<1>1. <<>> \in Dated
  <2>1. <<>> \in [{} -> Nat] /\ {} \in SUBSET Nat OBVIOUS
  <2> QED BY <2>1 DEF Dated
<1>2. \A f \in Dated : f \in [DOMAIN f -> Nat] /\ DOMAIN f \subseteq Nat
  BY DEF Dated
<1>3. ASSUME NEW f \in Dated, NEW k \in Nat, NEW v \in Nat PROVE Put(f, k, v) \in Dated
  <2>1. DOMAIN f \cup {k} \in SUBSET Nat BY <1>2
  <2>2. Put(f, k, v) \in [DOMAIN f \cup {k} -> Nat] BY <1>2 DEF Put
  <2> QED BY <2>1, <2>2 DEF Dated
<1> QED BY <1>1, <1>2, <1>3

LEMMA SlowestIs ==
  /\ SlowestRead \in Nat /\ \A c \in Class : ReadCycles[c] \in Nat /\ ReadCycles[c] <= SlowestRead
  /\ SlowestWrite \in Nat /\ \A c \in Class : WriteCycles[c] \in Nat /\ WriteCycles[c] <= SlowestWrite
<1>1. ASSUME NEW f \in [Class -> Nat]
      PROVE  Greatest(f) \in Nat /\ \A c \in Class : f[c] \in Nat /\ f[c] <= Greatest(f)
  <2> DEFINE T == {f[c] : c \in Class}
  <2>1. T \subseteq Nat /\ T # {} BY DEF Class
  <2>2. IsFiniteSet(T)
    <3>1. T = {f[Ephemeral]} \cup {f[Epoch]} \cup {f[Durable]} BY DEF Class
    <3> HIDE DEF T
    <3>2. IsFiniteSet({f[Ephemeral]}) BY FS_Singleton
    <3>3. IsFiniteSet({f[Ephemeral]} \cup {f[Epoch]}) BY <3>2, FS_AddElement
    <3>4. IsFiniteSet({f[Ephemeral]} \cup {f[Epoch]} \cup {f[Durable]}) BY <3>3, FS_AddElement
    <3> QED BY <3>1, <3>4
  <2>3. Max(T) \in T /\ \A y \in T : Max(T) >= y
    <3> HIDE DEF T
    <3> QED BY <2>1, <2>2, MaxIs
  <2>4. Greatest(f) = Max(T) BY DEF Greatest
  <2>5. Greatest(f) \in Nat /\ \A c \in Class : Greatest(f) >= f[c] /\ f[c] \in Nat
    BY <2>1, <2>3, <2>4
  <2> HIDE DEF T
  <2> QED BY <2>5
<1>2. ReadCycles \in [Class -> Nat] /\ WriteCycles \in [Class -> Nat] BY ProfileAssumption
<1> QED BY <1>1, <1>2 DEF SlowestRead, SlowestWrite

\* One line of an access, field by field.
LEMMA TouchIs ==
  ASSUME NEW s \in OracleState, NEW e \in TraceEvent, NEW l \in Nat
  PROVE  LET t == OracleTouch(s, e, l)
             b == e.buffer
         IN  /\ t \in OracleState /\ t.valid = s.valid /\ t.size = s.size
             /\ \A c \in Buffer \ {b} : t.written[c] = s.written[c] /\ t.age[c] = s.age[c]
             /\ e.write => /\ t.cycle = s.cycle + SlowestWrite /\ t.age = s.age
                           /\ t.written[b] = Put(s.written[b], l, t.cycle)
             /\ ~e.write => /\ t.cycle = s.cycle + SlowestRead /\ t.written = s.written
                            /\ t.age[b] = IF l \in DOMAIN s.written[b]
                                          THEN Later(s.age[b], s.cycle - s.written[b][l])
                                          ELSE s.age[b]
<1> DEFINE b == e.buffer
<1>1. b \in Buffer /\ e.write \in BOOLEAN BY DEF TraceEvent
<1>2. s.cycle \in Nat /\ s.written \in [Buffer -> Dated] /\ s.age \in [Buffer -> Nat]
  BY DEF OracleState
<1>3. CASE e.write
  <2>1. PICK n \in Nat : n = s.cycle + SlowestWrite BY <1>2, SlowestIs
  <2>2. PICK w \in Dated : w = Put(s.written[b], l, n) BY <1>1, <1>2, DatedIs
  <2>3. PICK v \in [Buffer -> Dated] : v = [s.written EXCEPT ![b] = w] BY <1>2
  <2>4. OracleTouch(s, e, l) = [s EXCEPT !.cycle = n, !.written = v]
    BY <1>3, <2>1, <2>2, <2>3 DEF OracleTouch, OracleState
  <2>5. [s EXCEPT !.cycle = n, !.written = v] \in OracleState BY DEF OracleState
  <2>6. /\ [s EXCEPT !.cycle = n, !.written = v].cycle = n
        /\ [s EXCEPT !.cycle = n, !.written = v].written = v
        /\ [s EXCEPT !.cycle = n, !.written = v].valid = s.valid
        /\ [s EXCEPT !.cycle = n, !.written = v].size = s.size
        /\ [s EXCEPT !.cycle = n, !.written = v].age = s.age
    BY DEF OracleState
  <2>7. v[b] = w /\ \A c \in Buffer \ {b} : v[c] = s.written[c] BY <1>1, <1>2, <2>3
  <2> QED BY <1>1, <1>3, <2>1, <2>2, <2>4, <2>5, <2>6, <2>7
<1>4. CASE ~e.write
  <2> DEFINE a == IF l \in DOMAIN s.written[b]
                  THEN Later(s.age[b], s.cycle - s.written[b][l]) ELSE s.age[b]
  <2>1. PICK n \in Nat : n = s.cycle + SlowestRead BY <1>2, SlowestIs
  <2>2. a \in Nat
    <3>1. CASE l \in DOMAIN s.written[b]
      <4>1. s.written[b][l] \in Nat /\ s.age[b] \in Nat BY <1>1, <1>2, <3>1, DatedIs
      <4>2. Later(s.age[b], s.cycle - s.written[b][l]) \in Nat BY <1>2, <4>1 DEF Later
      <4> QED BY <3>1, <4>2
    <3>2. CASE l \notin DOMAIN s.written[b] BY <1>1, <1>2, <3>2
    <3> QED BY <3>1, <3>2
  <2>3. PICK m \in Nat : m = a BY <2>2
  <2>4. PICK v \in [Buffer -> Nat] : v = [s.age EXCEPT ![b] = m] BY <1>2
  <2>5. OracleTouch(s, e, l) = [s EXCEPT !.cycle = n, !.age = v]
    BY <1>4, <2>1, <2>3, <2>4 DEF OracleTouch, OracleState
  <2>6. [s EXCEPT !.cycle = n, !.age = v] \in OracleState BY DEF OracleState
  <2>7. /\ [s EXCEPT !.cycle = n, !.age = v].cycle = n
        /\ [s EXCEPT !.cycle = n, !.age = v].age = v
        /\ [s EXCEPT !.cycle = n, !.age = v].valid = s.valid
        /\ [s EXCEPT !.cycle = n, !.age = v].size = s.size
        /\ [s EXCEPT !.cycle = n, !.age = v].written = s.written
    BY DEF OracleState
  <2>8. v[b] = m /\ \A c \in Buffer \ {b} : v[c] = s.age[c] BY <1>1, <1>2, <2>4
  <2> QED BY <1>1, <1>4, <2>1, <2>3, <2>5, <2>6, <2>7, <2>8
<1> QED BY <1>3, <1>4

\* The pass goes on: what it has seen only grows, and the lines of the buffers outside B
\* keep their dates.
Onward(s, t, B) ==
  /\ s.cycle <= t.cycle /\ (t.valid => s.valid)
  /\ \A b \in Buffer : s.age[b] <= t.age[b]
  /\ \A b \in Buffer \ B : t.written[b] = s.written[b]

LEMMA OnwardIs ==
  /\ \A s \in OracleState : \A B : Onward(s, s, B)
  /\ \A s, t, u \in OracleState : \A B : Onward(s, t, B) /\ Onward(t, u, B) => Onward(s, u, B)
<1>1. ASSUME NEW s \in OracleState PROVE s.cycle \in Nat /\ \A b \in Buffer : s.age[b] \in Nat
  BY DEF OracleState
<1>2. \A s \in OracleState : \A B : Onward(s, s, B)
  BY <1>1 DEF Onward
<1>3. ASSUME NEW s \in OracleState, NEW t \in OracleState, NEW u \in OracleState, NEW B,
             Onward(s, t, B), Onward(t, u, B)
      PROVE  Onward(s, u, B)
  <2>1. \A b \in Buffer : s.age[b] <= u.age[b]
    <3> TAKE b \in Buffer
    <3>1. s.age[b] <= t.age[b] /\ t.age[b] <= u.age[b] BY <1>3 DEF Onward
    <3> QED BY <1>1, <3>1
  <2>2. s.cycle <= u.cycle BY <1>1, <1>3 DEF Onward
  <2> QED BY <1>3, <2>1, <2>2 DEF Onward
<1> QED BY <1>2, <1>3

LEMMA OnwardAlong ==
  ASSUME NEW n \in Nat, NEW f \in [0..n -> OracleState], NEW B,
         \A i \in 1..n : Onward(f[i - 1], f[i], B), NEW i \in 0..n
  PROVE  \A j \in i..n : Onward(f[i], f[j], B)
<1> DEFINE P == {j \in 0..n : i <= j => Onward(f[i], f[j], B)}
<1>1. 0 \in P
  <2>1. i <= 0 => i = 0 OBVIOUS
  <2> QED BY <2>1, OnwardIs
<1>2. ASSUME NEW j \in 1..n, j - 1 \in P PROVE j \in P
  <2>1. j \in 0..n /\ j - 1 \in 0..n /\ f[j] \in OracleState /\ f[j - 1] \in OracleState
        /\ f[i] \in OracleState
    OBVIOUS
  <2>2. CASE i <= j - 1
    <3>1. Onward(f[i], f[j - 1], B) /\ Onward(f[j - 1], f[j], B) BY <1>2, <2>2
    <3>2. Onward(f[i], f[j], B) BY <2>1, <3>1, OnwardIs
    <3> QED BY <2>1, <3>2
  <2>3. CASE i = j BY <2>1, <2>3, OnwardIs
  <2>4. i <= j => i <= j - 1 \/ i = j OBVIOUS
  <2> QED BY <2>1, <2>2, <2>3, <2>4
<1>3. \A j \in 0..n : j \in P
  <2> HIDE DEF P
  <2> QED BY <1>1, <1>2, Along
<1> QED BY <1>3

LEMMA TouchOnward ==
  ASSUME NEW s \in OracleState, NEW e \in TraceEvent, NEW l \in Nat
  PROVE  Onward(s, OracleTouch(s, e, l), IF e.write THEN {e.buffer} ELSE {})
<1> DEFINE b == e.buffer
<1>0. PICK t \in OracleState : t = OracleTouch(s, e, l) BY TouchIs
<1>1. /\ t.valid = s.valid
      /\ \A c \in Buffer \ {b} : t.written[c] = s.written[c] /\ t.age[c] = s.age[c]
      /\ e.write => t.cycle = s.cycle + SlowestWrite /\ t.age = s.age
      /\ ~e.write => /\ t.cycle = s.cycle + SlowestRead /\ t.written = s.written
                     /\ t.age[b] = s.age[b] \/ \E x : t.age[b] = Later(s.age[b], x)
  BY <1>0, TouchIs
<1>2. /\ s.cycle \in Nat /\ SlowestRead \in Nat /\ SlowestWrite \in Nat
      /\ \A c \in Buffer : s.age[c] \in Nat /\ t.age[c] \in Nat
  BY SlowestIs DEF OracleState
<1>3. s.cycle <= t.cycle BY <1>1, <1>2
<1>4. \A c \in Buffer : s.age[c] <= t.age[c]
  <2> TAKE c \in Buffer
  <2>1. s.age[c] <= s.age[c] BY <1>2
  <2>2. CASE c # b \/ e.write BY <1>1, <2>1, <2>2
  <2>3. CASE c = b /\ ~e.write
    <3>1. CASE t.age[b] = s.age[b] BY <2>1, <2>3, <3>1
    <3>2. ASSUME NEW x, t.age[b] = Later(s.age[b], x) PROVE s.age[b] <= t.age[b]
      <4>1. CASE s.age[b] >= x BY <2>1, <2>3, <3>2, <4>1 DEF Later
      <4>2. CASE ~(s.age[b] >= x)
        <5>1. t.age[b] = x BY <3>2, <4>2 DEF Later
        <5> QED BY <1>2, <2>3, <4>2, <5>1
      <4> QED BY <4>1, <4>2
    <3> QED BY <1>1, <2>3, <3>1, <3>2
  <2> QED BY <2>2, <2>3
<1>5. \A c \in Buffer \ (IF e.write THEN {b} ELSE {}) : t.written[c] = s.written[c]
  BY <1>1
<1> QED BY <1>0, <1>1, <1>3, <1>4, <1>5 DEF Onward

Count(e) == LastLine(e) - FirstLine(e) + 1

LEMMA CountIs ==
  ASSUME NEW e \in TraceEvent
  PROVE  /\ FirstLine(e) \in Nat /\ LastLine(e) \in Nat /\ FirstLine(e) <= LastLine(e)
         /\ Count(e) \in Nat \ {0} /\ LinesOf(e) \in [1..Count(e) -> Nat]
         /\ \A i \in 1..Count(e) : LinesOf(e)[i] = FirstLine(e) + i - 1
<1>1. /\ e.offset + e.size \in Nat /\ InBounds(e, e.offset + e.size)
  BY DEF TraceEvent, InBounds
<1>2. FirstLine(e) \in Nat /\ LastLine(e) \in Nat /\ FirstLine(e) <= LastLine(e)
  BY <1>1, AccessLines
<1>3. Count(e) \in Nat \ {0} BY <1>2 DEF Count
<1>4. \A i \in 1..Count(e) : FirstLine(e) + i - 1 \in Nat BY <1>2, <1>3
<1>5. LinesOf(e) = [i \in 1..Count(e) |-> FirstLine(e) + i - 1] BY DEF LinesOf, Count
<1> QED BY <1>2, <1>3, <1>4, <1>5

\* The pass over the lines of one access.
Touching(s, e, f) ==
  /\ f \in [0..Count(e) -> OracleState] /\ f[0] = s
  /\ f[Count(e)] = FoldLeft(LAMBDA t, l : OracleTouch(t, e, l), s, LinesOf(e))
  /\ \A i \in 1..Count(e) : f[i] = OracleTouch(f[i - 1], e, FirstLine(e) + i - 1)

LEMMA TouchingIs ==
  ASSUME NEW s \in OracleState, NEW e \in TraceEvent
  PROVE  \E f : Touching(s, e, f)
<1> DEFINE n == Count(e)
           seq == LinesOf(e)
           step == [p \in OracleState \X Nat |-> OracleTouch(p[1], e, p[2])]
           Right(h) == h = [r \in SUBSET (DOMAIN seq) |->
                             IF r = {} THEN s ELSE OracleTouch(h[r \ {Max(r)}], e, seq[Max(r)])]
           h == CHOOSE h : Right(h)
<1>1. n \in Nat /\ seq \in [1..n -> Nat] /\ DOMAIN seq = 1..n
      /\ \A i \in 1..n : seq[i] = FirstLine(e) + i - 1
  BY CountIs
<1>2. step \in [OracleState \X Nat -> OracleState]
  <2>1. ASSUME NEW p \in OracleState \X Nat PROVE OracleTouch(p[1], e, p[2]) \in OracleState
    BY TouchIs
  <2> QED BY <2>1
<1>3. \A t \in OracleState, l \in Nat : step[<<t, l>>] = OracleTouch(t, e, l) OBVIOUS
<1>4. FoldLeft(LAMBDA t, l : OracleTouch(t, e, l), s, seq) = h[DOMAIN seq]
  BY DEF FoldLeft, MapThenFoldSet
<1> HIDE DEF seq, n, step
<1>5. Folding(OracleState, Nat, s, step, n, seq) BY <1>1, <1>2 DEF Folding
<1>6. ASSUME NEW r \in SUBSET (1..n), r # {} PROVE seq[Max(r)] \in Nat
  <2>1. IsFiniteSet(1..n) BY <1>1, FS_Interval
  <2>2. IsFiniteSet(r) BY <2>1, FS_Subset
  <2>3. r \subseteq Nat BY <1>1
  <2>4. Max(r) \in r BY <1>6, <2>2, <2>3, MaxIs
  <2> QED BY <1>1, <2>4
<1>7. Right(h)
  <2>1. PICK g : Recursive(OracleState, s, step, n, seq, g) BY <1>5, FoldExists
  <2>2. \A r \in SUBSET (1..n) : r # {} =>
          step[<<g[r \ {Max(r)}], seq[Max(r)]>>] = OracleTouch(g[r \ {Max(r)}], e, seq[Max(r)])
    BY <1>3, <1>6, <2>1 DEF Recursive
  <2>3. Right(g) BY <1>1, <2>1, <2>2 DEF Recursive
  <2>4. \E x : Right(x) BY <2>3
  <2> HIDE DEF Right
  <2> QED BY <2>4 DEF h
<1> HIDE DEF h
<1>8. Computing(OracleState, s, step, n, seq, h)
  <2> SUFFICES ASSUME NEW r \in SUBSET (1..n)
               PROVE  IF r = {} THEN h[r] = s
                      ELSE h[r \ {Max(r)}] \in OracleState =>
                             h[r] = step[<<h[r \ {Max(r)}], seq[Max(r)]>>]
    BY DEF Computing
  <2>1. h[r] = IF r = {} THEN s ELSE OracleTouch(h[r \ {Max(r)}], e, seq[Max(r)])
    <3>1. r \in SUBSET (DOMAIN seq) BY <1>1
    <3> QED BY <1>7, <3>1
  <2> QED BY <1>3, <1>6, <2>1
<1>9. PICK f : Trail(OracleState, s, step, n, seq, f) /\ f[n] = h[1..n]
  BY <1>5, <1>8, FoldTrail
<1>10. f \in [0..n -> OracleState] /\ f[0] = s /\ \A i \in 1..n : f[i] = step[<<f[i - 1], seq[i]>>]
  BY <1>9 DEF Trail
<1>11. \A i \in 1..n : f[i] = OracleTouch(f[i - 1], e, FirstLine(e) + i - 1)
  <2> TAKE i \in 1..n
  <2>1. i - 1 \in 0..n /\ seq[i] \in Nat /\ seq[i] = FirstLine(e) + i - 1 BY <1>1
  <2>2. f[i - 1] \in OracleState BY <1>10, <2>1
  <2> QED BY <1>3, <1>10, <2>1, <2>2
<1>12. f[n] = FoldLeft(LAMBDA t, l : OracleTouch(t, e, l), s, LinesOf(e))
  <2>1. h[1..n] = h[DOMAIN seq] BY <1>1, Zenon
  <2> QED BY <1>4, <1>9, <2>1 DEF seq
<1> QED BY <1>10, <1>11, <1>12 DEF Touching, n

LEMMA TouchingOnward ==
  ASSUME NEW s \in OracleState, NEW e \in TraceEvent, NEW f, Touching(s, e, f), NEW i \in 0..Count(e)
  PROVE  /\ f[i] \in OracleState
         /\ \A j \in i..Count(e) : Onward(f[i], f[j], IF e.write THEN {e.buffer} ELSE {})
<1> DEFINE B == IF e.write THEN {e.buffer} ELSE {}
           n == Count(e)
<1>1. n \in Nat /\ f \in [0..n -> OracleState] BY CountIs DEF Touching
<1>2. ASSUME NEW j \in 1..n PROVE Onward(f[j - 1], f[j], B)
  <2>1. j - 1 \in 0..n /\ FirstLine(e) + j - 1 \in Nat BY <1>1, CountIs
  <2>2. f[j - 1] \in OracleState BY <1>1, <2>1
  <2>3. f[j] = OracleTouch(f[j - 1], e, FirstLine(e) + j - 1) BY DEF Touching
  <2> HIDE DEF B
  <2> QED BY <2>1, <2>2, <2>3, TouchOnward DEF B
<1> HIDE DEF B, n
<1>3. i \in 0..n BY DEF n
<1>4. \A j \in i..n : Onward(f[i], f[j], B) BY <1>1, <1>2, <1>3, OnwardAlong
<1> QED BY <1>1, <1>3, <1>4 DEF B, n

\* The buffer whose lines an event dates anew.
Redated(e) ==
  IF e.kind \in {"ALLOC", "FREE"} \/ (e.kind = "ACCESS" /\ e.write) THEN {e.buffer} ELSE {}

LEMMA RestatedIs ==
  ASSUME NEW s \in OracleState, NEW b \in Buffer, NEW size \in Nat
  PROVE  LET t == Restated(s, b, size) IN
         /\ t \in OracleState /\ t.valid = s.valid /\ t.cycle = s.cycle /\ t.age = s.age
         /\ \A c \in Buffer \ {b} : t.written[c] = s.written[c]
<1>1. PICK v \in [Buffer -> Nat] : v = [s.size EXCEPT ![b] = size] BY DEF OracleState
<1>2. PICK w \in [Buffer -> Dated] : w = [s.written EXCEPT ![b] = <<>>] BY DatedIs DEF OracleState
<1>3. Restated(s, b, size) = [s EXCEPT !.size = v, !.written = w]
  BY <1>1, <1>2 DEF Restated, OracleState
<1>4. [s EXCEPT !.size = v, !.written = w] \in OracleState BY DEF OracleState
<1>5. /\ [s EXCEPT !.size = v, !.written = w].valid = s.valid
      /\ [s EXCEPT !.size = v, !.written = w].cycle = s.cycle
      /\ [s EXCEPT !.size = v, !.written = w].age = s.age
      /\ [s EXCEPT !.size = v, !.written = w].written = w
  BY DEF OracleState
<1>6. \A c \in Buffer \ {b} : w[c] = s.written[c] BY <1>2 DEF OracleState
<1> QED BY <1>3, <1>4, <1>5, <1>6

\* One event.
LEMMA OracleEventIs ==
  ASSUME NEW s \in OracleState, NEW e \in TraceEvent
  PROVE  LET t == OracleEvent(s, e) IN
         /\ t \in OracleState /\ Onward(s, t, Redated(e))
         /\ e.kind # "ACCESS" => t.cycle = s.cycle + (IF e.kind = "COMPUTE" THEN e.cycles ELSE 0)
         /\ e.kind = "ACCESS" /\ t.valid => \E f : Touching(s, e, f) /\ t = f[Count(e)]
<1> DEFINE b == e.buffer
<1>1. b \in Buffer /\ e.size \in Nat /\ e.cycles \in Nat BY DEF TraceEvent
<1>2. s.cycle \in Nat /\ s.age \in [Buffer -> Nat] /\ \A c \in Buffer : s.age[c] <= s.age[c]
  BY DEF OracleState
<1>3. CASE e.kind \in {"ALLOC", "FREE"}
  <2>1. PICK size \in Nat : OracleEvent(s, e) = Restated(s, b, size)
    <3>1. CASE e.kind = "ALLOC"
      <4>1. OracleEvent(s, e) = Restated(s, b, e.size) BY <3>1 DEF OracleEvent
      <4> QED BY <1>1, <4>1
    <3>2. CASE e.kind = "FREE"
      <4>1. OracleEvent(s, e) = Restated(s, b, 0) BY <3>2 DEF OracleEvent
      <4> QED BY <4>1
    <3> QED BY <1>3, <3>1, <3>2
  <2>2. PICK t \in OracleState : t = Restated(s, b, size) BY <1>1, RestatedIs
  <2>3. t.valid = s.valid /\ t.cycle = s.cycle /\ t.age = s.age
        /\ \A c \in Buffer \ {b} : t.written[c] = s.written[c]
    BY <1>1, <2>2, RestatedIs
  <2>4. Onward(s, t, Redated(e)) BY <1>2, <1>3, <2>3 DEF Onward, Redated
  <2> QED BY <1>2, <1>3, <2>1, <2>2, <2>3, <2>4
<1>4. CASE e.kind = "COMPUTE"
  <2>1. PICK n \in Nat : n = s.cycle + e.cycles BY <1>1, <1>2
  <2>2. OracleEvent(s, e) = [s EXCEPT !.cycle = n] BY <1>4, <2>1 DEF OracleEvent, OracleState
  <2>3. [s EXCEPT !.cycle = n] \in OracleState BY DEF OracleState
  <2>4. /\ [s EXCEPT !.cycle = n].cycle = n /\ [s EXCEPT !.cycle = n].valid = s.valid
        /\ [s EXCEPT !.cycle = n].age = s.age /\ [s EXCEPT !.cycle = n].written = s.written
    BY DEF OracleState
  <2>5. s.cycle <= n BY <1>1, <1>2, <2>1
  <2>6. Onward(s, [s EXCEPT !.cycle = n], Redated(e)) BY <1>2, <2>4, <2>5 DEF Onward
  <2> QED BY <1>4, <2>1, <2>2, <2>3, <2>4, <2>6
<1>5. CASE e.kind = "ACCESS"
  <2>1. CASE s.size[b] = 0 \/ ~InBounds(e, s.size[b])
    <3>1. OracleEvent(s, e) = [s EXCEPT !.valid = FALSE] BY <1>5, <2>1 DEF OracleEvent
    <3>2. [s EXCEPT !.valid = FALSE] \in OracleState BY DEF OracleState
    <3>3. /\ [s EXCEPT !.valid = FALSE].cycle = s.cycle /\ [s EXCEPT !.valid = FALSE].valid = FALSE
          /\ [s EXCEPT !.valid = FALSE].age = s.age /\ [s EXCEPT !.valid = FALSE].written = s.written
      BY DEF OracleState
    <3>4. Onward(s, [s EXCEPT !.valid = FALSE], Redated(e)) BY <1>2, <3>3 DEF Onward
    <3> QED BY <1>5, <3>1, <3>2, <3>3, <3>4
  <2>2. CASE ~(s.size[b] = 0 \/ ~InBounds(e, s.size[b]))
    <3>1. OracleEvent(s, e) = FoldLeft(LAMBDA t, l : OracleTouch(t, e, l), s, LinesOf(e))
      BY <1>5, <2>2 DEF OracleEvent
    <3>2. PICK f : Touching(s, e, f) BY TouchingIs
    <3>3. OracleEvent(s, e) = f[Count(e)] BY <3>1, <3>2 DEF Touching
    <3>10. Count(e) \in Nat \ {0} BY CountIs
    <3>11. f[0] = s BY <3>2 DEF Touching
    <3>4. 0 \in 0..Count(e) /\ Count(e) \in 0..Count(e) BY <3>10
    <3>5. f[Count(e)] \in OracleState BY <3>2, <3>4, TouchingOnward
    <3>6. Onward(s, f[Count(e)], Redated(e))
      <4>1. Redated(e) = IF e.write THEN {b} ELSE {} BY <1>5 DEF Redated
      <4>2. \A j \in 0..Count(e) : Onward(f[0], f[j], IF e.write THEN {b} ELSE {})
        BY <3>2, <3>4, TouchingOnward
      <4> QED BY <3>11, <3>4, <4>1, <4>2
    <3> QED BY <1>5, <3>2, <3>3, <3>5, <3>6
  <2> QED BY <2>1, <2>2
<1>6. CASE e.kind \notin {"ALLOC", "FREE", "COMPUTE", "ACCESS"}
  <2>1. OracleEvent(s, e) = s BY <1>6 DEF OracleEvent
  <2> QED BY <1>2, <1>6, <2>1, OnwardIs
<1> QED BY <1>3, <1>4, <1>5, <1>6

LEMMA OracleStartIs == OracleStart \in OracleState
BY DatedIs DEF OracleStart, OracleState

\* The pass over the events of a trace.
Passing(trace, f) ==
  /\ f \in [0..Len(trace) -> OracleState] /\ f[0] = OracleStart /\ f[Len(trace)] = OracleAges(trace)
  /\ \A i \in 1..Len(trace) : f[i] = OracleEvent(f[i - 1], trace[i])

LEMMA PassingIs ==
  ASSUME NEW trace \in Seq(TraceEvent)
  PROVE  \E f : Passing(trace, f)
<1> DEFINE n == Len(trace)
           s == OracleStart
           step == [p \in OracleState \X TraceEvent |-> OracleEvent(p[1], p[2])]
           Right(h) == h = [r \in SUBSET (DOMAIN trace) |->
                             IF r = {} THEN s ELSE OracleEvent(h[r \ {Max(r)}], trace[Max(r)])]
           h == CHOOSE h : Right(h)
<1>1. n \in Nat /\ trace \in [1..n -> TraceEvent] /\ DOMAIN trace = 1..n OBVIOUS
<1>2. step \in [OracleState \X TraceEvent -> OracleState]
  <2>1. ASSUME NEW p \in OracleState \X TraceEvent PROVE OracleEvent(p[1], p[2]) \in OracleState
    BY OracleEventIs
  <2> QED BY <2>1
<1>3. \A t \in OracleState, e \in TraceEvent : step[<<t, e>>] = OracleEvent(t, e) OBVIOUS
<1>4. OracleAges(trace) = h[DOMAIN trace] BY DEF OracleAges, FoldLeft, MapThenFoldSet
<1> HIDE DEF n, step
<1>5. Folding(OracleState, TraceEvent, s, step, n, trace) BY <1>1, <1>2, OracleStartIs DEF Folding
<1>6. ASSUME NEW r \in SUBSET (1..n), r # {} PROVE trace[Max(r)] \in TraceEvent
  <2>1. IsFiniteSet(1..n) BY <1>1, FS_Interval
  <2>2. IsFiniteSet(r) BY <2>1, FS_Subset
  <2>3. r \subseteq Nat BY <1>1
  <2>4. Max(r) \in r BY <1>6, <2>2, <2>3, MaxIs
  <2> QED BY <1>1, <2>4
<1>7. Right(h)
  <2>1. PICK g : Recursive(OracleState, s, step, n, trace, g) BY <1>5, FoldExists
  <2>2. \A r \in SUBSET (1..n) : r # {} =>
          step[<<g[r \ {Max(r)}], trace[Max(r)]>>] = OracleEvent(g[r \ {Max(r)}], trace[Max(r)])
    BY <1>3, <1>6, <2>1 DEF Recursive
  <2>3. Right(g) BY <1>1, <2>1, <2>2 DEF Recursive
  <2>4. \E x : Right(x) BY <2>3
  <2> HIDE DEF Right
  <2> QED BY <2>4 DEF h
<1> HIDE DEF h
<1>8. Computing(OracleState, s, step, n, trace, h)
  <2> SUFFICES ASSUME NEW r \in SUBSET (1..n)
               PROVE  IF r = {} THEN h[r] = s
                      ELSE h[r \ {Max(r)}] \in OracleState =>
                             h[r] = step[<<h[r \ {Max(r)}], trace[Max(r)]>>]
    BY DEF Computing
  <2>1. h[r] = IF r = {} THEN s ELSE OracleEvent(h[r \ {Max(r)}], trace[Max(r)])
    <3>1. r \in SUBSET (DOMAIN trace) BY <1>1
    <3> QED BY <1>7, <3>1
  <2> QED BY <1>3, <1>6, <2>1
<1>9. PICK f : Trail(OracleState, s, step, n, trace, f) /\ f[n] = h[1..n]
  BY <1>5, <1>8, FoldTrail
<1>10. f \in [0..n -> OracleState] /\ f[0] = s /\ \A i \in 1..n : f[i] = step[<<f[i - 1], trace[i]>>]
  BY <1>9 DEF Trail
<1>11. \A i \in 1..n : f[i] = OracleEvent(f[i - 1], trace[i])
  <2> TAKE i \in 1..n
  <2>1. i - 1 \in 0..n /\ trace[i] \in TraceEvent BY <1>1
  <2>2. f[i - 1] \in OracleState BY <1>10, <2>1
  <2> QED BY <1>3, <1>10, <2>1, <2>2
<1>12. f[n] = OracleAges(trace)
  <2>1. h[1..n] = h[DOMAIN trace] BY <1>1, Zenon
  <2> QED BY <1>4, <1>9, <2>1
<1> QED BY <1>10, <1>11, <1>12 DEF Passing, n

LEMMA PassingOnward ==
  ASSUME NEW trace \in Seq(TraceEvent), NEW f, Passing(trace, f), NEW i \in 0..Len(trace)
  PROVE  f[i] \in OracleState /\ Onward(f[i], OracleAges(trace), Buffer)
<1>1. Len(trace) \in Nat /\ f \in [0..Len(trace) -> OracleState] BY DEF Passing
<1>2. ASSUME NEW j \in 1..Len(trace) PROVE Onward(f[j - 1], f[j], Buffer)
  <2>1. j - 1 \in 0..Len(trace) /\ trace[j] \in TraceEvent BY <1>1
  <2>2. f[j - 1] \in OracleState /\ f[j] = OracleEvent(f[j - 1], trace[j]) BY <1>1, <2>1 DEF Passing
  <2>3. Onward(f[j - 1], f[j], Redated(trace[j])) BY <2>1, <2>2, OracleEventIs
  <2> QED BY <2>3 DEF Onward
<1>3. \A j \in i..Len(trace) : Onward(f[i], f[j], Buffer) BY <1>1, <1>2, OnwardAlong
<1> QED BY <1>1, <1>3 DEF Passing

-----------------------------------------------------------------------------
(* The pass over the lifetimes of line versions.                             *)

Version == [at : Nat, age : Nat, bytes : Nat \ {0}]
Versions == UNION {[D -> Version] : D \in {D \in SUBSET Nat : IsFiniteSet(D)}}
LifetimeSample == [structure : Buffer, required : Nat, bytes : Nat \ {0}]
LifetimeState ==
  [cycle : Nat, valid : BOOLEAN, size : [Buffer -> Nat], version : [Buffer -> Versions],
   samples : Seq(LifetimeSample)]

LEMMA VersionsAre ==
  /\ <<>> \in Versions
  /\ \A f \in Versions : f \in [DOMAIN f -> Version] /\ DOMAIN f \subseteq Nat /\ IsFiniteSet(DOMAIN f)
  /\ \A f : DOMAIN f \subseteq Nat /\ IsFiniteSet(DOMAIN f) /\ f \in [DOMAIN f -> Version]
              => f \in Versions
<1>1. <<>> \in Versions
  <2>1. <<>> \in [{} -> Version] /\ {} \in SUBSET Nat /\ IsFiniteSet({})
    BY FS_EmptySet
  <2> QED BY <2>1 DEF Versions
<1>2. \A f \in Versions : f \in [DOMAIN f -> Version] /\ DOMAIN f \subseteq Nat /\ IsFiniteSet(DOMAIN f)
  <2>1. ASSUME NEW D \in SUBSET Nat, IsFiniteSet(D), NEW f \in [D -> Version]
        PROVE  f \in [DOMAIN f -> Version] /\ DOMAIN f \subseteq Nat /\ IsFiniteSet(DOMAIN f)
    <3>1. DOMAIN f = D OBVIOUS
    <3> QED BY <2>1, <3>1
  <2> QED BY <2>1 DEF Versions
<1>3. ASSUME NEW f, DOMAIN f \subseteq Nat, IsFiniteSet(DOMAIN f), f \in [DOMAIN f -> Version]
      PROVE  f \in Versions
  BY <1>3 DEF Versions
<1> QED BY <1>1, <1>2, <1>3

LEMMA PutVersion ==
  ASSUME NEW f \in Versions, NEW l \in Nat, NEW v \in Version
  PROVE  /\ Put(f, l, v) \in Versions /\ DOMAIN Put(f, l, v) = DOMAIN f \cup {l}
         /\ Put(f, l, v)[l] = v /\ \A k \in DOMAIN f \ {l} : Put(f, l, v)[k] = f[k]
<1>1. f \in [DOMAIN f -> Version] /\ DOMAIN f \subseteq Nat /\ IsFiniteSet(DOMAIN f)
  BY VersionsAre
<1>2. PICK D : D = DOMAIN f \cup {l} OBVIOUS
<1>3. D \subseteq Nat /\ IsFiniteSet(D) BY <1>1, <1>2, FS_AddElement
<1>4. PICK g : g = Put(f, l, v) OBVIOUS
<1>5. g = [x \in D |-> IF x = l THEN v ELSE f[x]] BY <1>2, <1>4 DEF Put
<1>6. DOMAIN g = D /\ g \in [D -> Version] BY <1>1, <1>2, <1>5
<1>7. g \in Versions BY <1>3, <1>6, VersionsAre
<1> QED BY <1>2, <1>4, <1>5, <1>6, <1>7

LEMMA WithoutVersion ==
  ASSUME NEW f \in Versions, NEW l
  PROVE  [k \in DOMAIN f \ {l} |-> f[k]] \in Versions
<1>1. f \in [DOMAIN f -> Version] /\ DOMAIN f \subseteq Nat /\ IsFiniteSet(DOMAIN f)
  BY VersionsAre
<1>2. PICK D : D = DOMAIN f \ {l} OBVIOUS
<1>3. D \subseteq Nat /\ IsFiniteSet(D) BY <1>1, <1>2, FS_RemoveElement
<1>4. PICK g : g = [k \in D |-> f[k]] OBVIOUS
<1>5. DOMAIN g = D /\ g \in [D -> Version] BY <1>1, <1>2, <1>4
<1> QED BY <1>2, <1>3, <1>4, <1>5, VersionsAre

\* The ages that the samples q give the versions of b.
Required(q, b) == {q[i].required : i \in {j \in DOMAIN q : q[j].structure = b}}
\* The same for the versions not finished yet.
Open(f) == {f[l].age : l \in DOMAIN f}
Ages(s, b) == {0} \cup Open(s.version[b]) \cup Required(s.samples, b)

LEMMA RequiredAppended ==
  ASSUME NEW q \in Seq(LifetimeSample), NEW x \in LifetimeSample, NEW b
  PROVE  Required(Append(q, x), b)
           = Required(q, b) \cup (IF x.structure = b THEN {x.required} ELSE {})
<1>1. PICK p : p = Append(q, x) OBVIOUS
<1>2. /\ DOMAIN p = DOMAIN q \cup {Len(q) + 1} /\ p[Len(q) + 1] = x
      /\ \A i \in DOMAIN q : p[i] = q[i]
  BY <1>1
<1>3. \A y : y \in Required(p, b) <=> \E i \in DOMAIN p : p[i].structure = b /\ y = p[i].required
  BY DEF Required
<1>4. \A y : y \in Required(q, b) <=> \E i \in DOMAIN q : q[i].structure = b /\ y = q[i].required
  BY DEF Required
<1>5. ASSUME NEW y
      PROVE  y \in Required(p, b) <=> y \in Required(q, b) \/ (x.structure = b /\ y = x.required)
  <2>1. y \in Required(p, b) => y \in Required(q, b) \/ (x.structure = b /\ y = x.required)
    BY <1>2, <1>3, <1>4
  <2>2. y \in Required(q, b) => y \in Required(p, b)
    BY <1>2, <1>3, <1>4
  <2>3. x.structure = b /\ y = x.required => y \in Required(p, b)
    <3>1. Len(q) + 1 \in DOMAIN p BY <1>2
    <3> QED BY <1>2, <1>3, <3>1
  <2> QED BY <2>1, <2>2, <2>3
<1> QED BY <1>1, <1>5

LEMMA SampleIs ==
  ASSUME NEW b \in Buffer, NEW v \in Version
  PROVE  /\ Sample(b, v) \in LifetimeSample
         /\ Sample(b, v).structure = b /\ Sample(b, v).required = v.age
<1>1. v.age \in Nat /\ v.bytes \in Nat \ {0} BY DEF Version
<1>2. PICK n \in Nat : n = v.age BY <1>1
<1>3. PICK m \in Nat \ {0} : m = v.bytes BY <1>1
<1>4. Sample(b, v) = [structure |-> b, required |-> n, bytes |-> m] BY <1>2, <1>3 DEF Sample
<1> QED BY <1>2, <1>4 DEF LifetimeSample

LEMMA OpenIs ==
  \A f, y : y \in Open(f) <=> \E l \in DOMAIN f : y = f[l].age
BY DEF Open

\* finish_lifetime_version moves the age of a version to the samples.
LEMMA FinishIs ==
  ASSUME NEW s \in LifetimeState, NEW b \in Buffer, NEW l
  PROVE  LET t == Finish(s, b, l) IN
         /\ t \in LifetimeState /\ t.valid = s.valid /\ t.size = s.size /\ t.cycle = s.cycle
         /\ \A c \in Buffer \ {b} : t.version[c] = s.version[c]
         /\ DOMAIN t.version[b] = DOMAIN s.version[b] \ {l}
         /\ \A k \in DOMAIN s.version[b] \ {l} : t.version[b][k] = s.version[b][k]
         /\ \A c \in Buffer : Ages(t, c) = Ages(s, c)
<1>1. /\ s.version \in [Buffer -> Versions] /\ s.samples \in Seq(LifetimeSample)
      /\ s.version[b] \in Versions
  BY DEF LifetimeState
<1>2. PICK f \in Versions : f = s.version[b] BY <1>1
<1>3. CASE l \notin DOMAIN f
  <2>1. Finish(s, b, l) = s BY <1>2, <1>3 DEF Finish
  <2>2. DOMAIN f = DOMAIN f \ {l} BY <1>3
  <2> QED BY <1>2, <2>1, <2>2
<1>4. CASE l \in DOMAIN f
  <2>1. f[l] \in Version BY <1>4, VersionsAre
  <2>2. PICK x \in LifetimeSample : x = Sample(b, f[l]) /\ x.structure = b /\ x.required = f[l].age
    BY <2>1, SampleIs
  <2>3. PICK q \in Seq(LifetimeSample) : q = Append(s.samples, x)
    <3>1. s.samples \in Seq(LifetimeSample) BY <1>1
    <3>2. Append(s.samples, x) \in Seq(LifetimeSample) BY <3>1
    <3> QED BY <3>2
  <2>4. PICK g \in Versions : g = [k \in DOMAIN f \ {l} |-> f[k]] BY WithoutVersion
  <2>5. PICK v \in [Buffer -> Versions] : v = [s.version EXCEPT ![b] = g] BY <1>1
  <2>6. Finish(s, b, l) = [s EXCEPT !.samples = q, !.version = v]
    BY <1>2, <1>4, <2>2, <2>3, <2>4, <2>5 DEF Finish, LifetimeState
  <2>7. PICK t : t = [s EXCEPT !.samples = q, !.version = v] OBVIOUS
  <2>8. /\ t \in LifetimeState /\ t.valid = s.valid /\ t.size = s.size /\ t.cycle = s.cycle
        /\ t.version = v /\ t.samples = q
    BY <2>7 DEF LifetimeState
  <2>9. v[b] = g /\ \A c \in Buffer \ {b} : v[c] = s.version[c] BY <1>1, <2>5
  <2>10. DOMAIN g = DOMAIN f \ {l} /\ \A k \in DOMAIN f \ {l} : g[k] = f[k] BY <2>4
  <2>11. ASSUME NEW c \in Buffer PROVE Ages(t, c) = Ages(s, c)
    <3>1. Required(q, c) = Required(s.samples, c) \cup (IF b = c THEN {f[l].age} ELSE {})
      BY <1>1, <2>2, <2>3, RequiredAppended
    <3>2. CASE c # b BY <2>8, <2>9, <3>1, <3>2 DEF Ages
    <3>3. CASE c = b
      <4>1. \A y : y \in Open(f) <=> y \in Open(g) \/ y = f[l].age
        BY <1>4, <2>10, OpenIs
      <4>2. Open(f) = Open(g) \cup {f[l].age} BY <4>1
      <4>3. Ages(t, c) = {0} \cup Open(g) \cup Required(q, c) BY <2>8, <2>9, <3>3 DEF Ages
      <4>4. Ages(s, c) = {0} \cup Open(f) \cup Required(s.samples, c) BY <1>2, <3>3 DEF Ages
      <4>5. Required(q, c) = Required(s.samples, c) \cup {f[l].age} BY <3>1, <3>3
      <4> QED BY <4>2, <4>3, <4>4, <4>5
    <3> QED BY <3>2, <3>3
  <2> QED BY <1>2, <2>6, <2>7, <2>8, <2>9, <2>10, <2>11
<1> QED BY <1>3, <1>4

\* The lines of an access are those its bytes lie in.
LEMMA LineHolds ==
  ASSUME NEW a \in Nat, NEW d \in Nat \ {0}, NEW l \in Nat
  PROVE  /\ a \div d <= l => a < (l + 1) * d
         /\ l <= a \div d => l * d <= a
<1>1. PICK q \in Nat : q = a \div d BY Division
<1>2. q * d <= a /\ a < (q + 1) * d BY <1>1
<1>3. ASSUME q <= l PROVE (q + 1) * d <= (l + 1) * d BY <1>3
<1>4. ASSUME l <= q PROVE l * d <= q * d BY <1>4
<1>5. (q + 1) * d \in Nat /\ (l + 1) * d \in Nat /\ l * d \in Nat /\ q * d \in Nat OBVIOUS
<1> QED BY <1>1, <1>2, <1>3, <1>4, <1>5

LEMMA BytesInIs ==
  ASSUME NEW e \in TraceEvent, NEW l \in Nat, FirstLine(e) <= l, l <= LastLine(e)
  PROVE  BytesIn(e, l) \in Nat \ {0}
<1>1. \A x, y \in Nat : /\ Min({x, y}) \in {x, y} /\ Max({x, y}) \in {x, y}
  <2> TAKE x \in Nat, y \in Nat
  <2>1. {x, y} \subseteq Nat /\ {x, y} # {} OBVIOUS
  <2>2. IsFiniteSet({x, y})
    <3>1. IsFiniteSet({x}) BY FS_Singleton
    <3>2. IsFiniteSet({x} \cup {y}) BY <3>1, FS_AddElement
    <3>3. {x} \cup {y} = {x, y} OBVIOUS
    <3> QED BY <3>2, <3>3
  <2>3. Min({x, y}) \in {x, y} BY <2>1, MinIs
  <2>4. Max({x, y}) \in {x, y} BY <2>1, <2>2, MaxIs
  <2> QED BY <2>1, <2>3, <2>4
<1>2. /\ e.offset + e.size \in Nat /\ (l + 1) * LineBytes \in Nat
      /\ e.offset \in Nat /\ l * LineBytes \in Nat /\ e.size \in Nat \ {0}
      /\ LineBytes \in Nat \ {0}
  BY LineAssumption DEF TraceEvent
<1>3. PICK x \in Nat : x = e.offset + e.size BY <1>2
<1>4. PICK y \in Nat : y = (l + 1) * LineBytes BY <1>2
<1>5. PICK z \in Nat : z = e.offset BY <1>2
<1>6. PICK w \in Nat : w = l * LineBytes BY <1>2
<1>7. BytesIn(e, l) = Min({x, y}) - Max({z, w}) BY <1>3, <1>4, <1>5, <1>6 DEF BytesIn
<1>8. Min({x, y}) \in {x, y} /\ Max({z, w}) \in {z, w} BY <1>1
<1>9. z < x BY <1>2, <1>3, <1>5
<1>10. w < y
  <2>1. (l + 1) * LineBytes = l * LineBytes + LineBytes BY <1>2
  <2> QED BY <1>2, <1>4, <1>6, <2>1
<1>11. z < y
  <2>1. z \div LineBytes <= l BY <1>5 DEF FirstLine
  <2> QED BY <1>2, <1>4, <2>1, LineHolds
<1>12. w < x
  <2>1. x - 1 \in Nat /\ l <= (x - 1) \div LineBytes BY <1>2, <1>3 DEF LastLine
  <2>2. w <= x - 1 BY <1>2, <1>6, <2>1, LineHolds
  <2> QED BY <2>1, <2>2
<1> QED BY <1>7, <1>8, <1>9, <1>10, <1>11, <1>12

\* A write finishes the version of the line and starts one of age 0.
LineWritten(s, t, b, l) ==
  /\ t \in LifetimeState /\ t.valid = s.valid /\ t.size = s.size
  /\ t.cycle = s.cycle + SlowestWrite
  /\ \A c \in Buffer \ {b} : t.version[c] = s.version[c]
  /\ DOMAIN t.version[b] = DOMAIN s.version[b] \cup {l}
  /\ t.version[b][l].at = t.cycle
  /\ \A k \in DOMAIN s.version[b] \ {l} :
       t.version[b][k] = s.version[b][k]
  /\ \A c \in Buffer : Ages(t, c) = Ages(s, c)

LEMMA VersionWritten ==
  ASSUME NEW s \in LifetimeState, NEW e \in TraceEvent, NEW l \in Nat, e.write,
         FirstLine(e) <= l, l <= LastLine(e),
         NEW b \in Buffer, b = e.buffer, NEW t, t = LifetimeTouch(s, e, l)
  PROVE  LineWritten(s, t, b, l)
<1>1. b = e.buffer OBVIOUS
<1>2. PICK u \in LifetimeState : u = Finish(s, b, l) BY FinishIs
<1>3. /\ u.valid = s.valid /\ u.size = s.size /\ u.cycle = s.cycle
      /\ \A c \in Buffer \ {b} : u.version[c] = s.version[c]
      /\ DOMAIN u.version[b] = DOMAIN s.version[b] \ {l}
      /\ \A k \in DOMAIN s.version[b] \ {l} : u.version[b][k] = s.version[b][k]
      /\ \A c \in Buffer : Ages(u, c) = Ages(s, c)
  BY <1>2, FinishIs
<1>4. s.cycle \in Nat /\ u.version \in [Buffer -> Versions] BY DEF LifetimeState
<1>5. PICK n \in Nat : n = s.cycle + SlowestWrite BY <1>4, SlowestIs
<1>6. PICK m \in Nat \ {0} : m = BytesIn(e, l) BY BytesInIs
<1>7. PICK x \in Version : x = [at |-> n, age |-> 0, bytes |-> m] BY DEF Version
<1>8. x.at = n /\ x.age = 0 BY <1>7
<1>9. PICK f \in Versions : f = u.version[b] BY <1>4
<1>10. PICK g \in Versions : g = Put(f, l, x) BY PutVersion
<1>11. DOMAIN g = DOMAIN f \cup {l} /\ g[l] = x /\ \A k \in DOMAIN f \ {l} : g[k] = f[k]
  BY <1>10 DEF Put
<1>12. PICK v \in [Buffer -> Versions] : v = [u.version EXCEPT ![b] = g] BY <1>4
<1>13. v[b] = g /\ \A c \in Buffer \ {b} : v[c] = u.version[c] BY <1>4, <1>12
<1>14. t = [u EXCEPT !.cycle = n, !.version = v]
  <2>1. t = [Finish(s, b, l) EXCEPT !.cycle = n,
                                   !.version[b] = Put(@, l, [at |-> n, age |-> 0, bytes |-> m])]
    BY <1>1, <1>5, <1>6 DEF LifetimeTouch
  <2>2. t = [u EXCEPT !.cycle = n, !.version[b] = Put(@, l, x)] BY <1>2, <1>7, <2>1
  <2> QED BY <1>9, <1>10, <1>12, <2>2 DEF LifetimeState
<1>15. /\ t \in LifetimeState /\ t.valid = u.valid /\ t.size = u.size /\ t.cycle = n
       /\ t.version = v /\ t.samples = u.samples
  BY <1>14 DEF LifetimeState
<1>16. DOMAIN f \cup {l} = DOMAIN s.version[b] \cup {l} BY <1>3, <1>9
<1>17. \A k \in DOMAIN s.version[b] \ {l} : g[k] = s.version[b][k]
  BY <1>3, <1>9, <1>11
<1>18. ASSUME NEW c \in Buffer PROVE Ages(t, c) = Ages(u, c)
  <2>1. CASE c # b BY <1>13, <1>15, <2>1 DEF Ages
  <2>2. CASE c = b
    <3>1. l \notin DOMAIN f BY <1>3, <1>9
    <3>2. \A y : y \in Open(g) <=> y \in Open(f) \/ y = 0
      BY <1>8, <1>11, <3>1, OpenIs
    <3>3. Open(g) = Open(f) \cup {0} BY <3>2
    <3>4. Ages(t, c) = {0} \cup Open(g) \cup Required(u.samples, c) BY <1>13, <1>15, <2>2 DEF Ages
    <3>5. Ages(u, c) = {0} \cup Open(f) \cup Required(u.samples, c) BY <1>9, <2>2 DEF Ages
    <3> QED BY <3>3, <3>4, <3>5
  <2> QED BY <2>1, <2>2
<1> QED BY <1>1, <1>3, <1>5, <1>8, <1>11, <1>13, <1>15, <1>16, <1>17, <1>18 DEF LineWritten

LEMMA LaterIs ==
  \A x \in Nat, y \in Int : Later(x, y) \in Nat /\ x <= Later(x, y) /\ y <= Later(x, y)
                            /\ (Later(x, y) = x \/ Later(x, y) = y)
BY DEF Later

\* A read ages the version of the line.
LineRead(s, t, b, l) ==
  /\ t \in LifetimeState /\ t.valid = s.valid /\ t.size = s.size
  /\ t.cycle = s.cycle + SlowestRead /\ t.samples = s.samples
  /\ \A c \in Buffer \ {b} : t.version[c] = s.version[c]
  /\ DOMAIN t.version[b] = DOMAIN s.version[b]
  /\ \A k \in DOMAIN s.version[b] :
       /\ t.version[b][k].at = s.version[b][k].at
       /\ t.version[b][k].age =
            IF k = l
            THEN Later(s.version[b][k].age, s.cycle - s.version[b][k].at)
            ELSE s.version[b][k].age

LEMMA VersionRead ==
  ASSUME NEW s \in LifetimeState, NEW e \in TraceEvent, NEW l \in Nat, ~e.write,
         NEW b \in Buffer, b = e.buffer, NEW t, t = LifetimeTouch(s, e, l)
  PROVE  LineRead(s, t, b, l)
<1>1. b = e.buffer OBVIOUS
<1>2. s.cycle \in Nat /\ s.version \in [Buffer -> Versions] BY DEF LifetimeState
<1>3. PICK n \in Nat : n = s.cycle + SlowestRead BY <1>2, SlowestIs
<1>4. PICK f \in Versions : f = s.version[b] BY <1>2
<1>5. PICK g : g = ReadAt(f, l, s.cycle) OBVIOUS
<1>6. DOMAIN g = DOMAIN f BY <1>5 DEF ReadAt
<1>7. ASSUME NEW k \in DOMAIN f
      PROVE  /\ g[k] \in Version /\ g[k].at = f[k].at
             /\ g[k].age = IF k = l THEN Later(f[k].age, s.cycle - f[k].at) ELSE f[k].age
  <2>1. f[k] \in Version BY VersionsAre
  <2>2. CASE k = l
    <3>1. f[k].age \in Nat /\ s.cycle - f[k].at \in Int BY <1>2, <2>1 DEF Version
    <3>2. PICK m \in Nat : m = Later(f[k].age, s.cycle - f[k].at) BY <3>1, LaterIs
    <3>3. g[k] = [f[k] EXCEPT !.age = m] BY <1>5, <2>1, <2>2, <3>2 DEF Version, ReadAt
    <3>4. [f[k] EXCEPT !.age = m] \in Version /\ [f[k] EXCEPT !.age = m].age = m
          /\ [f[k] EXCEPT !.age = m].at = f[k].at
      BY <2>1 DEF Version
    <3> QED BY <2>2, <3>2, <3>3, <3>4
  <2>3. CASE k # l
    <3>1. g[k] = f[k] BY <1>5, <2>3 DEF ReadAt
    <3> QED BY <2>1, <2>3, <3>1
  <2> QED BY <2>2, <2>3
<1>8. g \in Versions
  <2>1. g \in [DOMAIN g -> Version]
    <3>1. g = [k \in DOMAIN f |-> g[k]] BY <1>5 DEF ReadAt
    <3> QED BY <1>6, <1>7, <3>1
  <2>2. DOMAIN g \subseteq Nat /\ IsFiniteSet(DOMAIN g) BY <1>6, VersionsAre
  <2> QED BY <2>1, <2>2, VersionsAre
<1>9. PICK v \in [Buffer -> Versions] : v = [s.version EXCEPT ![b] = g] BY <1>2, <1>8
<1>10. v[b] = g /\ \A c \in Buffer \ {b} : v[c] = s.version[c] BY <1>2, <1>9
<1>11. t = [s EXCEPT !.cycle = n, !.version = v]
  <2>1. t = [s EXCEPT !.cycle = n, !.version[b] = ReadAt(@, l, s.cycle)]
    BY <1>1, <1>3 DEF LifetimeTouch
  <2> QED BY <1>4, <1>5, <1>9, <2>1 DEF LifetimeState
<1>12. /\ t \in LifetimeState /\ t.valid = s.valid /\ t.size = s.size /\ t.cycle = n
       /\ t.version = v /\ t.samples = s.samples
  BY <1>11 DEF LifetimeState
<1> QED BY <1>1, <1>3, <1>4, <1>6, <1>7, <1>10, <1>12 DEF LineRead

LEMMA SetToSeqIs ==
  ASSUME NEW S, IsFiniteSet(S)
  PROVE  /\ Cardinality(S) \in Nat /\ SetToSeq(S) \in [1..Cardinality(S) -> S]
         /\ \A x \in S : \E i \in 1..Cardinality(S) : SetToSeq(S)[i] = x
<1> DEFINE n == Cardinality(S)
           Fits(f) == f \in [1..n -> S] /\ IsInjective(f)
<1>1. n \in Nat /\ IsFiniteSet(1..n) /\ Cardinality(1..n) = n
  <2>1. n \in Nat BY FS_CardinalityType
  <2>2. IsFiniteSet(1..n) /\ Cardinality(1..n) = IF 1 > n THEN 0 ELSE n - 1 + 1 BY <2>1, FS_Interval
  <2> QED BY <2>1, <2>2
<1>2. \E f : Fits(f)
  <2>1. PICK f : f \in Bijection(1..n, S) BY FS_CardinalityType DEF ExistsBijection
  <2>2. f \in [1..n -> S] /\ \A a, b \in 1..n : f[a] = f[b] => a = b
    BY <2>1 DEF Bijection, Injection, IsInjective
  <2> QED BY <2>2 DEF IsInjective
<1>3. PICK f : f = SetToSeq(S) OBVIOUS
<1>4. Fits(f)
  <2>1. f = CHOOSE g \in [1..n -> S] : IsInjective(g) BY <1>3 DEF SetToSeq
  <2>2. \E g \in [1..n -> S] : IsInjective(g) BY <1>2
  <2> QED BY <2>1, <2>2
<1>5. f \in Injection(1..n, S) BY <1>4 DEF Injection, IsInjective
<1>6. f \in Surjection(1..n, S)
  <2> HIDE DEF n
  <2> QED BY <1>1, <1>5, FS_Injection DEF n
<1>7. \A x \in S : \E i \in 1..n : f[i] = x BY <1>6 DEF Surjection
<1> QED BY <1>1, <1>3, <1>4, <1>7

LEMMA RequiredJoined ==
  ASSUME NEW p \in Seq(LifetimeSample), NEW q \in Seq(LifetimeSample), NEW b
  PROVE  p \o q \in Seq(LifetimeSample) /\ Required(p \o q, b) = Required(p, b) \cup Required(q, b)
<1>0. p \o q \in Seq(LifetimeSample) OBVIOUS
<1>1. PICK r \in Seq(LifetimeSample) : r = p \o q BY <1>0
<1>2. /\ Len(r) = Len(p) + Len(q) /\ Len(p) \in Nat /\ Len(q) \in Nat
      /\ DOMAIN r = 1..Len(r) /\ DOMAIN p = 1..Len(p) /\ DOMAIN q = 1..Len(q)
      /\ \A i \in 1..Len(p) : r[i] = p[i]
      /\ \A i \in 1..Len(q) : r[Len(p) + i] = q[i]
  BY <1>1
<1>3. \A x : \A y : y \in Required(x, b) <=> \E i \in DOMAIN x : x[i].structure = b /\ y = x[i].required
  BY DEF Required
<1>4. ASSUME NEW y \in Required(r, b) PROVE y \in Required(p, b) \/ y \in Required(q, b)
  <2>1. PICK i \in DOMAIN r : r[i].structure = b /\ y = r[i].required BY <1>3
  <2>2. CASE i <= Len(p)
    <3>1. i \in 1..Len(p) BY <1>2, <2>2
    <3> QED BY <1>2, <1>3, <2>1, <3>1
  <2>3. CASE ~(i <= Len(p))
    <3>1. i - Len(p) \in 1..Len(q) /\ Len(p) + (i - Len(p)) = i BY <1>2, <2>3
    <3>2. PICK k \in 1..Len(q) : Len(p) + k = i BY <3>1
    <3>3. r[i] = q[k] BY <1>2, <3>2
    <3> QED BY <1>2, <1>3, <2>1, <3>3
  <2> QED BY <2>2, <2>3
<1>5. ASSUME NEW y \in Required(p, b) PROVE y \in Required(r, b)
  <2>1. PICK i \in 1..Len(p) : p[i].structure = b /\ y = p[i].required BY <1>2, <1>3
  <2>2. r[i] = p[i] BY <1>2
  <2>3. i \in DOMAIN r BY <1>2
  <2> QED BY <1>3, <2>1, <2>2, <2>3
<1>6. ASSUME NEW y \in Required(q, b) PROVE y \in Required(r, b)
  <2>1. PICK i \in 1..Len(q) : q[i].structure = b /\ y = q[i].required BY <1>2, <1>3
  <2>2. Len(p) + i \in DOMAIN r /\ r[Len(p) + i] = q[i] BY <1>2
  <2> QED BY <1>3, <2>1, <2>2
<1> QED BY <1>1, <1>4, <1>5, <1>6

\* The lines of the versions of some buffers.
LiveLines(s, B) == UNION {{b} \X DOMAIN s.version[b] : b \in B}

LEMMA LiveLinesFinite ==
  ASSUME NEW s \in LifetimeState, NEW B \in SUBSET Buffer
  PROVE  /\ IsFiniteSet(LiveLines(s, B))
         /\ \A x : x \in LiveLines(s, B) <=>
              \E b \in B : \E l \in DOMAIN s.version[b] : x = <<b, l>>
<1> DEFINE f == [b \in B |-> {b} \X DOMAIN s.version[b]]
           T == {{b} \X DOMAIN s.version[b] : b \in B}
<1>1. IsFiniteSet(B) BY LineAssumption, FS_Subset
<1>2. f \in Surjection(B, T) BY DEF Surjection
<1>3. IsFiniteSet(T)
  <2> HIDE DEF f, T
  <2> QED BY <1>1, <1>2, FS_Surjection
<1>4. ASSUME NEW b \in B PROVE IsFiniteSet({b} \X DOMAIN s.version[b])
  <2>1. s.version[b] \in Versions BY DEF LifetimeState
  <2>2. IsFiniteSet(DOMAIN s.version[b]) BY <2>1, VersionsAre
  <2>3. IsFiniteSet({b}) BY FS_Singleton
  <2> QED BY <2>2, <2>3, FS_Product
<1>5. \A U \in T : IsFiniteSet(U) BY <1>4
<1>6. IsFiniteSet(UNION T)
  <2> HIDE DEF T
  <2> QED BY <1>3, <1>5, FS_UNION, Zenon
<1> QED BY <1>6 DEF LiveLines

\* FinishAll moves the ages of all versions of the buffers in B.
LEMMA FinishAllIs ==
  ASSUME NEW s \in LifetimeState, NEW B \in SUBSET Buffer, NEW t, t = FinishAll(s, B)
  PROVE  /\ t \in LifetimeState /\ t.valid = s.valid /\ t.size = s.size /\ t.cycle = s.cycle
         /\ \A c \in B : t.version[c] = <<>>
         /\ \A c \in Buffer \ B : t.version[c] = s.version[c]
         /\ \A c \in Buffer : Ages(t, c) = Ages(s, c)
<1>1. s.version \in [Buffer -> Versions] /\ s.samples \in Seq(LifetimeSample)
  BY DEF LifetimeState
<1>2. PICK S : S = LiveLines(s, B) OBVIOUS
<1>3. /\ IsFiniteSet(S)
      /\ \A x : x \in S <=> \E b \in B : \E l \in DOMAIN s.version[b] : x = <<b, l>>
  BY <1>2, LiveLinesFinite
<1>4. PICK n \in Nat : n = Cardinality(S) BY <1>3, SetToSeqIs
<1>5. PICK live : live = SetToSeq(S) OBVIOUS
<1>6. live \in [1..n -> S] /\ \A x \in S : \E i \in 1..n : live[i] = x
  BY <1>3, <1>4, <1>5, SetToSeqIs
<1>7. PICK q : q = [i \in 1..n |-> Sample(live[i][1], s.version[live[i][1]][live[i][2]])]
  OBVIOUS
<1>8. ASSUME NEW i \in 1..n
      PROVE  \E b \in B : \E l \in DOMAIN s.version[b] :
               /\ live[i] = <<b, l>> /\ s.version[b][l] \in Version
               /\ q[i] = Sample(b, s.version[b][l]) /\ q[i] \in LifetimeSample
               /\ q[i].structure = b /\ q[i].required = s.version[b][l].age
  <2>0. PICK b \in B : \E l \in DOMAIN s.version[b] : live[i] = <<b, l>>
    <3>1. live[i] \in S BY <1>6
    <3> QED BY <1>3, <3>1
  <2>1. PICK l \in DOMAIN s.version[b] : live[i] = <<b, l>> BY <2>0
  <2>2. q[i] = Sample(b, s.version[b][l]) BY <1>7, <2>1
  <2>3. s.version[b] \in Versions BY <1>1
  <2>4. s.version[b][l] \in Version BY <2>3, VersionsAre
  <2>5. b \in Buffer OBVIOUS
  <2> QED BY <2>1, <2>2, <2>4, <2>5, SampleIs
<1>9. q \in Seq(LifetimeSample) /\ DOMAIN q = 1..n
  <2>1. q \in [1..n -> LifetimeSample] BY <1>7, <1>8
  <2> QED BY <2>1
<1>10. PICK r \in Seq(LifetimeSample) : r = s.samples \o q
  <2>1. s.samples \o q \in Seq(LifetimeSample) BY <1>1, <1>9, RequiredJoined
  <2> QED BY <2>1
<1>11. \A c : Required(r, c) = Required(s.samples, c) \cup Required(q, c)
  BY <1>1, <1>9, <1>10, RequiredJoined
<1>12. PICK v \in [Buffer -> Versions] :
         v = [b \in Buffer |-> IF b \in B THEN <<>> ELSE s.version[b]]
  BY <1>1, VersionsAre
<1>13. t = [s EXCEPT !.samples = r, !.version = v]
  <2>1. t = [s EXCEPT !.samples = @ \o [i \in DOMAIN live |->
                                          Sample(live[i][1], s.version[live[i][1]][live[i][2]])],
                      !.version = [b \in Buffer |-> IF b \in B THEN <<>> ELSE @[b]]]
    BY <1>2, <1>5 DEF FinishAll, LiveLines
  <2>2. DOMAIN live = 1..n BY <1>6
  <2>3. [i \in DOMAIN live |-> Sample(live[i][1], s.version[live[i][1]][live[i][2]])] = q
    BY <1>7, <2>2
  <2>4. t = [s EXCEPT !.samples = @ \o q,
                      !.version = [b \in Buffer |-> IF b \in B THEN <<>> ELSE @[b]]]
    BY <2>1, <2>3
  <2> QED BY <1>10, <1>12, <2>4 DEF LifetimeState
<1>14. /\ t \in LifetimeState /\ t.valid = s.valid /\ t.size = s.size /\ t.cycle = s.cycle
       /\ t.version = v /\ t.samples = r
  BY <1>13 DEF LifetimeState
<1>15. /\ \A c \in B : v[c] = <<>>
       /\ \A c \in Buffer \ B : v[c] = s.version[c]
  BY <1>12
<1>16. \A y : \A c : y \in Required(q, c) <=> \E i \in 1..n : q[i].structure = c /\ y = q[i].required
  BY <1>9 DEF Required
<1>17. ASSUME NEW c \in Buffer PROVE Ages(t, c) = Ages(s, c)
  <2>1. CASE c \notin B
    <3>1. \A y : y \notin Required(q, c) BY <1>8, <1>16, <2>1
    <3>2. Required(r, c) = Required(s.samples, c) BY <1>11, <3>1
    <3> QED BY <1>14, <1>15, <2>1, <3>2 DEF Ages
  <2>2. CASE c \in B
    <3>1. \A y : y \in Required(q, c) => y \in Open(s.version[c])
      BY <1>8, <1>16, OpenIs
    <3>2. ASSUME NEW y \in Open(s.version[c]) PROVE y \in Required(q, c)
      <4>1. PICK l \in DOMAIN s.version[c] : y = s.version[c][l].age BY OpenIs
      <4>2. <<c, l>> \in S BY <1>3, <2>2
      <4>3. PICK i \in 1..n : live[i] = <<c, l>> BY <1>6, <4>2
      <4>4. q[i].structure = c /\ q[i].required = s.version[c][l].age BY <1>8, <4>3
      <4> QED BY <1>16, <4>1, <4>4
    <3>3. Required(q, c) = Open(s.version[c]) BY <3>1, <3>2
    <3>4. Open(v[c]) = {}
      <4>1. v[c] = <<>> /\ DOMAIN <<>> = {} BY <1>15, <2>2
      <4>2. \A y : y \notin Open(v[c]) BY <4>1, OpenIs
      <4> QED BY <4>2
    <3>5. Ages(t, c) = {0} \cup Open(v[c]) \cup Required(r, c) BY <1>14 DEF Ages
    <3>6. Ages(s, c) = {0} \cup Open(s.version[c]) \cup Required(s.samples, c) BY DEF Ages
    <3> QED BY <1>11, <3>3, <3>4, <3>5, <3>6
  <2> QED BY <2>1, <2>2
<1> QED BY <1>14, <1>15, <1>17

-----------------------------------------------------------------------------
(* The two passes agree.                                                     *)

\* The dates of the lines written, in the one and the other.
SameDates(w, f) == DOMAIN w = DOMAIN f /\ \A k \in DOMAIN f : w[k] = f[k].at

Longest(A, m) == m \in A /\ \A x \in A : x <= m

\* The passes have come equally far; o has the longest of the ages that s keeps.
Agree(o, s) ==
  /\ o.cycle = s.cycle /\ o.size = s.size
  /\ \A b \in Buffer : SameDates(o.written[b], s.version[b])
  /\ \A b \in Buffer : Longest(Ages(s, b), o.age[b])
  /\ \A b \in Buffer : s.size[b] = 0 => DOMAIN s.version[b] = {}

LEMMA AgesNat ==
  ASSUME NEW s \in LifetimeState, NEW b \in Buffer
  PROVE  Ages(s, b) \subseteq Nat /\ 0 \in Ages(s, b)
<1>1. s.version[b] \in Versions /\ s.samples \in Seq(LifetimeSample) BY DEF LifetimeState
<1>2. ASSUME NEW y \in Open(s.version[b]) PROVE y \in Nat
  <2>1. PICK l \in DOMAIN s.version[b] : y = s.version[b][l].age BY OpenIs
  <2>2. s.version[b][l] \in Version BY <1>1, VersionsAre
  <2> QED BY <2>1, <2>2 DEF Version
<1>3. ASSUME NEW y \in Required(s.samples, b) PROVE y \in Nat
  <2>1. PICK i \in DOMAIN s.samples : y = s.samples[i].required BY DEF Required
  <2>2. s.samples[i] \in LifetimeSample BY <1>1
  <2> QED BY <2>1, <2>2 DEF LifetimeSample
<1> QED BY <1>2, <1>3 DEF Ages

LEMMA AgreeWrite ==
  ASSUME NEW o \in OracleState, NEW s \in LifetimeState, NEW e \in TraceEvent, NEW l \in Nat,
         FirstLine(e) <= l, l <= LastLine(e), Agree(o, s), s.size[e.buffer] # 0, e.write,
         NEW p, p = OracleTouch(o, e, l), NEW t, t = LifetimeTouch(s, e, l)
  PROVE  Agree(p, t)
<1>1. PICK b \in Buffer : b = e.buffer BY DEF TraceEvent
<1>2. /\ p \in OracleState /\ p.size = o.size
      /\ \A c \in Buffer \ {b} : p.written[c] = o.written[c] /\ p.age[c] = o.age[c]
      /\ p.cycle = o.cycle + SlowestWrite /\ p.age = o.age
      /\ p.written[b] = Put(o.written[b], l, p.cycle)
  <2>1. PICK u \in OracleState : u = OracleTouch(o, e, l) BY TouchIs
  <2>2. /\ u.size = o.size
        /\ \A c \in Buffer \ {b} : u.written[c] = o.written[c] /\ u.age[c] = o.age[c]
        /\ u.cycle = o.cycle + SlowestWrite /\ u.age = o.age
        /\ u.written[b] = Put(o.written[b], l, u.cycle)
    BY <1>1, <2>1, TouchIs
  <2> QED BY <2>1, <2>2
<1>3. /\ t \in LifetimeState /\ t.valid = s.valid /\ t.size = s.size
      /\ t.cycle = s.cycle + SlowestWrite
      /\ \A c \in Buffer \ {b} : t.version[c] = s.version[c]
      /\ DOMAIN t.version[b] = DOMAIN s.version[b] \cup {l}
      /\ t.version[b][l].at = t.cycle
      /\ \A k \in DOMAIN s.version[b] \ {l} : t.version[b][k] = s.version[b][k]
      /\ \A c \in Buffer : Ages(t, c) = Ages(s, c)
  <2>1. LineWritten(s, t, b, l) BY <1>1, VersionWritten
  <2> QED BY <2>1 DEF LineWritten
<1>4. p.cycle = t.cycle /\ p.size = t.size BY <1>2, <1>3 DEF Agree
<1>5. ASSUME NEW c \in Buffer PROVE SameDates(p.written[c], t.version[c])
  <2>1. SameDates(o.written[c], s.version[c]) BY DEF Agree
  <2>2. CASE c # b BY <1>2, <1>3, <2>1, <2>2
  <2>3. CASE c = b
    <3>1. DOMAIN o.written[b] = DOMAIN s.version[b]
          /\ \A k \in DOMAIN s.version[b] : o.written[b][k] = s.version[b][k].at
      BY <2>1, <2>3 DEF SameDates
    <3>2. DOMAIN p.written[b] = DOMAIN o.written[b] \cup {l} /\ p.written[b][l] = p.cycle
          /\ \A k \in DOMAIN o.written[b] \ {l} : p.written[b][k] = o.written[b][k]
      BY <1>2 DEF Put
    <3>3. ASSUME NEW k \in DOMAIN t.version[b] PROVE p.written[b][k] = t.version[b][k].at
      <4>1. CASE k = l BY <1>3, <1>4, <3>2, <4>1
      <4>2. CASE k # l
        <5>1. k \in DOMAIN s.version[b] \ {l} BY <1>3, <4>2
        <5> QED BY <1>3, <3>1, <3>2, <5>1
      <4> QED BY <4>1, <4>2
    <3> QED BY <1>3, <2>3, <3>1, <3>2, <3>3 DEF SameDates
  <2> QED BY <2>2, <2>3
<1>6. \A c \in Buffer : Longest(Ages(t, c), p.age[c]) BY <1>2, <1>3 DEF Agree
<1>7. \A c \in Buffer : t.size[c] = 0 => DOMAIN t.version[c] = {}
  BY <1>1, <1>3 DEF Agree
<1> QED BY <1>4, <1>5, <1>6, <1>7 DEF Agree

LEMMA AgreeRead ==
  ASSUME NEW o \in OracleState, NEW s \in LifetimeState, NEW e \in TraceEvent, NEW l \in Nat,
         Agree(o, s), ~e.write,
         NEW p, p = OracleTouch(o, e, l), NEW t, t = LifetimeTouch(s, e, l)
  PROVE  Agree(p, t)
<1>1. PICK b \in Buffer : b = e.buffer BY DEF TraceEvent
<1>2. /\ p \in OracleState /\ p.size = o.size
      /\ \A c \in Buffer \ {b} : p.age[c] = o.age[c]
      /\ p.cycle = o.cycle + SlowestRead /\ p.written = o.written
      /\ p.age[b] = IF l \in DOMAIN o.written[b]
                    THEN Later(o.age[b], o.cycle - o.written[b][l]) ELSE o.age[b]
  <2>1. PICK u \in OracleState : u = OracleTouch(o, e, l) BY TouchIs
  <2>2. /\ u.size = o.size
        /\ \A c \in Buffer \ {b} : u.age[c] = o.age[c]
        /\ u.cycle = o.cycle + SlowestRead /\ u.written = o.written
        /\ u.age[b] = IF l \in DOMAIN o.written[b]
                      THEN Later(o.age[b], o.cycle - o.written[b][l]) ELSE o.age[b]
    BY <1>1, <2>1, TouchIs
  <2> QED BY <2>1, <2>2
<1>3. /\ t \in LifetimeState /\ t.size = s.size
      /\ t.cycle = s.cycle + SlowestRead /\ t.samples = s.samples
      /\ \A c \in Buffer \ {b} : t.version[c] = s.version[c]
      /\ DOMAIN t.version[b] = DOMAIN s.version[b]
      /\ \A k \in DOMAIN s.version[b] :
           /\ t.version[b][k].at = s.version[b][k].at
           /\ t.version[b][k].age =
                IF k = l THEN Later(s.version[b][k].age, s.cycle - s.version[b][k].at)
                ELSE s.version[b][k].age
  <2>1. LineRead(s, t, b, l) BY <1>1, VersionRead
  <2> QED BY <2>1 DEF LineRead
<1>4. p.cycle = t.cycle /\ p.size = t.size BY <1>2, <1>3 DEF Agree
<1>5. ASSUME NEW c \in Buffer PROVE SameDates(p.written[c], t.version[c])
  <2>1. SameDates(o.written[c], s.version[c]) BY DEF Agree
  <2>2. CASE c # b BY <1>2, <1>3, <2>1, <2>2
  <2>3. CASE c = b BY <1>2, <1>3, <2>1, <2>3 DEF SameDates
  <2> QED BY <2>2, <2>3
<1>6. ASSUME NEW c \in Buffer, c # b PROVE Longest(Ages(t, c), p.age[c])
  <2>1. Ages(t, c) = Ages(s, c) BY <1>3, <1>6 DEF Ages
  <2> QED BY <1>2, <1>6, <2>1 DEF Agree
<1>7. Longest(Ages(t, b), p.age[b])
  <2> DEFINE f == s.version[b]
             g == t.version[b]
  <2>1. Longest(Ages(s, b), o.age[b]) /\ SameDates(o.written[b], f) BY DEF Agree
  <2>2. DOMAIN g = DOMAIN f BY <1>3
  <2>3. Ages(s, b) = {0} \cup Open(f) \cup Required(s.samples, b)
        /\ Ages(t, b) = {0} \cup Open(g) \cup Required(s.samples, b)
    BY <1>3 DEF Ages
  <2>4. CASE l \notin DOMAIN f
    <3>1. \A k \in DOMAIN f : g[k].age = f[k].age BY <1>3, <2>4
    <3>2. \A y : y \in Open(g) <=> y \in Open(f) BY <2>2, <3>1, OpenIs
    <3>3. Ages(t, b) = Ages(s, b) BY <2>3, <3>2
    <3>4. p.age[b] = o.age[b] BY <1>2, <2>1, <2>4 DEF SameDates
    <3> QED BY <2>1, <3>3, <3>4
  <2>5. CASE l \in DOMAIN f
    <3>1. f[l] \in Version
      <4>1. f \in Versions BY DEF LifetimeState
      <4> HIDE DEF f
      <4> QED BY <2>5, <4>1, VersionsAre
    <3>2. s.cycle \in Nat /\ f[l].age \in Nat /\ f[l].at \in Nat BY <3>1 DEF LifetimeState, Version
    <3>3. PICK d \in Int : d = s.cycle - f[l].at BY <3>2
    <3>4. PICK a \in Nat : a = f[l].age BY <3>2
    <3>5. PICK m \in Nat : m = o.age[b] BY DEF OracleState
    <3>6. p.age[b] = Later(m, d)
      <4>1. l \in DOMAIN o.written[b] /\ o.written[b][l] = f[l].at BY <2>1, <2>5 DEF SameDates
      <4>2. o.cycle = s.cycle BY DEF Agree
      <4> HIDE DEF f
      <4> QED BY <1>2, <3>3, <3>5, <4>1, <4>2
    <3>7. g[l].age = Later(a, d) /\ \A k \in DOMAIN f \ {l} : g[k].age = f[k].age
      BY <1>3, <2>5, <3>3, <3>4
    <3> HIDE DEF f, g
    <3>8. \A y : y \in Open(g) <=> y = Later(a, d) \/ \E k \in DOMAIN f \ {l} : y = f[k].age
      BY <2>2, <2>5, <3>7, OpenIs
    <3>9. a \in Open(f) BY <2>5, <3>4, OpenIs
    <3>10. Ages(s, b) \subseteq Nat BY AgesNat
    <3>11. m \in Ages(s, b) /\ a <= m /\ \A x \in Ages(s, b) : x <= m
      BY <2>1, <2>3, <3>5, <3>9 DEF Longest
    <3>12. \A y : y \in Ages(s, b) <=> y = a \/ y = 0 \/ y \in Required(s.samples, b)
                                       \/ \E k \in DOMAIN f \ {l} : y = f[k].age
      BY <2>3, <2>5, <3>4, OpenIs
    <3>13. \A y : y \in Ages(t, b) <=> y = Later(a, d) \/ y = 0 \/ y \in Required(s.samples, b)
                                       \/ \E k \in DOMAIN f \ {l} : y = f[k].age
      BY <2>3, <3>8
    <3>14. /\ Later(a, d) \in Nat /\ Later(m, d) \in Nat /\ m <= Later(m, d)
           /\ Later(a, d) <= Later(m, d)
           /\ Later(m, d) = m \/ Later(m, d) = Later(a, d)
           /\ m = a /\ Later(m, d) = m => Later(m, d) = Later(a, d)
      BY <3>11 DEF Later
    <3>15. Later(m, d) \in Ages(t, b)
      <4>1. CASE Later(m, d) = Later(a, d) BY <3>13, <4>1
      <4>2. CASE Later(m, d) = m /\ m # a BY <3>11, <3>12, <3>13, <4>2
      <4> QED BY <3>14, <4>1, <4>2
    <3>16. ASSUME NEW y \in Ages(t, b) PROVE y <= Later(m, d)
      <4>1. CASE y = Later(a, d) BY <3>14, <4>1
      <4>2. CASE y # Later(a, d)
        <5>1. y \in Ages(s, b) BY <3>12, <3>13, <4>2
        <5>2. y \in Nat /\ y <= m BY <3>10, <3>11, <5>1
        <5> QED BY <3>14, <5>2
      <4> QED BY <4>1, <4>2
    <3> QED BY <3>6, <3>15, <3>16 DEF Longest
  <2> QED BY <2>4, <2>5
<1>8. \A c \in Buffer : t.size[c] = 0 => DOMAIN t.version[c] = {}
  <2> TAKE c \in Buffer
  <2>1. DOMAIN t.version[c] = DOMAIN s.version[c]
    <3>1. CASE c = b BY <1>3, <3>1
    <3>2. CASE c # b BY <1>3, <3>2
    <3> QED BY <3>1, <3>2
  <2> QED BY <1>3, <2>1 DEF Agree
<1> QED BY <1>4, <1>5, <1>6, <1>7, <1>8 DEF Agree

LEMMA TouchType ==
  ASSUME NEW s \in LifetimeState, NEW e \in TraceEvent, NEW l \in Nat,
         FirstLine(e) <= l, l <= LastLine(e)
  PROVE  /\ LifetimeTouch(s, e, l) \in LifetimeState
         /\ LifetimeTouch(s, e, l).valid = s.valid /\ LifetimeTouch(s, e, l).size = s.size
<1>1. PICK b \in Buffer : b = e.buffer BY DEF TraceEvent
<1>2. PICK t : t = LifetimeTouch(s, e, l) OBVIOUS
<1>3. CASE e.write
  <2>1. LineWritten(s, t, b, l) BY <1>1, <1>2, <1>3, VersionWritten
  <2> QED BY <1>2, <2>1 DEF LineWritten
<1>4. CASE ~e.write
  <2>1. LineRead(s, t, b, l) BY <1>1, <1>2, <1>4, VersionRead
  <2> QED BY <1>2, <2>1 DEF LineRead
<1> QED BY <1>3, <1>4

\* The lines of one access.
Accessing(s, e, f) ==
  /\ f \in [0..Count(e) -> LifetimeState] /\ f[0] = s
  /\ f[Count(e)] = FoldLeft(LAMBDA t, l : LifetimeTouch(t, e, l), s, LinesOf(e))
  /\ \A i \in 1..Count(e) : f[i] = LifetimeTouch(f[i - 1], e, FirstLine(e) + i - 1)

LEMMA AccessingIs ==
  ASSUME NEW s \in LifetimeState, NEW e \in TraceEvent
  PROVE  \E f : Accessing(s, e, f)
<1> DEFINE n == Count(e)
           Here == FirstLine(e)..LastLine(e)
           seq == LinesOf(e)
           step == [p \in LifetimeState \X Here |-> LifetimeTouch(p[1], e, p[2])]
           Right(h) == h = [r \in SUBSET (DOMAIN seq) |->
                             IF r = {} THEN s ELSE LifetimeTouch(h[r \ {Max(r)}], e, seq[Max(r)])]
           h == CHOOSE h : Right(h)
<1>1. n \in Nat /\ seq \in [1..n -> Here] /\ DOMAIN seq = 1..n
      /\ \A i \in 1..n : seq[i] = FirstLine(e) + i - 1
  BY CountIs DEF Count
<1>2. step \in [LifetimeState \X Here -> LifetimeState]
  <2>1. ASSUME NEW p \in LifetimeState \X Here PROVE LifetimeTouch(p[1], e, p[2]) \in LifetimeState
    <3>1. p[2] \in Nat /\ FirstLine(e) <= p[2] /\ p[2] <= LastLine(e) BY CountIs DEF Count
    <3> QED BY <3>1, TouchType
  <2> QED BY <2>1
<1>3. \A t \in LifetimeState, l \in Here : step[<<t, l>>] = LifetimeTouch(t, e, l) OBVIOUS
<1>4. FoldLeft(LAMBDA t, l : LifetimeTouch(t, e, l), s, seq) = h[DOMAIN seq]
  BY DEF FoldLeft, MapThenFoldSet
<1> HIDE DEF seq, n, step, Here
<1>5. Folding(LifetimeState, Here, s, step, n, seq) BY <1>1, <1>2 DEF Folding
<1>6. ASSUME NEW r \in SUBSET (1..n), r # {} PROVE seq[Max(r)] \in Here
  <2>1. IsFiniteSet(1..n) BY <1>1, FS_Interval
  <2>2. IsFiniteSet(r) BY <2>1, FS_Subset
  <2>3. r \subseteq Nat BY <1>1
  <2>4. Max(r) \in r BY <1>6, <2>2, <2>3, MaxIs
  <2> QED BY <1>1, <2>4
<1>7. Right(h)
  <2>1. PICK g : Recursive(LifetimeState, s, step, n, seq, g) BY <1>5, FoldExists
  <2>2. \A r \in SUBSET (1..n) : r # {} =>
          step[<<g[r \ {Max(r)}], seq[Max(r)]>>] = LifetimeTouch(g[r \ {Max(r)}], e, seq[Max(r)])
    BY <1>3, <1>6, <2>1 DEF Recursive
  <2>3. Right(g) BY <1>1, <2>1, <2>2 DEF Recursive
  <2>4. \E x : Right(x) BY <2>3
  <2> HIDE DEF Right
  <2> QED BY <2>4 DEF h
<1> HIDE DEF h
<1>8. Computing(LifetimeState, s, step, n, seq, h)
  <2> SUFFICES ASSUME NEW r \in SUBSET (1..n)
               PROVE  IF r = {} THEN h[r] = s
                      ELSE h[r \ {Max(r)}] \in LifetimeState =>
                             h[r] = step[<<h[r \ {Max(r)}], seq[Max(r)]>>]
    BY DEF Computing
  <2>1. h[r] = IF r = {} THEN s ELSE LifetimeTouch(h[r \ {Max(r)}], e, seq[Max(r)])
    <3>1. r \in SUBSET (DOMAIN seq) BY <1>1
    <3> QED BY <1>7, <3>1
  <2> QED BY <1>3, <1>6, <2>1
<1>9. PICK f : Trail(LifetimeState, s, step, n, seq, f) /\ f[n] = h[1..n]
  BY <1>5, <1>8, FoldTrail
<1>10. f \in [0..n -> LifetimeState] /\ f[0] = s /\ \A i \in 1..n : f[i] = step[<<f[i - 1], seq[i]>>]
  BY <1>9 DEF Trail
<1>11. \A i \in 1..n : f[i] = LifetimeTouch(f[i - 1], e, FirstLine(e) + i - 1)
  <2> TAKE i \in 1..n
  <2>1. i - 1 \in 0..n /\ seq[i] \in Here /\ seq[i] = FirstLine(e) + i - 1 BY <1>1
  <2>2. f[i - 1] \in LifetimeState BY <1>10, <2>1
  <2> QED BY <1>3, <1>10, <2>1, <2>2
<1>12. f[n] = FoldLeft(LAMBDA t, l : LifetimeTouch(t, e, l), s, LinesOf(e))
  <2>1. h[1..n] = h[DOMAIN seq] BY <1>1, Zenon
  <2> QED BY <1>4, <1>9, <2>1 DEF seq
<1> QED BY <1>10, <1>11, <1>12 DEF Accessing, n

\* The accesses of a line change neither sizes nor validity.
LEMMA AccessingKeeps ==
  ASSUME NEW s \in LifetimeState, NEW e \in TraceEvent, NEW f, Accessing(s, e, f)
  PROVE  /\ Count(e) \in Nat
         /\ \A i \in 0..Count(e) : f[i] \in LifetimeState /\ f[i].valid = s.valid /\ f[i].size = s.size
<1>1. Count(e) \in Nat /\ FirstLine(e) \in Nat BY CountIs
<1>2. /\ f \in [0..Count(e) -> LifetimeState] /\ f[0] = s
      /\ \A i \in 1..Count(e) : f[i] = LifetimeTouch(f[i - 1], e, FirstLine(e) + i - 1)
  BY DEF Accessing
<1> DEFINE n == Count(e)
           P == {i \in 0..n : f[i].valid = s.valid /\ f[i].size = s.size}
<1>3. 0 \in P BY <1>1, <1>2
<1>4. ASSUME NEW i \in 1..n, i - 1 \in P PROVE i \in P
  <2>1. i \in 0..n /\ i - 1 \in 0..n /\ FirstLine(e) + i - 1 \in Nat BY <1>1
  <2>2. f[i - 1] \in LifetimeState /\ f[i - 1].valid = s.valid /\ f[i - 1].size = s.size
    BY <1>2, <1>4, <2>1
  <2>3. FirstLine(e) <= FirstLine(e) + i - 1 /\ FirstLine(e) + i - 1 <= LastLine(e)
    BY CountIs DEF Count
  <2>4. f[i].valid = f[i - 1].valid /\ f[i].size = f[i - 1].size BY <1>2, <2>1, <2>2, <2>3, TouchType
  <2> QED BY <2>1, <2>2, <2>4
<1>5. \A i \in 0..n : i \in P
  <2> HIDE DEF P
  <2> QED BY <1>1, <1>3, <1>4, Along
<1> QED BY <1>1, <1>2, <1>5

LEMMA LifetimeStartIs == LifetimeStart \in LifetimeState
<1>1. <<>> \in Versions /\ <<>> \in Seq(LifetimeSample) BY VersionsAre
<1> QED BY <1>1 DEF LifetimeStart, LifetimeState

\* The size of one buffer changes.
SizedAnew(s, t, b, n) ==
  /\ t \in LifetimeState /\ t.valid = s.valid /\ t.cycle = s.cycle
  /\ t.version = s.version /\ t.samples = s.samples
  /\ t.size[b] = n /\ \A c \in Buffer \ {b} : t.size[c] = s.size[c]

LEMMA Resized ==
  ASSUME NEW s \in LifetimeState, NEW b \in Buffer, NEW n \in Nat, NEW t, t = [s EXCEPT !.size[b] = n]
  PROVE  SizedAnew(s, t, b, n)
<1>1. PICK v \in [Buffer -> Nat] : v = [s.size EXCEPT ![b] = n] BY DEF LifetimeState
<1>2. t = [s EXCEPT !.size = v] BY <1>1 DEF LifetimeState
<1>3. v[b] = n /\ \A c \in Buffer \ {b} : v[c] = s.size[c] BY <1>1 DEF LifetimeState
<1> QED BY <1>2, <1>3 DEF LifetimeState, SizedAnew

\* What an event of a valid trace does, at the cycle it is issued.
Lived(s, e, t) ==
  /\ e.kind = "ALLOC" => s.size[e.buffer] = 0 /\ t = [s EXCEPT !.size[e.buffer] = e.size]
  /\ e.kind = "FREE" =>
       s.size[e.buffer] # 0 /\ t = [FinishAll(s, {e.buffer}) EXCEPT !.size[e.buffer] = 0]
  /\ e.kind = "COMPUTE" => t = [s EXCEPT !.cycle = @ + e.cycles]
  /\ e.kind = "ACCESS" =>
       /\ s.size[e.buffer] # 0 /\ InBounds(e, s.size[e.buffer])
       /\ \E f : Accessing(s, e, f) /\ t = f[Count(e)]
  /\ e.kind \notin {"ALLOC", "FREE", "COMPUTE", "ACCESS"} => t = s

LEMMA LifetimeEventIs ==
  ASSUME NEW before \in LifetimeState, NEW e \in TraceEvent, NEW t, t = LifetimeEvent(before, e)
  PROVE  /\ t \in LifetimeState /\ (t.valid => before.valid)
         /\ t.valid /\ e.tick = 0 => Lived(before, e, t)
<1>1. PICK b \in Buffer : b = e.buffer BY DEF TraceEvent
<1>2. PICK n \in Nat : n = Later(before.cycle, e.tick)
  <2>1. before.cycle \in Nat /\ e.tick \in Nat BY DEF LifetimeState, TraceEvent
  <2> QED BY <2>1, LaterIs
<1>3. PICK s : s = [before EXCEPT !.cycle = n] OBVIOUS
<1>4. s \in LifetimeState /\ s.valid = before.valid BY <1>3 DEF LifetimeState
<1>5. e.tick = 0 => s = before
  <2> HAVE e.tick = 0
  <2>1. before.cycle \in Nat BY DEF LifetimeState
  <2>2. n = before.cycle BY <1>2, <2>1 DEF Later
  <2> QED BY <1>3, <2>2 DEF LifetimeState
<1>6. PICK u : u = [s EXCEPT !.valid = FALSE] OBVIOUS
<1>7. u \in LifetimeState /\ ~u.valid BY <1>4, <1>6 DEF LifetimeState
<1>8. /\ t = CASE e.kind = "ALLOC" ->
                  IF s.size[b] # 0 THEN u ELSE [s EXCEPT !.size[b] = e.size]
             [] e.kind = "FREE" ->
                  IF s.size[b] = 0 THEN u ELSE [FinishAll(s, {b}) EXCEPT !.size[b] = 0]
             [] e.kind = "COMPUTE" -> [s EXCEPT !.cycle = @ + e.cycles]
             [] e.kind = "ACCESS" ->
                  IF s.size[b] = 0 \/ ~InBounds(e, s.size[b]) THEN u
                  ELSE FoldLeft(LAMBDA x, l : LifetimeTouch(x, e, l), s, LinesOf(e))
             [] OTHER -> s
  BY <1>1, <1>2, <1>3, <1>6 DEF LifetimeEvent
<1> SUFFICES t \in LifetimeState /\ (t.valid => s.valid /\ Lived(s, e, t))
  BY <1>4, <1>5
<1>9. CASE e.kind = "ALLOC"
  <2>1. CASE s.size[b] # 0
    <3>1. t = u BY <1>8, <1>9, <2>1
    <3> QED BY <1>7, <3>1
  <2>2. CASE s.size[b] = 0
    <3>1. t = [s EXCEPT !.size[b] = e.size] /\ e.size \in Nat BY <1>8, <1>9, <2>2 DEF TraceEvent
    <3>2. t \in LifetimeState /\ t.valid = s.valid BY <1>4, <3>1, Resized DEF SizedAnew
    <3>3. Lived(s, e, t) BY <1>1, <1>9, <2>2, <3>1 DEF Lived
    <3> QED BY <3>2, <3>3
  <2> QED BY <2>1, <2>2
<1>10. CASE e.kind = "FREE"
  <2>1. CASE s.size[b] = 0
    <3>1. t = u BY <1>8, <1>10, <2>1
    <3> QED BY <1>7, <3>1
  <2>2. CASE s.size[b] # 0
    <3>1. PICK x : x = FinishAll(s, {b}) OBVIOUS
    <3>2. {b} \in SUBSET Buffer OBVIOUS
    <3>3. x \in LifetimeState /\ x.valid = s.valid BY <1>4, <3>1, <3>2, FinishAllIs
    <3>4. t = [x EXCEPT !.size[b] = 0] BY <1>8, <1>10, <2>2, <3>1
    <3>5. t \in LifetimeState /\ t.valid = x.valid BY <3>3, <3>4, Resized DEF SizedAnew
    <3>6. Lived(s, e, t) BY <1>1, <1>10, <2>2, <3>1, <3>4 DEF Lived
    <3> QED BY <3>3, <3>5, <3>6
  <2> QED BY <2>1, <2>2
<1>11. CASE e.kind = "COMPUTE"
  <2>1. t = [s EXCEPT !.cycle = @ + e.cycles] BY <1>8, <1>11
  <2>2. PICK m \in Nat : m = s.cycle + e.cycles BY <1>4 DEF LifetimeState, TraceEvent
  <2>3. t = [s EXCEPT !.cycle = m] BY <1>4, <2>1, <2>2 DEF LifetimeState
  <2>4. t \in LifetimeState /\ t.valid = s.valid BY <1>4, <2>3 DEF LifetimeState
  <2>5. Lived(s, e, t) BY <1>11, <2>1 DEF Lived
  <2> QED BY <2>4, <2>5
<1>12. CASE e.kind = "ACCESS"
  <2>1. CASE s.size[b] = 0 \/ ~InBounds(e, s.size[b])
    <3>1. t = u BY <1>8, <1>12, <2>1
    <3> QED BY <1>7, <3>1
  <2>2. CASE ~(s.size[b] = 0 \/ ~InBounds(e, s.size[b]))
    <3>1. t = FoldLeft(LAMBDA x, l : LifetimeTouch(x, e, l), s, LinesOf(e)) BY <1>8, <1>12, <2>2
    <3>2. PICK f : Accessing(s, e, f) BY <1>4, AccessingIs
    <3>3. t = f[Count(e)] BY <3>1, <3>2 DEF Accessing
    <3>4. Count(e) \in Nat /\ f[Count(e)] \in LifetimeState /\ f[Count(e)].valid = s.valid
      BY <1>4, <3>2, AccessingKeeps
    <3>5. Lived(s, e, t) BY <1>1, <1>12, <2>2, <3>2, <3>3 DEF Lived
    <3> QED BY <3>3, <3>4, <3>5
  <2> QED BY <2>1, <2>2
<1>13. CASE e.kind \notin {"ALLOC", "FREE", "COMPUTE", "ACCESS"}
  <2>1. t = s BY <1>8, <1>13
  <2>2. Lived(s, e, t) BY <1>13, <2>1 DEF Lived
  <2> QED BY <1>4, <2>1, <2>2
<1> QED BY <1>9, <1>10, <1>11, <1>12, <1>13

LEMMA LifetimeEventType ==
  ASSUME NEW s \in LifetimeState, NEW e \in TraceEvent
  PROVE  LifetimeEvent(s, e) \in LifetimeState
<1>1. PICK t : t = LifetimeEvent(s, e) OBVIOUS
<1> QED BY <1>1, LifetimeEventIs

\* The events of a trace, all of whose versions are not finished yet.
Living(trace, f) ==
  /\ f \in [0..Len(trace) -> LifetimeState] /\ f[0] = LifetimeStart
  /\ f[Len(trace)] = FoldLeft(LifetimeEvent, LifetimeStart, trace)
  /\ \A i \in 1..Len(trace) : f[i] = LifetimeEvent(f[i - 1], trace[i])

LEMMA LivingIs ==
  ASSUME NEW trace \in Seq(TraceEvent)
  PROVE  \E f : Living(trace, f)
<1> DEFINE n == Len(trace)
           s == LifetimeStart
           step == [p \in LifetimeState \X TraceEvent |-> LifetimeEvent(p[1], p[2])]
           Right(h) == h = [r \in SUBSET (DOMAIN trace) |->
                             IF r = {} THEN s ELSE LifetimeEvent(h[r \ {Max(r)}], trace[Max(r)])]
           h == CHOOSE h : Right(h)
<1>1. n \in Nat /\ trace \in [1..n -> TraceEvent] /\ DOMAIN trace = 1..n OBVIOUS
<1>2. step \in [LifetimeState \X TraceEvent -> LifetimeState]
  <2>1. ASSUME NEW p \in LifetimeState \X TraceEvent PROVE LifetimeEvent(p[1], p[2]) \in LifetimeState
    BY LifetimeEventType
  <2> QED BY <2>1
<1>3. \A t \in LifetimeState, e \in TraceEvent : step[<<t, e>>] = LifetimeEvent(t, e) OBVIOUS
<1>4. FoldLeft(LifetimeEvent, LifetimeStart, trace) = h[DOMAIN trace] BY DEF FoldLeft, MapThenFoldSet
<1> HIDE DEF n, step
<1>5. Folding(LifetimeState, TraceEvent, s, step, n, trace) BY <1>1, <1>2, LifetimeStartIs DEF Folding
<1>6. ASSUME NEW r \in SUBSET (1..n), r # {} PROVE trace[Max(r)] \in TraceEvent
  <2>1. IsFiniteSet(1..n) BY <1>1, FS_Interval
  <2>2. IsFiniteSet(r) BY <2>1, FS_Subset
  <2>3. r \subseteq Nat BY <1>1
  <2>4. Max(r) \in r BY <1>6, <2>2, <2>3, MaxIs
  <2> QED BY <1>1, <2>4
<1>7. Right(h)
  <2>1. PICK g : Recursive(LifetimeState, s, step, n, trace, g) BY <1>5, FoldExists
  <2>2. \A r \in SUBSET (1..n) : r # {} =>
          step[<<g[r \ {Max(r)}], trace[Max(r)]>>] = LifetimeEvent(g[r \ {Max(r)}], trace[Max(r)])
    BY <1>3, <1>6, <2>1 DEF Recursive
  <2>3. Right(g) BY <1>1, <2>1, <2>2 DEF Recursive
  <2>4. \E x : Right(x) BY <2>3
  <2> HIDE DEF Right
  <2> QED BY <2>4 DEF h
<1> HIDE DEF h
<1>8. Computing(LifetimeState, s, step, n, trace, h)
  <2> SUFFICES ASSUME NEW r \in SUBSET (1..n)
               PROVE  IF r = {} THEN h[r] = s
                      ELSE h[r \ {Max(r)}] \in LifetimeState =>
                             h[r] = step[<<h[r \ {Max(r)}], trace[Max(r)]>>]
    BY DEF Computing
  <2>1. h[r] = IF r = {} THEN s ELSE LifetimeEvent(h[r \ {Max(r)}], trace[Max(r)])
    <3>1. r \in SUBSET (DOMAIN trace) BY <1>1
    <3> QED BY <1>7, <3>1
  <2> QED BY <1>3, <1>6, <2>1
<1>9. PICK f : Trail(LifetimeState, s, step, n, trace, f) /\ f[n] = h[1..n]
  BY <1>5, <1>8, FoldTrail
<1>10. f \in [0..n -> LifetimeState] /\ f[0] = s /\ \A i \in 1..n : f[i] = step[<<f[i - 1], trace[i]>>]
  BY <1>9 DEF Trail
<1>11. \A i \in 1..n : f[i] = LifetimeEvent(f[i - 1], trace[i])
  <2> TAKE i \in 1..n
  <2>1. i - 1 \in 0..n /\ trace[i] \in TraceEvent BY <1>1
  <2>2. f[i - 1] \in LifetimeState BY <1>10, <2>1
  <2> QED BY <1>3, <1>10, <2>1, <2>2
<1>12. f[n] = FoldLeft(LifetimeEvent, LifetimeStart, trace)
  <2>1. h[1..n] = h[DOMAIN trace] BY <1>1, Zenon
  <2> QED BY <1>4, <1>9, <2>1
<1> QED BY <1>10, <1>11, <1>12 DEF Living, n

LEMMA RestatedAnew ==
  ASSUME NEW s \in OracleState, NEW b \in Buffer, NEW n \in Nat, NEW t, t = Restated(s, b, n)
  PROVE  /\ t.valid = s.valid /\ t.cycle = s.cycle /\ t.age = s.age
         /\ t.size = [s.size EXCEPT ![b] = n]
         /\ t.written[b] = <<>> /\ \A c \in Buffer \ {b} : t.written[c] = s.written[c]
<1>1. PICK v \in [Buffer -> Nat] : v = [s.size EXCEPT ![b] = n] BY DEF OracleState
<1>2. PICK w \in [Buffer -> Dated] : w = [s.written EXCEPT ![b] = <<>>] BY DatedIs DEF OracleState
<1>3. t = [s EXCEPT !.size = v, !.written = w]
  BY <1>1, <1>2 DEF Restated, OracleState
<1>4. /\ t.valid = s.valid /\ t.cycle = s.cycle /\ t.age = s.age /\ t.written = w /\ t.size = v
  BY <1>3 DEF OracleState
<1>5. w[b] = <<>> /\ \A c \in Buffer \ {b} : w[c] = s.written[c] BY <1>2 DEF OracleState
<1> QED BY <1>1, <1>4, <1>5

LEMMA RestatedValid ==
  ASSUME NEW s \in OracleState, NEW b \in Buffer, NEW n \in Nat, NEW t, t = Restated(s, b, n)
  PROVE  t.valid = s.valid
<1>1. PICK v : v = [s.size EXCEPT ![b] = n] OBVIOUS
<1>2. PICK w : w = [s.written EXCEPT ![b] = <<>>] OBVIOUS
<1>3. t = [s EXCEPT !.size = v, !.written = w]
  BY <1>1, <1>2 DEF Restated, OracleState
<1> QED BY <1>3 DEF OracleState

\* An allocation or a free: no line of the buffer is left.
LEMMA AgreeRestated ==
  ASSUME NEW o \in OracleState, NEW s \in LifetimeState, Agree(o, s), NEW b \in Buffer, NEW n \in Nat,
         NEW p, p = Restated(o, b, n), NEW x \in LifetimeState,
         x.cycle = s.cycle, x.size = s.size, x.version[b] = <<>>,
         \A c \in Buffer \ {b} : x.version[c] = s.version[c],
         \A c \in Buffer : Ages(x, c) = Ages(s, c),
         NEW t, t = [x EXCEPT !.size[b] = n]
  PROVE  Agree(p, t)
<1>1. /\ p.cycle = o.cycle /\ p.age = o.age /\ p.size = [o.size EXCEPT ![b] = n]
      /\ p.written[b] = <<>> /\ \A c \in Buffer \ {b} : p.written[c] = o.written[c]
  BY RestatedAnew
<1>2. t.cycle = x.cycle /\ t.version = x.version /\ t.samples = x.samples
      /\ t.size[b] = n /\ \A c \in Buffer \ {b} : t.size[c] = x.size[c]
  <2>1. x \in LifetimeState /\ b \in Buffer /\ n \in Nat /\ t = [x EXCEPT !.size[b] = n] OBVIOUS
  <2>2. SizedAnew(x, t, b, n) BY <2>1, Resized
  <2> QED BY <2>2 DEF SizedAnew
<1>3. t.size = [x.size EXCEPT ![b] = n]
  <2>1. t = [x EXCEPT !.size = [x.size EXCEPT ![b] = n]] OBVIOUS
  <2> QED BY <2>1 DEF LifetimeState
<1>4. p.cycle = t.cycle /\ p.size = t.size BY <1>1, <1>2, <1>3 DEF Agree
<1>5. ASSUME NEW c \in Buffer PROVE SameDates(p.written[c], t.version[c])
  <2>1. CASE c = b
    <3>1. p.written[b] = <<>> /\ t.version[b] = <<>> BY <1>1, <1>2
    <3>2. SameDates(<<>>, <<>>) BY DEF SameDates
    <3> QED BY <2>1, <3>1, <3>2
  <2>2. CASE c # b BY <1>1, <1>2, <2>2 DEF Agree
  <2> QED BY <2>1, <2>2
<1>6. ASSUME NEW c \in Buffer PROVE Longest(Ages(t, c), p.age[c])
  <2>1. Ages(t, c) = Ages(x, c) BY <1>2 DEF Ages
  <2> QED BY <1>1, <2>1 DEF Agree
<1>7. ASSUME NEW c \in Buffer, t.size[c] = 0 PROVE DOMAIN t.version[c] = {}
  <2>1. CASE c = b
    <3>1. t.version[b] = <<>> BY <1>2
    <3> QED BY <2>1, <3>1
  <2>2. CASE c # b BY <1>2, <1>7, <2>2 DEF Agree
  <2> QED BY <2>1, <2>2
<1> QED BY <1>4, <1>5, <1>6, <1>7 DEF Agree

LEMMA AgreeAccess ==
  ASSUME NEW o \in OracleState, NEW s \in LifetimeState, Agree(o, s), NEW e \in TraceEvent,
         s.size[e.buffer] # 0, NEW f, Touching(o, e, f), NEW g, Accessing(s, e, g)
  PROVE  Agree(f[Count(e)], g[Count(e)])
<1> DEFINE n == Count(e)
           P == {i \in 0..n : Agree(f[i], g[i])}
<1>1. n \in Nat /\ FirstLine(e) \in Nat BY CountIs
<1>2. /\ f \in [0..n -> OracleState] /\ f[0] = o
      /\ \A i \in 1..n : f[i] = OracleTouch(f[i - 1], e, FirstLine(e) + i - 1)
  BY DEF Touching
<1>3. /\ g \in [0..n -> LifetimeState] /\ g[0] = s
      /\ \A i \in 1..n : g[i] = LifetimeTouch(g[i - 1], e, FirstLine(e) + i - 1)
  BY DEF Accessing
<1>4. \A i \in 0..n : g[i].size = s.size BY AccessingKeeps
<1>5. 0 \in P BY <1>1, <1>2, <1>3
<1>6. ASSUME NEW i \in 1..n, i - 1 \in P PROVE i \in P
  <2>1. i \in 0..n /\ i - 1 \in 0..n /\ FirstLine(e) + i - 1 \in Nat BY <1>1
  <2>2. f[i - 1] \in OracleState /\ g[i - 1] \in LifetimeState /\ Agree(f[i - 1], g[i - 1])
        /\ g[i - 1].size[e.buffer] # 0
    BY <1>2, <1>3, <1>4, <1>6, <2>1
  <2>3. f[i] = OracleTouch(f[i - 1], e, FirstLine(e) + i - 1)
        /\ g[i] = LifetimeTouch(g[i - 1], e, FirstLine(e) + i - 1)
    BY <1>2, <1>3
  <2>4. CASE e.write
    <3>1. FirstLine(e) <= FirstLine(e) + i - 1 /\ FirstLine(e) + i - 1 <= LastLine(e)
      BY CountIs DEF Count
    <3>2. Agree(f[i], g[i]) BY <2>1, <2>2, <2>3, <2>4, <3>1, AgreeWrite
    <3> QED BY <2>1, <3>2
  <2>5. CASE ~e.write
    <3>1. Agree(f[i], g[i]) BY <2>1, <2>2, <2>3, <2>5, AgreeRead
    <3> QED BY <2>1, <3>1
  <2> QED BY <2>4, <2>5
<1>7. \A i \in 0..n : i \in P
  <2> HIDE DEF P
  <2> QED BY <1>1, <1>5, <1>6, Along
<1> QED BY <1>1, <1>7

LEMMA AgreeEvent ==
  ASSUME NEW o \in OracleState, NEW s \in LifetimeState, Agree(o, s), o.valid,
         NEW e \in TraceEvent, e.tick = 0,
         NEW p, p = OracleEvent(o, e), NEW t, t = LifetimeEvent(s, e), t.valid
  PROVE  Agree(p, t) /\ p.valid
<1>1. PICK b \in Buffer : b = e.buffer BY DEF TraceEvent
<1>2. Lived(s, e, t) BY LifetimeEventIs
<1>3. o.size = s.size /\ o.cycle = s.cycle /\ (s.size[b] = 0 => DOMAIN s.version[b] = {})
  BY DEF Agree
<1>4. CASE e.kind = "ALLOC"
  <2>1. s.size[b] = 0 /\ t = [s EXCEPT !.size[b] = e.size] /\ e.size \in Nat
    BY <1>1, <1>2, <1>4 DEF Lived, TraceEvent
  <2>2. p = Restated(o, b, e.size) BY <1>1, <1>4 DEF OracleEvent
  <2>3. s.version[b] = <<>>
    <3>1. s.version[b] \in Versions /\ DOMAIN s.version[b] = {} BY <1>3, <2>1 DEF LifetimeState
    <3>2. PICK f : f = s.version[b] OBVIOUS
    <3>3. f \in [{} -> Version] BY <3>1, <3>2, VersionsAre
    <3>4. f = <<>> BY <3>3
    <3> QED BY <3>2, <3>4
  <2>4. Agree(p, t) BY <2>1, <2>2, <2>3, AgreeRestated
  <2>5. p.valid = o.valid BY <2>1, <2>2, RestatedValid
  <2> QED BY <2>4, <2>5
<1>5. CASE e.kind = "FREE"
  <2>1. PICK x : x = FinishAll(s, {b}) OBVIOUS
  <2>2. t = [x EXCEPT !.size[b] = 0] BY <1>1, <1>2, <1>5, <2>1 DEF Lived
  <2>3. p = Restated(o, b, 0) BY <1>1, <1>5 DEF OracleEvent
  <2>4. {b} \in SUBSET Buffer /\ b \in {b} OBVIOUS
  <2>5. /\ x \in LifetimeState /\ x.cycle = s.cycle /\ x.size = s.size
        /\ \A c \in {b} : x.version[c] = <<>>
        /\ \A c \in Buffer \ {b} : x.version[c] = s.version[c]
        /\ \A c \in Buffer : Ages(x, c) = Ages(s, c)
    BY <2>1, <2>4, FinishAllIs
  <2>6. x.version[b] = <<>> BY <2>4, <2>5
  <2>7. Agree(p, t) BY <2>2, <2>3, <2>5, <2>6, AgreeRestated
  <2>8. p.valid = o.valid
    <3>1. PICK n \in Nat : n = 0 OBVIOUS
    <3>2. p = Restated(o, b, n) BY <2>3, <3>1
    <3> QED BY <3>2, RestatedValid
  <2> QED BY <2>7, <2>8
<1>6. CASE e.kind = "COMPUTE"
  <2>1. PICK n \in Nat : n = s.cycle + e.cycles BY DEF LifetimeState, TraceEvent
  <2>2. t = [s EXCEPT !.cycle = n] BY <1>2, <1>6, <2>1 DEF Lived, LifetimeState
  <2>3. p = [o EXCEPT !.cycle = n] BY <1>3, <1>6, <2>1 DEF OracleEvent, OracleState
  <2>4. /\ t.cycle = n /\ t.size = s.size /\ t.version = s.version /\ t.samples = s.samples
    BY <2>2 DEF LifetimeState
  <2>5. /\ p.cycle = n /\ p.size = o.size /\ p.written = o.written /\ p.age = o.age
        /\ p.valid = o.valid
    BY <2>3 DEF OracleState
  <2>6. \A c \in Buffer : Ages(t, c) = Ages(s, c) BY <2>4 DEF Ages
  <2> QED BY <2>4, <2>5, <2>6 DEF Agree
<1>7. CASE e.kind = "ACCESS"
  <2>1. s.size[b] # 0 /\ InBounds(e, s.size[b]) BY <1>1, <1>2, <1>7 DEF Lived
  <2>2. PICK g : Accessing(s, e, g) /\ t = g[Count(e)] BY <1>2, <1>7 DEF Lived
  <2>3. PICK f : Touching(o, e, f) BY TouchingIs
  <2>4. p = f[Count(e)]
    <3>1. p = FoldLeft(LAMBDA u, l : OracleTouch(u, e, l), o, LinesOf(e))
      BY <1>1, <1>3, <1>7, <2>1 DEF OracleEvent
    <3> QED BY <2>3, <3>1 DEF Touching
  <2>5. Agree(p, t) BY <1>1, <2>1, <2>2, <2>3, <2>4, AgreeAccess
  <2>6. p.valid
    <3> DEFINE n == Count(e)
               P == {i \in 0..n : f[i].valid}
    <3>1. n \in Nat /\ FirstLine(e) \in Nat BY CountIs
    <3>2. f \in [0..n -> OracleState] /\ f[0] = o
          /\ \A i \in 1..n : f[i] = OracleTouch(f[i - 1], e, FirstLine(e) + i - 1)
      BY <2>3 DEF Touching
    <3>3. 0 \in P BY <3>1, <3>2
    <3>4. ASSUME NEW i \in 1..n, i - 1 \in P PROVE i \in P
      <4>1. i \in 0..n /\ i - 1 \in 0..n /\ FirstLine(e) + i - 1 \in Nat BY <3>1
      <4>2. f[i - 1] \in OracleState /\ f[i - 1].valid BY <3>2, <3>4, <4>1
      <4>3. PICK l \in Nat : l = FirstLine(e) + i - 1 BY <4>1
      <4>4. f[i] = OracleTouch(f[i - 1], e, l) BY <3>2, <4>3
      <4>5. PICK u \in OracleState : u = OracleTouch(f[i - 1], e, l) BY <4>2, TouchIs
      <4>6. u.valid = f[i - 1].valid BY <4>2, <4>5, TouchIs
      <4> QED BY <4>1, <4>2, <4>4, <4>5, <4>6
    <3>5. \A i \in 0..n : i \in P
      <4> HIDE DEF P
      <4> QED BY <3>1, <3>3, <3>4, Along
    <3> QED BY <2>4, <3>1, <3>5
  <2> QED BY <2>5, <2>6
<1>8. CASE e.kind \notin {"ALLOC", "FREE", "COMPUTE", "ACCESS"}
  <2>1. t = s BY <1>2, <1>8 DEF Lived
  <2>2. p = o BY <1>8 DEF OracleEvent
  <2> QED BY <2>1, <2>2
<1> QED BY <1>4, <1>5, <1>6, <1>7, <1>8

\* The longest of the lifetimes of a buffer's versions, over the whole trace.
LEMMA PassesAgree ==
  ASSUME NEW trace \in Seq(TraceEvent), \A i \in DOMAIN trace : trace[i].tick = 0,
         Lifetimes(trace).valid
  PROVE  /\ OracleAges(trace).valid
         /\ \A b \in Buffer :
              /\ Required(Lifetimes(trace).samples, b) \subseteq Nat
              /\ Longest({0} \cup Required(Lifetimes(trace).samples, b), OracleAges(trace).age[b])
<1> DEFINE n == Len(trace)
<1>1. n \in Nat /\ DOMAIN trace = 1..n /\ \A i \in 1..n : trace[i] \in TraceEvent OBVIOUS
<1>2. PICK f : Passing(trace, f) BY PassingIs
<1>3. PICK g : Living(trace, g) BY LivingIs
<1>4. /\ f \in [0..n -> OracleState] /\ f[0] = OracleStart /\ f[n] = OracleAges(trace)
      /\ \A i \in 1..n : f[i] = OracleEvent(f[i - 1], trace[i])
  BY <1>2 DEF Passing
<1>5. /\ g \in [0..n -> LifetimeState] /\ g[0] = LifetimeStart
      /\ g[n] = FoldLeft(LifetimeEvent, LifetimeStart, trace)
      /\ \A i \in 1..n : g[i] = LifetimeEvent(g[i - 1], trace[i])
  BY <1>3 DEF Living
<1>6. PICK s \in LifetimeState : s = g[n] BY <1>1, <1>5
<1>7. PICK t : t = Lifetimes(trace) OBVIOUS
<1>8. t = FinishAll(s, Buffer) BY <1>5, <1>6, <1>7 DEF Lifetimes
<1>9. /\ t \in LifetimeState /\ t.valid = s.valid
      /\ \A c \in Buffer : t.version[c] = <<>>
      /\ \A c \in Buffer : Ages(t, c) = Ages(s, c)
  <2>1. Buffer \in SUBSET Buffer OBVIOUS
  <2> QED BY <1>8, <2>1, FinishAllIs
<1>10. \A i \in 0..n : g[i].valid
  <2>1. ASSUME NEW i \in 1..n, g[i].valid PROVE g[i - 1].valid
    <3>1. i - 1 \in 0..n /\ trace[i] \in TraceEvent BY <1>1
    <3>2. g[i - 1] \in LifetimeState /\ g[i] = LifetimeEvent(g[i - 1], trace[i]) BY <1>5, <3>1
    <3> QED BY <2>1, <3>1, <3>2, LifetimeEventIs
  <2>2. g[n].valid BY <1>6, <1>7, <1>9
  <2> DEFINE R == {i \in 0..n : g[n - i].valid}
  <2>3. 0 \in R BY <1>1, <2>2
  <2>4. ASSUME NEW i \in 1..n, i - 1 \in R PROVE i \in R
    <3>1. n - i + 1 \in 1..n /\ (n - i + 1) - 1 = n - i /\ n - (i - 1) = n - i + 1 /\ i \in 0..n
      BY <1>1
    <3>2. g[n - i + 1].valid BY <2>4, <3>1
    <3>3. g[n - i].valid BY <2>1, <3>1, <3>2
    <3> QED BY <3>1, <3>3
  <2>5. \A i \in 0..n : i \in R
    <3> HIDE DEF R
    <3> QED BY <1>1, <2>3, <2>4, Along
  <2> TAKE i \in 0..n
  <2>6. n - i \in 0..n /\ n - (n - i) = i BY <1>1
  <2>7. n - i \in R BY <2>5, <2>6
  <2> QED BY <2>6, <2>7
<1>11. Agree(f[0], g[0]) /\ f[0].valid
  <2>1. /\ OracleStart.cycle = 0 /\ OracleStart.valid /\ OracleStart.size = [b \in Buffer |-> 0]
        /\ OracleStart.written = [b \in Buffer |-> <<>>] /\ OracleStart.age = [b \in Buffer |-> 0]
    BY DEF OracleStart
  <2>2. /\ LifetimeStart.cycle = 0 /\ LifetimeStart.size = [b \in Buffer |-> 0]
        /\ LifetimeStart.version = [b \in Buffer |-> <<>>] /\ LifetimeStart.samples = <<>>
    BY DEF LifetimeStart
  <2>3. SameDates(<<>>, <<>>) BY DEF SameDates
  <2>4. ASSUME NEW b \in Buffer PROVE Ages(LifetimeStart, b) = {0}
    <3>1. LifetimeStart.version[b] = <<>> BY <2>2
    <3>2. \A y : y \notin Open(<<>>) BY OpenIs
    <3>3. \A y : y \notin Required(<<>>, b) BY DEF Required
    <3> QED BY <2>2, <3>1, <3>2, <3>3 DEF Ages
  <2>5. Agree(OracleStart, LifetimeStart)
    <3>1. \A b \in Buffer : Longest(Ages(LifetimeStart, b), OracleStart.age[b])
      BY <2>1, <2>4 DEF Longest
    <3>2. \A b \in Buffer : OracleStart.written[b] = <<>> /\ LifetimeStart.version[b] = <<>>
      BY <2>1, <2>2
    <3> QED BY <2>1, <2>2, <2>3, <3>1, <3>2 DEF Agree
  <2> QED BY <1>4, <1>5, <2>1, <2>5
<1>12. Agree(f[n], g[n]) /\ f[n].valid
  <2> DEFINE P == {i \in 0..n : Agree(f[i], g[i]) /\ f[i].valid}
  <2>1. 0 \in P BY <1>1, <1>11
  <2>2. ASSUME NEW i \in 1..n, i - 1 \in P PROVE i \in P
    <3>1. i \in 0..n /\ i - 1 \in 0..n /\ trace[i] \in TraceEvent /\ trace[i].tick = 0 BY <1>1
    <3>2. f[i - 1] \in OracleState /\ g[i - 1] \in LifetimeState /\ Agree(f[i - 1], g[i - 1])
          /\ f[i - 1].valid /\ g[i].valid
      BY <1>4, <1>5, <1>10, <2>2, <3>1
    <3>3. f[i] = OracleEvent(f[i - 1], trace[i]) /\ g[i] = LifetimeEvent(g[i - 1], trace[i])
      BY <1>4, <1>5
    <3>4. Agree(f[i], g[i]) /\ f[i].valid BY <3>1, <3>2, <3>3, AgreeEvent
    <3> QED BY <3>1, <3>4
  <2>3. \A i \in 0..n : i \in P
    <3> HIDE DEF P
    <3> QED BY <1>1, <2>1, <2>2, Along
  <2> QED BY <1>1, <2>3
<1>13. ASSUME NEW b \in Buffer
       PROVE  /\ Required(t.samples, b) \subseteq Nat
              /\ Longest({0} \cup Required(t.samples, b), OracleAges(trace).age[b])
  <2>1. Longest(Ages(s, b), OracleAges(trace).age[b]) BY <1>4, <1>6, <1>12 DEF Agree
  <2>2. Ages(t, b) = {0} \cup Required(t.samples, b)
    <3>1. t.version[b] = <<>> BY <1>9
    <3>2. \A y : y \notin Open(<<>>) BY OpenIs
    <3> QED BY <3>1, <3>2 DEF Ages
  <2>3. Ages(t, b) \subseteq Nat BY <1>9, AgesNat
  <2> QED BY <1>9, <2>1, <2>2, <2>3
<1> QED BY <1>4, <1>7, <1>12, <1>13

-----------------------------------------------------------------------------
(* The percentiles of a pass's samples.                                      *)

\* The bytes of one more sample.
LEMMA WrittenMore ==
  ASSUME NEW samples, NEW I, NEW i, i \notin I, samples[i].bytes \in Nat,
         IsFiniteSet(Written(samples, I))
  PROVE  /\ IsFiniteSet(Written(samples, I \cup {i}))
         /\ Cardinality(Written(samples, I)) \in Nat
         /\ Cardinality(Written(samples, I \cup {i}))
              = Cardinality(Written(samples, I)) + samples[i].bytes
<1>1. PICK n \in Nat : n = samples[i].bytes OBVIOUS
<1>2. PICK old : old = Written(samples, I) OBVIOUS
<1>3. PICK new : new = {i} \X (1..n) OBVIOUS
<1>4. IsFiniteSet(new) /\ Cardinality(new) = n
  <2>1. IsFiniteSet(1..n) /\ Cardinality(1..n) = n
    <3>1. IsFiniteSet(1..n) /\ Cardinality(1..n) = IF 1 > n THEN 0 ELSE n - 1 + 1 BY FS_Interval
    <3> QED BY <3>1
  <2>2. IsFiniteSet({i}) /\ Cardinality({i}) = 1 BY FS_Singleton
  <2>3. IsFiniteSet({i} \X (1..n)) /\ Cardinality({i} \X (1..n)) = Cardinality({i}) * Cardinality(1..n)
    BY <2>1, <2>2, FS_Product, Zenon
  <2>4. Cardinality({i} \X (1..n)) = n BY <2>1, <2>2, <2>3
  <2> QED BY <1>3, <2>3, <2>4
<1>5. Written(samples, I \cup {i}) = old \cup new BY <1>1, <1>2, <1>3 DEF Written
<1>6. old \cap new = {} BY <1>2, <1>3 DEF Written
<1>7. IsFiniteSet(old) /\ Cardinality(old) \in Nat BY <1>2, FS_CardinalityType
<1>8. /\ IsFiniteSet(old \cup new)
      /\ Cardinality(old \cup new) = Cardinality(old) + Cardinality(new) - Cardinality(old \cap new)
  BY <1>4, <1>7, FS_Union
<1>9. Cardinality(old \cap new) = 0 BY <1>6, FS_EmptySet
<1>10. Cardinality(old \cup new) = Cardinality(old) + n BY <1>4, <1>7, <1>8, <1>9
<1> QED BY <1>1, <1>2, <1>5, <1>7, <1>8, <1>10

\* The bytes counted after each sample.
Summed(q, f) ==
  /\ f \in [0..Len(q) -> Nat] /\ f[0] = 0 /\ f[Len(q)] = BytesOf(q)
  /\ \A i \in 1..Len(q) : f[i] = f[i - 1] + q[i].bytes

LEMMA SummedIs ==
  ASSUME NEW q \in Seq(LifetimeSample)
  PROVE  \E f : Summed(q, f)
<1> DEFINE n == Len(q)
           step == [p \in Nat \X LifetimeSample |-> p[1] + p[2].bytes]
           Right(h) == h = [r \in SUBSET (DOMAIN q) |->
                             IF r = {} THEN 0 ELSE h[r \ {Max(r)}] + q[Max(r)].bytes]
           h == CHOOSE h : Right(h)
<1>1. n \in Nat /\ q \in [1..n -> LifetimeSample] /\ DOMAIN q = 1..n OBVIOUS
<1>2. step \in [Nat \X LifetimeSample -> Nat]
  <2>1. ASSUME NEW p \in Nat \X LifetimeSample PROVE p[1] + p[2].bytes \in Nat
    <3>1. p[1] \in Nat /\ p[2] \in LifetimeSample OBVIOUS
    <3>2. p[2].bytes \in Nat BY <3>1 DEF LifetimeSample
    <3> QED BY <3>1, <3>2
  <2> QED BY <2>1
<1>3. \A t \in Nat, x \in LifetimeSample : step[<<t, x>>] = t + x.bytes OBVIOUS
<1>4. BytesOf(q) = h[DOMAIN q] BY DEF BytesOf, FoldLeft, MapThenFoldSet
<1> HIDE DEF n, step
<1>5. Folding(Nat, LifetimeSample, 0, step, n, q) BY <1>1, <1>2 DEF Folding
<1>6. ASSUME NEW r \in SUBSET (1..n), r # {} PROVE q[Max(r)] \in LifetimeSample
  <2>1. IsFiniteSet(1..n) BY <1>1, FS_Interval
  <2>2. IsFiniteSet(r) BY <2>1, FS_Subset
  <2>3. r \subseteq Nat BY <1>1
  <2>4. Max(r) \in r BY <1>6, <2>2, <2>3, MaxIs
  <2> QED BY <1>1, <2>4
<1>7. Right(h)
  <2>0. PICK z \in Nat : z = 0 OBVIOUS
  <2>1. PICK g : Recursive(Nat, z, step, n, q, g) BY <1>5, <2>0, FoldExists
  <2>2. \A r \in SUBSET (1..n) : r # {} =>
          step[<<g[r \ {Max(r)}], q[Max(r)]>>] = g[r \ {Max(r)}] + q[Max(r)].bytes
    BY <1>3, <1>6, <2>1 DEF Recursive
  <2>3. Right(g) BY <1>1, <2>0, <2>1, <2>2 DEF Recursive
  <2>4. \E x : Right(x) BY <2>3
  <2> HIDE DEF Right
  <2> QED BY <2>4 DEF h
<1> HIDE DEF h
<1>8. Computing(Nat, 0, step, n, q, h)
  <2> SUFFICES ASSUME NEW r \in SUBSET (1..n)
               PROVE  IF r = {} THEN h[r] = 0
                      ELSE h[r \ {Max(r)}] \in Nat =>
                             h[r] = step[<<h[r \ {Max(r)}], q[Max(r)]>>]
    BY DEF Computing
  <2>1. h[r] = IF r = {} THEN 0 ELSE h[r \ {Max(r)}] + q[Max(r)].bytes
    <3>1. r \in SUBSET (DOMAIN q) BY <1>1
    <3> QED BY <1>7, <3>1
  <2> QED BY <1>3, <1>6, <2>1
<1>9. PICK z \in Nat : z = 0 OBVIOUS
<1>10. PICK f : Trail(Nat, z, step, n, q, f) /\ f[n] = h[1..n]
  BY <1>5, <1>8, <1>9, FoldTrail
<1>11. f \in [0..n -> Nat] /\ f[0] = 0 /\ \A i \in 1..n : f[i] = step[<<f[i - 1], q[i]>>]
  BY <1>9, <1>10 DEF Trail
<1>12. \A i \in 1..n : f[i] = f[i - 1] + q[i].bytes
  <2> TAKE i \in 1..n
  <2>1. i - 1 \in 0..n /\ q[i] \in LifetimeSample BY <1>1
  <2>2. f[i - 1] \in Nat BY <1>11, <2>1
  <2> QED BY <1>3, <1>11, <2>1, <2>2
<1>13. f[n] = BytesOf(q)
  <2>1. h[1..n] = h[DOMAIN q] BY <1>1, Zenon
  <2> QED BY <1>4, <1>10, <2>1
<1> QED BY <1>11, <1>12, <1>13 DEF Summed, n

\* q lists samples of the pass, the one at p[j] as its j-th.
Listing(samples, q, p) ==
  /\ q \in Seq(LifetimeSample) /\ p \in [1..Len(q) -> DOMAIN samples]
  /\ \A i, j \in 1..Len(q) : p[i] = p[j] => i = j
  /\ \A j \in 1..Len(q) : q[j] = samples[p[j]]

Listed(p, n) == {p[j] : j \in 1..n}

\* However they are listed, their bytes are those written.
LEMMA ListedBytes ==
  ASSUME NEW samples \in Seq(LifetimeSample), NEW q, NEW p, Listing(samples, q, p)
  PROVE  /\ IsFiniteSet(Written(samples, Listed(p, Len(q)))) /\ BytesOf(q) \in Nat
         /\ BytesOf(q) = Cardinality(Written(samples, Listed(p, Len(q))))
<1>1. /\ q \in Seq(LifetimeSample) /\ p \in [1..Len(q) -> DOMAIN samples]
      /\ \A i, j \in 1..Len(q) : p[i] = p[j] => i = j
      /\ \A j \in 1..Len(q) : q[j] = samples[p[j]]
  BY DEF Listing
<1>2. PICK f : Summed(q, f) BY <1>1, SummedIs
<1>3. PICK n \in Nat : n = Len(q) BY <1>1
<1>4. /\ f \in [0..n -> Nat] /\ f[0] = 0 /\ f[n] = BytesOf(q)
      /\ \A i \in 1..n : f[i] = f[i - 1] + q[i].bytes
  BY <1>2, <1>3 DEF Summed
<1> DEFINE P == {i \in 0..n : /\ IsFiniteSet(Written(samples, Listed(p, i)))
                              /\ f[i] = Cardinality(Written(samples, Listed(p, i)))}
<1>5. 0 \in P
  <2>1. Listed(p, 0) = {} BY DEF Listed
  <2>2. Written(samples, {}) = {} BY DEF Written
  <2>3. IsFiniteSet({}) /\ Cardinality({}) = 0 BY FS_EmptySet
  <2>4. Written(samples, Listed(p, 0)) = {} BY <2>1, <2>2, Zenon
  <2>5. IsFiniteSet(Written(samples, Listed(p, 0))) /\ Cardinality(Written(samples, Listed(p, 0))) = 0
    BY <2>3, <2>4, Zenon
  <2> QED BY <1>4, <2>5
<1>6. ASSUME NEW i \in 1..n, i - 1 \in P PROVE i \in P
  <2>1. Listed(p, i) = Listed(p, i - 1) \cup {p[i]} BY DEF Listed
  <2>2. p[i] \notin Listed(p, i - 1)
    <3>1. ASSUME NEW j \in 1..(i - 1) PROVE p[j] # p[i]
      <4>1. j \in 1..Len(q) /\ i \in 1..Len(q) /\ j # i BY <1>3
      <4> QED BY <1>1, <4>1
    <3> QED BY <3>1 DEF Listed
  <2>3. samples[p[i]].bytes \in Nat /\ q[i] = samples[p[i]]
    <3>1. i \in 1..Len(q) BY <1>3
    <3>2. q[i] \in LifetimeSample /\ q[i] = samples[p[i]] BY <1>1, <3>1
    <3> QED BY <3>2 DEF LifetimeSample
  <2>4. /\ IsFiniteSet(Written(samples, Listed(p, i - 1)))
        /\ f[i - 1] = Cardinality(Written(samples, Listed(p, i - 1)))
    BY <1>6
  <2>5. PICK I : I = Listed(p, i - 1) OBVIOUS
  <2>6. PICK k : k = p[i] OBVIOUS
  <2>7. k \notin I /\ samples[k].bytes \in Nat /\ IsFiniteSet(Written(samples, I))
        /\ f[i - 1] = Cardinality(Written(samples, I))
    BY <2>2, <2>3, <2>4, <2>5, <2>6, Zenon
  <2>8. /\ IsFiniteSet(Written(samples, I \cup {k}))
        /\ Cardinality(Written(samples, I \cup {k})) = Cardinality(Written(samples, I)) + samples[k].bytes
    BY <2>7, WrittenMore
  <2>9. f[i] = f[i - 1] + samples[k].bytes BY <1>4, <2>3, <2>6
  <2>10. Listed(p, i) = I \cup {k} BY <2>1, <2>5, <2>6
  <2>11. f[i] = Cardinality(Written(samples, I \cup {k})) BY <2>7, <2>8, <2>9
  <2>12. /\ IsFiniteSet(Written(samples, Listed(p, i)))
         /\ f[i] = Cardinality(Written(samples, Listed(p, i)))
    BY <2>8, <2>10, <2>11, Zenon
  <2> QED BY <2>12
<1>7. \A i \in 0..n : i \in P
  <2> HIDE DEF P
  <2> QED BY <1>5, <1>6, Along
<1>8. n \in P BY <1>7
<1> QED BY <1>3, <1>4, <1>8

InOrder(q) == \A i, j \in 1..Len(q) : i < j => q[i].required <= q[j].required

\* An insertion at a place: what was there and behind moves up.
Widened(q, at, x, r) ==
  /\ at \in 1..(Len(q) + 1) /\ r \in Seq(LifetimeSample) /\ Len(r) = Len(q) + 1
  /\ \A j \in 1..(Len(q) + 1) :
       r[j] = IF j < at THEN q[j] ELSE IF j = at THEN x ELSE q[j - 1]

LEMMA InsertAtIs ==
  ASSUME NEW q \in Seq(LifetimeSample), NEW x \in LifetimeSample, NEW at \in 1..(Len(q) + 1)
  PROVE  Widened(q, at, x, InsertAt(q, at, x))
<1>1. PICK n \in Nat : n = Len(q) OBVIOUS
<1>2. PICK left : left = SubSeq(q, 1, at - 1) OBVIOUS
<1>3. PICK right : right = SubSeq(q, at, n) OBVIOUS
<1>4. /\ left \in Seq(LifetimeSample) /\ Len(left) = at - 1
      /\ \A j \in 1..(at - 1) : left[j] = q[j]
  <2>1. 1 \in Int /\ at - 1 \in Int /\ \A k \in 1..(at - 1) : q[k] \in LifetimeSample BY <1>1
  <2>2. /\ SubSeq(q, 1, at - 1) \in Seq(LifetimeSample)
        /\ Len(SubSeq(q, 1, at - 1)) = IF 1 <= at - 1 THEN at - 1 - 1 + 1 ELSE 0
        /\ \A j \in 1..(at - 1 - 1 + 1) : SubSeq(q, 1, at - 1)[j] = q[1 + j - 1]
    BY <2>1, SubSeqProperties
  <2> QED BY <1>2, <2>2
<1>5. /\ right \in Seq(LifetimeSample) /\ Len(right) = n - at + 1
      /\ \A j \in 1..(n - at + 1) : right[j] = q[at + j - 1]
  <2>1. at \in Int /\ n \in Int /\ \A k \in at..n : q[k] \in LifetimeSample BY <1>1
  <2>2. /\ SubSeq(q, at, n) \in Seq(LifetimeSample)
        /\ Len(SubSeq(q, at, n)) = IF at <= n THEN n - at + 1 ELSE 0
        /\ \A j \in 1..(n - at + 1) : SubSeq(q, at, n)[j] = q[at + j - 1]
    BY <2>1, SubSeqProperties
  <2>3. at <= n + 1 BY <1>1
  <2> QED BY <1>1, <1>3, <2>2, <2>3
<1>6. PICK one : one = <<x>> OBVIOUS
<1>7. one \in Seq(LifetimeSample) /\ Len(one) = 1 /\ one[1] = x BY <1>6
<1>8. PICK front : front = left \o one OBVIOUS
<1>9. /\ front \in Seq(LifetimeSample) /\ Len(front) = at
      /\ \A j \in 1..at : front[j] = IF j < at THEN q[j] ELSE x
  <2>1. /\ left \o one \in Seq(LifetimeSample) /\ Len(left \o one) = Len(left) + Len(one)
        /\ \A j \in 1..(Len(left) + Len(one)) :
             (left \o one)[j] = IF j <= Len(left) THEN left[j] ELSE one[j - Len(left)]
    BY <1>4, <1>7, ConcatProperties
  <2>2. \A j \in 1..at : front[j] = IF j <= at - 1 THEN left[j] ELSE one[j - (at - 1)]
    BY <1>4, <1>7, <1>8, <2>1
  <2>3. Len(front) = at /\ front \in Seq(LifetimeSample) BY <1>4, <1>7, <1>8, <2>1
  <2>4. ASSUME NEW j \in 1..at PROVE front[j] = IF j < at THEN q[j] ELSE x
    <3>1. CASE j < at
      <4>1. j \in 1..(at - 1) /\ j <= at - 1 BY <3>1
      <4> QED BY <1>4, <2>2, <3>1, <4>1
    <3>2. CASE j = at
      <4>1. ~(j <= at - 1) /\ j - (at - 1) = 1 BY <3>2
      <4> QED BY <1>7, <2>2, <3>2, <4>1
    <3> QED BY <3>1, <3>2
  <2> QED BY <2>3, <2>4
<1>10. PICK r : r = front \o right OBVIOUS
<1>11. /\ r \in Seq(LifetimeSample) /\ Len(r) = n + 1
       /\ \A j \in 1..(n + 1) : r[j] = IF j <= at THEN front[j] ELSE right[j - at]
  <2>1. /\ front \o right \in Seq(LifetimeSample) /\ Len(front \o right) = Len(front) + Len(right)
        /\ \A j \in 1..(Len(front) + Len(right)) :
             (front \o right)[j] = IF j <= Len(front) THEN front[j] ELSE right[j - Len(front)]
    BY <1>5, <1>9, ConcatProperties
  <2>2. Len(front) + Len(right) = n + 1 BY <1>5, <1>9
  <2> QED BY <1>9, <1>10, <2>1, <2>2
<1>12. ASSUME NEW j \in 1..(n + 1)
       PROVE  r[j] = IF j < at THEN q[j] ELSE IF j = at THEN x ELSE q[j - 1]
  <2>1. CASE j <= at
    <3>1. j \in 1..at BY <2>1
    <3>2. r[j] = IF j < at THEN q[j] ELSE x BY <1>9, <1>11, <2>1, <3>1
    <3> QED BY <2>1, <3>2
  <2>2. CASE ~(j <= at)
    <3>1. j - at \in 1..(n - at + 1) /\ at + (j - at) - 1 = j - 1 BY <1>1, <2>2
    <3>2. r[j] = right[j - at] BY <1>11, <2>2
    <3>3. right[j - at] = q[j - 1] BY <1>5, <3>1
    <3> QED BY <2>2, <3>2, <3>3
  <2> QED BY <2>1, <2>2
<1>13. InsertAt(q, at, x) = r BY <1>1, <1>2, <1>3, <1>6, <1>8, <1>10 DEF InsertAt
<1> QED BY <1>1, <1>11, <1>12, <1>13 DEF Widened

\* A sample goes before the first of a longer lifetime.
LEMMA InsertedIs ==
  ASSUME NEW q \in Seq(LifetimeSample), NEW x \in LifetimeSample, InOrder(q),
         NEW r, r = Inserted(q, x)
  PROVE  /\ \E at : Widened(q, at, x, r)
         /\ InOrder(r)
<1>1. PICK n \in Nat : n = Len(q) /\ DOMAIN q = 1..n OBVIOUS
<1>2. PICK longer : longer = {i \in DOMAIN q : x.required < q[i].required} OBVIOUS
<1>3. PICK T : T = longer \cup {n + 1} OBVIOUS
<1>4. T \subseteq 1..(n + 1) /\ T # {} BY <1>1, <1>2, <1>3
<1>5. PICK at : at = Min(T) OBVIOUS
<1>6. at \in T /\ \A i \in T : at <= i
  <2>1. T \subseteq Nat BY <1>4
  <2> QED BY <1>4, <1>5, <2>1, MinIs
<1>7. at \in 1..(n + 1) BY <1>4, <1>6
<1>8. r = InsertAt(q, at, x) BY <1>1, <1>2, <1>3, <1>5 DEF Inserted
<1>9. Widened(q, at, x, r) BY <1>1, <1>7, <1>8, InsertAtIs
<1>10. Len(r) = n + 1
       /\ \A j \in 1..(n + 1) : r[j] = IF j < at THEN q[j] ELSE IF j = at THEN x ELSE q[j - 1]
  BY <1>1, <1>9 DEF Widened
<1>11. x.required \in Nat /\ \A i \in 1..n : q[i].required \in Nat
  <2>1. \A i \in 1..n : q[i] \in LifetimeSample BY <1>1
  <2> QED BY <2>1 DEF LifetimeSample
<1>12. \A i \in 1..n : i < at => q[i].required <= x.required
  <2> SUFFICES ASSUME NEW i \in 1..n, i < at PROVE q[i].required <= x.required OBVIOUS
  <2>1. i \notin T BY <1>6, <1>7
  <2>2. i \notin longer BY <1>3, <2>1
  <2>3. ~(x.required < q[i].required) BY <1>1, <1>2, <2>2
  <2> QED BY <1>11, <2>3
<1>13. \A i \in 1..n : at <= i => x.required <= q[i].required
  <2> SUFFICES ASSUME NEW i \in 1..n, at <= i PROVE x.required <= q[i].required OBVIOUS
  <2>1. at # n + 1 BY <1>7
  <2>2. at \in longer BY <1>3, <1>6, <2>1
  <2>3. at \in 1..n /\ x.required < q[at].required BY <1>1, <1>2, <2>2
  <2>4. q[at].required <= q[i].required
    <3>1. CASE at = i BY <1>11, <3>1
    <3>2. CASE at < i BY <1>1, <2>3, <3>2 DEF InOrder
    <3> QED BY <1>7, <3>1, <3>2
  <2> QED BY <1>11, <2>3, <2>4
<1>14. ASSUME NEW i \in 1..(n + 1), NEW j \in 1..(n + 1), i < j
       PROVE  r[i].required <= r[j].required
  <2>1. \A a, b \in 1..n : a < b => q[a].required <= q[b].required BY <1>1 DEF InOrder
  <2>2. CASE j < at
    <3>1. r[i] = q[i] /\ r[j] = q[j] /\ i \in 1..n /\ j \in 1..n BY <1>7, <1>10, <1>14, <2>2
    <3> QED BY <1>14, <2>1, <3>1
  <2>3. CASE j = at
    <3>1. r[i] = q[i] /\ r[j] = x /\ i \in 1..n /\ i < at BY <1>7, <1>10, <1>14, <2>3
    <3> QED BY <1>12, <3>1
  <2>4. CASE at < j
    <3>1. r[j] = q[j - 1] /\ j - 1 \in 1..n /\ at <= j - 1 BY <1>7, <1>10, <2>4
    <3>2. CASE i < at
      <4>1. r[i] = q[i] /\ i \in 1..n /\ i < j - 1 BY <1>7, <1>10, <2>4, <3>1, <3>2
      <4> QED BY <2>1, <3>1, <4>1
    <3>3. CASE i = at
      <4>1. r[i] = x BY <1>10, <3>3
      <4> QED BY <1>13, <3>1, <4>1
    <3>4. CASE at < i
      <4>1. r[i] = q[i - 1] /\ i - 1 \in 1..n /\ i - 1 < j - 1 BY <1>7, <1>10, <1>14, <3>4
      <4> QED BY <2>1, <3>1, <4>1
    <3> QED BY <1>7, <3>2, <3>3, <3>4
  <2> QED BY <1>7, <2>2, <2>3, <2>4
<1>15. InOrder(r) BY <1>10, <1>14 DEF InOrder
<1> QED BY <1>9, <1>15

\* The sequence as each sample is put in its place.
Sorting(samples, f) ==
  /\ f \in [0..Len(samples) -> Seq(LifetimeSample)] /\ f[0] = <<>>
  /\ f[Len(samples)] = Sorted(samples)
  /\ \A i \in 1..Len(samples) : f[i] = Inserted(f[i - 1], samples[i])

\* An insertion of any sequence is a sequence, as a fold requires.
LEMMA InsertedType ==
  ASSUME NEW q \in Seq(LifetimeSample), NEW x \in LifetimeSample
  PROVE  Inserted(q, x) \in Seq(LifetimeSample)
<1>1. PICK n \in Nat : n = Len(q) /\ DOMAIN q = 1..n OBVIOUS
<1>2. PICK T : T = {i \in DOMAIN q : x.required < q[i].required} \cup {n + 1} OBVIOUS
<1>3. T \subseteq 1..(n + 1) /\ T # {} BY <1>1, <1>2
<1>4. PICK at : at = Min(T) OBVIOUS
<1>5. at \in 1..(n + 1)
  <2>1. T \subseteq Nat BY <1>3
  <2>2. at \in T BY <1>3, <1>4, <2>1, MinIs
  <2> QED BY <1>3, <2>2
<1>6. Inserted(q, x) = InsertAt(q, at, x) BY <1>1, <1>2, <1>4 DEF Inserted
<1> QED BY <1>1, <1>5, <1>6, InsertAtIs DEF Widened

LEMMA SortingIs ==
  ASSUME NEW samples \in Seq(LifetimeSample)
  PROVE  \E f : Sorting(samples, f)
<1> DEFINE n == Len(samples)
           Q == Seq(LifetimeSample)
           step == [p \in Q \X LifetimeSample |-> Inserted(p[1], p[2])]
           Right(h) == h = [r \in SUBSET (DOMAIN samples) |->
                             IF r = {} THEN <<>> ELSE Inserted(h[r \ {Max(r)}], samples[Max(r)])]
           h == CHOOSE h : Right(h)
<1>1. n \in Nat /\ samples \in [1..n -> LifetimeSample] /\ DOMAIN samples = 1..n /\ <<>> \in Q OBVIOUS
<1>2. step \in [Q \X LifetimeSample -> Q]
  <2>1. ASSUME NEW p \in Q \X LifetimeSample PROVE Inserted(p[1], p[2]) \in Q
    BY InsertedType
  <2> QED BY <2>1
<1>3. \A t \in Q, x \in LifetimeSample : step[<<t, x>>] = Inserted(t, x) OBVIOUS
<1>4. Sorted(samples) = h[DOMAIN samples] BY DEF Sorted, FoldLeft, MapThenFoldSet
<1> HIDE DEF n, step, Q
<1>5. Folding(Q, LifetimeSample, <<>>, step, n, samples) BY <1>1, <1>2 DEF Folding
<1>6. ASSUME NEW r \in SUBSET (1..n), r # {} PROVE samples[Max(r)] \in LifetimeSample
  <2>1. IsFiniteSet(1..n) BY <1>1, FS_Interval
  <2>2. IsFiniteSet(r) BY <2>1, FS_Subset
  <2>3. r \subseteq Nat BY <1>1
  <2>4. Max(r) \in r BY <1>6, <2>2, <2>3, MaxIs
  <2> QED BY <1>1, <2>4
<1>0. PICK z : z = <<>> OBVIOUS
<1>7. Right(h)
  <2>1. PICK g : Recursive(Q, z, step, n, samples, g) BY <1>0, <1>5, FoldExists
  <2>2. \A r \in SUBSET (1..n) : r # {} =>
          step[<<g[r \ {Max(r)}], samples[Max(r)]>>] = Inserted(g[r \ {Max(r)}], samples[Max(r)])
    BY <1>3, <1>6, <2>1 DEF Recursive
  <2>3. Right(g) BY <1>0, <1>1, <2>1, <2>2 DEF Recursive
  <2>4. \E x : Right(x) BY <2>3
  <2> HIDE DEF Right
  <2> QED BY <2>4 DEF h
<1> HIDE DEF h
<1>8. Computing(Q, z, step, n, samples, h)
  <2> SUFFICES ASSUME NEW r \in SUBSET (1..n)
               PROVE  IF r = {} THEN h[r] = z
                      ELSE h[r \ {Max(r)}] \in Q =>
                             h[r] = step[<<h[r \ {Max(r)}], samples[Max(r)]>>]
    BY DEF Computing
  <2>1. h[r] = IF r = {} THEN z ELSE Inserted(h[r \ {Max(r)}], samples[Max(r)])
    <3>1. r \in SUBSET (DOMAIN samples) BY <1>1
    <3> QED BY <1>0, <1>7, <3>1
  <2> QED BY <1>3, <1>6, <2>1
<1>9. PICK f : Trail(Q, z, step, n, samples, f) /\ f[n] = h[1..n]
  BY <1>0, <1>5, <1>8, FoldTrail
<1>10. f \in [0..n -> Q] /\ f[0] = z /\ \A i \in 1..n : f[i] = step[<<f[i - 1], samples[i]>>]
  BY <1>9 DEF Trail
<1>11. \A i \in 1..n : f[i] = Inserted(f[i - 1], samples[i])
  <2> TAKE i \in 1..n
  <2>1. i - 1 \in 0..n /\ samples[i] \in LifetimeSample BY <1>1
  <2>2. f[i - 1] \in Q BY <1>10, <2>1
  <2> QED BY <1>3, <1>10, <2>1, <2>2
<1>12. f[n] = Sorted(samples)
  <2>1. h[1..n] = h[DOMAIN samples] BY <1>1, Zenon
  <2> QED BY <1>4, <1>9, <2>1
<1> QED BY <1>0, <1>10, <1>11, <1>12 DEF Sorting, n, Q

\* The first m samples in order, each listed once.
Arranged(samples, m, q) ==
  /\ q \in Seq(LifetimeSample) /\ Len(q) = m /\ InOrder(q)
  /\ \E p \in [1..m -> 1..m] :
       /\ \A i, j \in 1..m : p[i] = p[j] => i = j
       /\ \A j \in 1..m : q[j] = samples[p[j]]

LEMMA ArrangedMore ==
  ASSUME NEW samples \in Seq(LifetimeSample), NEW m \in 1..Len(samples), NEW q,
         Arranged(samples, m - 1, q), NEW r, r = Inserted(q, samples[m])
  PROVE  Arranged(samples, m, r)
<1>1. m \in Nat \ {0} /\ samples[m] \in LifetimeSample OBVIOUS
<1>2. q \in Seq(LifetimeSample) /\ Len(q) = m - 1 /\ InOrder(q) BY DEF Arranged
<1>3. PICK p \in [1..(m - 1) -> 1..(m - 1)] :
        /\ \A i, j \in 1..(m - 1) : p[i] = p[j] => i = j
        /\ \A j \in 1..(m - 1) : q[j] = samples[p[j]]
  BY DEF Arranged
<1>4. PICK at : Widened(q, at, samples[m], r) BY <1>1, <1>2, InsertedIs
<1>5. InOrder(r) BY <1>1, <1>2, InsertedIs
<1>6. /\ at \in 1..m /\ r \in Seq(LifetimeSample) /\ Len(r) = m
      /\ \A j \in 1..m : r[j] = IF j < at THEN q[j] ELSE IF j = at THEN samples[m] ELSE q[j - 1]
  BY <1>1, <1>2, <1>4 DEF Widened
<1> DEFINE s == [j \in 1..m |-> IF j < at THEN p[j] ELSE IF j = at THEN m ELSE p[j - 1]]
<1>7. \A j \in 1..m : /\ j < at => j \in 1..(m - 1)
                      /\ at < j => j - 1 \in 1..(m - 1)
  BY <1>1, <1>6
<1>8. \A j \in 1..m : s[j] = IF j < at THEN p[j] ELSE IF j = at THEN m ELSE p[j - 1] OBVIOUS
<1>9. s \in [1..m -> 1..m]
  <2>1. \A j \in 1..m : s[j] \in 1..m BY <1>1, <1>3, <1>6, <1>7
  <2> QED BY <2>1
<1> HIDE DEF s
<1>10. ASSUME NEW i \in 1..m, NEW j \in 1..m, s[i] = s[j] PROVE i = j
  <2> DEFINE From(k) == IF k < at THEN k ELSE k - 1
  <2>1. ASSUME NEW k \in 1..m, k # at
        PROVE  From(k) \in 1..(m - 1) /\ s[k] = p[From(k)]
    <3>1. CASE k < at BY <1>7, <1>8, <3>1
    <3>2. CASE at < k BY <1>6, <1>7, <1>8, <3>2
    <3> QED BY <1>6, <2>1, <3>1, <3>2
  <2>2. \A k \in 1..(m - 1) : p[k] # m BY <1>1, <1>3
  <2>3. s[at] = m BY <1>6, <1>8
  <2>4. ASSUME NEW a \in 1..m, NEW b \in 1..m, a # at, b # at, From(a) = From(b) PROVE a = b
    <3>1. a \in Int /\ b \in Int /\ at \in Int BY <1>6
    <3>2. CASE a < at
      <4>1. From(a) = a BY <3>2
      <4>2. b < at BY <2>4, <3>1, <3>2, <4>1
      <4> QED BY <2>4, <4>1, <4>2
    <3>3. CASE at < a
      <4>1. From(a) = a - 1 BY <3>1, <3>3
      <4>2. at < b BY <2>4, <3>1, <3>3, <4>1
      <4>3. From(b) = b - 1 BY <3>1, <4>2
      <4> QED BY <2>4, <3>1, <4>1, <4>3
    <3> QED BY <2>4, <3>1, <3>2, <3>3
  <2> HIDE DEF From
  <2>5. \A k \in 1..m : k # at => s[k] # m BY <2>1, <2>2
  <2>6. CASE i = at \/ j = at BY <1>10, <2>3, <2>5, <2>6
  <2>7. CASE i # at /\ j # at
    <3>1. From(i) = From(j) BY <1>3, <1>10, <2>1, <2>7
    <3> QED BY <2>4, <2>7, <3>1
  <2> QED BY <2>6, <2>7
<1>11. ASSUME NEW j \in 1..m PROVE r[j] = samples[s[j]]
  <2>1. CASE j < at BY <1>3, <1>6, <1>7, <1>8, <2>1
  <2>2. CASE j = at BY <1>6, <1>8, <2>2
  <2>3. CASE at < j
    <3>1. j - 1 \in 1..(m - 1) /\ ~(j < at) /\ j # at BY <1>6, <1>7, <2>3
    <3>2. r[j] = q[j - 1] BY <1>6, <3>1
    <3>3. s[j] = p[j - 1] BY <1>8, <3>1
    <3> QED BY <1>3, <3>1, <3>2, <3>3
  <2> QED BY <1>6, <2>1, <2>2, <2>3
<1> QED BY <1>5, <1>6, <1>9, <1>10, <1>11 DEF Arranged

LEMMA SortedIs ==
  ASSUME NEW samples \in Seq(LifetimeSample)
  PROVE  Arranged(samples, Len(samples), Sorted(samples))
<1>1. PICK n \in Nat : n = Len(samples) OBVIOUS
<1>2. PICK f : Sorting(samples, f) BY SortingIs
<1>3. /\ f[0] = <<>> /\ f[n] = Sorted(samples)
      /\ \A i \in 1..n : f[i] = Inserted(f[i - 1], samples[i])
  BY <1>1, <1>2 DEF Sorting
<1> DEFINE P == {i \in 0..n : Arranged(samples, i, f[i])}
<1>4. 0 \in P
  <2>1. PICK q : q = <<>> OBVIOUS
  <2>2. q \in Seq(LifetimeSample) /\ Len(q) = 0 /\ q \in [1..0 -> 1..0] BY <2>1
  <2>3. InOrder(q) BY <2>2 DEF InOrder
  <2>4. PICK z \in Nat : z = 0 OBVIOUS
  <2>5. 1..z = {} /\ q \in [1..z -> 1..z] BY <2>2, <2>4
  <2>6. \E p \in [1..z -> 1..z] : /\ \A i, j \in 1..z : p[i] = p[j] => i = j
                                 /\ \A j \in 1..z : q[j] = samples[p[j]]
    BY <2>5
  <2>7. Arranged(samples, z, q) BY <2>2, <2>3, <2>4, <2>6 DEF Arranged
  <2>8. Arranged(samples, 0, q) BY <2>4, <2>7
  <2> QED BY <1>3, <2>1, <2>8
<1>5. ASSUME NEW i \in 1..n, i - 1 \in P PROVE i \in P
  <2>1. i \in 1..Len(samples) /\ i \in 0..n BY <1>1
  <2>2. Arranged(samples, i - 1, f[i - 1]) /\ f[i] = Inserted(f[i - 1], samples[i]) BY <1>3, <1>5
  <2>3. Arranged(samples, i, f[i]) BY <2>1, <2>2, ArrangedMore
  <2> QED BY <2>1, <2>3
<1>6. \A i \in 0..n : i \in P
  <2> HIDE DEF P
  <2> QED BY <1>4, <1>5, Along
<1>7. n \in P BY <1>6
<1> QED BY <1>1, <1>3, <1>7

\* The bytes whose last read comes by an age.
UpTo(samples, age) == Cardinality(Written(samples, {i \in DOMAIN samples : samples[i].required <= age}))

Covers(samples, percent, age) ==
  LET all == Cardinality(Written(samples, DOMAIN samples)) IN
  100 * UpTo(samples, age) >= percent * all /\ 100 * UpTo(samples, age - 1) < percent * all

\* Fewer samples have no more bytes.
LEMMA WrittenWithin ==
  ASSUME NEW samples \in Seq(LifetimeSample), NEW I, NEW J, I \subseteq J, J \subseteq DOMAIN samples
  PROVE  /\ Cardinality(Written(samples, I)) \in Nat /\ Cardinality(Written(samples, J)) \in Nat
         /\ Cardinality(Written(samples, I)) <= Cardinality(Written(samples, J))
<1>1. PICK n \in Nat : n = Len(samples) /\ DOMAIN samples = 1..n OBVIOUS
<1>2. PICK p : p = [j \in 1..n |-> j] OBVIOUS
<1>3. Listing(samples, samples, p) BY <1>1, <1>2 DEF Listing
<1>4. Listed(p, n) = 1..n BY <1>2 DEF Listed
<1>5. PICK all : all = Written(samples, Listed(p, n)) OBVIOUS
<1>6. IsFiniteSet(all) BY <1>1, <1>3, <1>5, ListedBytes
<1>7. all = Written(samples, 1..n) BY <1>4, <1>5, Zenon
<1>8. Written(samples, I) \subseteq Written(samples, J) BY DEF Written
<1>9. Written(samples, J) \subseteq all BY <1>1, <1>7 DEF Written
<1>10. PICK a : a = Written(samples, I) OBVIOUS
<1>11. PICK b : b = Written(samples, J) OBVIOUS
<1>12. IsFiniteSet(b) BY <1>6, <1>9, <1>11, FS_Subset
<1>13. IsFiniteSet(a) /\ Cardinality(a) <= Cardinality(b) BY <1>8, <1>10, <1>11, <1>12, FS_Subset
<1>14. Cardinality(a) \in Nat /\ Cardinality(b) \in Nat BY <1>12, <1>13, FS_CardinalityType
<1> QED BY <1>10, <1>11, <1>13, <1>14

\* All the bytes, which are some.
LEMMA AllBytes ==
  ASSUME NEW samples \in Seq(LifetimeSample), samples # <<>>
  PROVE  /\ BytesOf(samples) \in Nat \ {0}
         /\ BytesOf(samples) = Cardinality(Written(samples, DOMAIN samples))
<1>1. PICK n \in Nat : n = Len(samples) /\ DOMAIN samples = 1..n OBVIOUS
<1>2. PICK p : p = [j \in 1..n |-> j] OBVIOUS
<1>3. Listing(samples, samples, p) BY <1>1, <1>2 DEF Listing
<1>4. Listed(p, n) = 1..n BY <1>2 DEF Listed
<1>5. PICK all : all = Written(samples, Listed(p, n)) OBVIOUS
<1>6. IsFiniteSet(all) /\ BytesOf(samples) \in Nat /\ BytesOf(samples) = Cardinality(all)
  BY <1>1, <1>3, <1>5, ListedBytes
<1>7. all = Written(samples, DOMAIN samples) BY <1>1, <1>4, <1>5, Zenon
<1>8. 1 \in DOMAIN samples BY <1>1
<1>9. samples[1] \in LifetimeSample BY <1>1, <1>8
<1>10. 1 \in 1..samples[1].bytes BY <1>9 DEF LifetimeSample
<1>11. <<1, 1>> \in all BY <1>7, <1>8, <1>10 DEF Written
<1>12. Cardinality(all) # 0 BY <1>6, <1>11, FS_EmptySet
<1> QED BY <1>6, <1>7, <1>12

\* The bytes of the first k samples in order.
LEMMA FirstBytes ==
  ASSUME NEW samples \in Seq(LifetimeSample), NEW q \in Seq(LifetimeSample),
         NEW p, Listing(samples, q, p), NEW k \in 1..Len(q)
  PROVE  BytesOf(SubSeq(q, 1, k)) = Cardinality(Written(samples, Listed(p, k)))
<1>1. PICK r : r = SubSeq(q, 1, k) OBVIOUS
<1>2. r \in Seq(LifetimeSample) /\ Len(r) = k /\ \A j \in 1..k : r[j] = q[j]
  <2>1. 1 \in Int /\ k \in Int /\ 1 <= k /\ \A j \in 1..k : q[j] \in LifetimeSample OBVIOUS
  <2>2. /\ SubSeq(q, 1, k) \in Seq(LifetimeSample)
        /\ Len(SubSeq(q, 1, k)) = IF 1 <= k THEN k - 1 + 1 ELSE 0
        /\ \A j \in 1..(k - 1 + 1) : SubSeq(q, 1, k)[j] = q[1 + j - 1]
    BY <2>1, SubSeqProperties
  <2> QED BY <1>1, <2>1, <2>2
<1>3. PICK s : s = [j \in 1..k |-> p[j]] OBVIOUS
<1>4. \A j \in 1..k : j \in 1..Len(q) OBVIOUS
<1>5. Listing(samples, r, s)
  <2>1. s \in [1..k -> DOMAIN samples] BY <1>3, <1>4 DEF Listing
  <2>2. \A i, j \in 1..k : s[i] = s[j] => i = j BY <1>3, <1>4 DEF Listing
  <2>3. \A j \in 1..k : r[j] = samples[s[j]] BY <1>2, <1>3, <1>4 DEF Listing
  <2> QED BY <1>2, <2>1, <2>2, <2>3 DEF Listing
<1>6. BytesOf(r) = Cardinality(Written(samples, Listed(s, Len(r)))) BY <1>5, ListedBytes
<1>7. Listed(s, Len(r)) = Listed(p, k) BY <1>2, <1>3 DEF Listed
<1> QED BY <1>1, <1>6, <1>7, Zenon

\* A share of a number of bytes, rounded up.
LEMMA RoundedUp ==
  ASSUME NEW n \in Nat \ {0}, NEW percent \in 1..100
  PROVE  /\ percent * n \in Nat /\ Later(1, (percent * n + 99) \div 100) \in 1..n
         /\ 100 * Later(1, (percent * n + 99) \div 100) >= percent * n
         /\ 100 * (Later(1, (percent * n + 99) \div 100) - 1) < percent * n
<1>1. percent * n \in Nat /\ 1 <= percent * n /\ percent * n <= 100 * n OBVIOUS
<1>2. PICK t \in Nat : t = percent * n BY <1>1
<1>3. 1 <= t /\ t <= 100 * n BY <1>1, <1>2
<1>4. PICK d \in Nat : d = (t + 99) \div 100 OBVIOUS
<1>5. 100 * d <= t + 99 /\ t + 99 < 100 * d + 100 BY <1>4
<1>6. 1 <= d /\ d <= n BY <1>3, <1>5
<1>7. Later(1, d) = d BY <1>6 DEF Later
<1>8. (percent * n + 99) \div 100 = d BY <1>2, <1>4
<1>9. Later(1, (percent * n + 99) \div 100) = d BY <1>7, <1>8
<1>10. d \in 1..n /\ 100 * d >= t /\ 100 * (d - 1) < t BY <1>5, <1>6
<1> QED BY <1>2, <1>9, <1>10

\* The share of the bytes, rounded up, and the place in the order that reaches it.
Share(samples, percent) == Later(1, (percent * BytesOf(samples) + 99) \div 100)

Reaches(samples, q, target, k) ==
  /\ k \in 1..Len(q) /\ BytesOf(SubSeq(q, 1, k)) >= target
  /\ \A i \in 1..Len(q) : BytesOf(SubSeq(q, 1, i)) >= target => k <= i

Stops(samples, percent, q, target) ==
  \E k : Reaches(samples, q, target, k) /\ Percentile(samples, percent) = q[k].required

LEMMA ReachesIs ==
  ASSUME NEW samples \in Seq(LifetimeSample), samples # <<>>, NEW percent \in 1..100,
         NEW q, q = Sorted(samples), NEW n \in Nat, n = Len(q), 
         NEW target, target = Share(samples, percent),
         n \in 1..n, BytesOf(SubSeq(q, 1, n)) >= target, DOMAIN q = 1..n
  PROVE  Stops(samples, percent, q, target)
<1>1. PICK T : T = {i \in 1..n : BytesOf(SubSeq(q, 1, i)) >= target} OBVIOUS
<1>2. T \subseteq Nat /\ T # {} /\ n \in T /\ T \subseteq 1..n BY <1>1
<1>3. PICK k : k = Min(T) OBVIOUS
<1>4. k \in T /\ \A i \in T : k <= i BY <1>2, <1>3, MinIs
<1>5. Reaches(samples, q, target, k) BY <1>1, <1>4 DEF Reaches
<1>6. T \cup {n} = T BY <1>2
<1>7. Percentile(samples, percent) = q[Min(T \cup {n})].required BY <1>1 DEF Percentile, Share
<1>8. Percentile(samples, percent) = q[k].required BY <1>3, <1>6, <1>7, Zenon
<1> QED BY <1>5, <1>8 DEF Stops

LEMMA PercentileIs ==
  ASSUME NEW samples \in Seq(LifetimeSample), samples # <<>>, NEW percent \in 1..100
  PROVE  Covers(samples, percent, Percentile(samples, percent))
<1>1. PICK n \in Nat \ {0} : n = Len(samples) /\ DOMAIN samples = 1..n OBVIOUS
<1>2. PICK q : q = Sorted(samples) OBVIOUS
<1>3. q \in Seq(LifetimeSample) /\ Len(q) = n /\ DOMAIN q = 1..n /\ InOrder(q)
  <2>1. Arranged(samples, n, q) BY <1>1, <1>2, SortedIs
  <2> QED BY <2>1 DEF Arranged
<1>4. PICK p \in [1..n -> 1..n] : /\ \A i, j \in 1..n : p[i] = p[j] => i = j
                                  /\ \A j \in 1..n : q[j] = samples[p[j]]
  <2>1. Arranged(samples, n, q) BY <1>1, <1>2, SortedIs
  <2> QED BY <2>1 DEF Arranged
<1>5. Listing(samples, q, p) BY <1>1, <1>3, <1>4 DEF Listing
\* Every sample is listed.
<1>6. \A i \in 1..n : \E j \in 1..n : p[j] = i
  <2>1. IsFiniteSet(1..n) BY FS_Interval
  <2>2. p \in Injection(1..n, 1..n) BY <1>4 DEF Injection, IsInjective
  <2>3. p \in Surjection(1..n, 1..n) BY <2>1, <2>2, FS_Injection
  <2> QED BY <2>3 DEF Surjection
<1>7. Listed(p, n) = DOMAIN samples BY <1>1, <1>4, <1>6 DEF Listed
<1>8. PICK all \in Nat \ {0} : all = BytesOf(samples) /\ all = Cardinality(Written(samples, DOMAIN samples))
  BY AllBytes
<1>9. PICK target : target = Later(1, (percent * all + 99) \div 100) OBVIOUS
<1>10. /\ percent * all \in Nat /\ target \in 1..all
       /\ 100 * target >= percent * all /\ 100 * (target - 1) < percent * all
  BY <1>9, RoundedUp
<1> DEFINE Counted(k) == Cardinality(Written(samples, Listed(p, k)))
<1>11. \A k \in 1..n : BytesOf(SubSeq(q, 1, k)) = Counted(k)
  BY <1>3, <1>5, FirstBytes
<1>12. Counted(n) = all BY <1>7, <1>8, Zenon
<1>13. n \in 1..n /\ BytesOf(SubSeq(q, 1, n)) >= target
  <2>1. n \in 1..n OBVIOUS
  <2>2. BytesOf(SubSeq(q, 1, n)) = all BY <1>11, <1>12, <2>1
  <2> QED BY <1>10, <2>1, <2>2
<1>14. PICK k : Reaches(samples, q, target, k) /\ Percentile(samples, percent) = q[k].required
  <2>1. target = Share(samples, percent) BY <1>8, <1>9 DEF Share
  <2>2. n \in Nat /\ n = Len(q) /\ DOMAIN q = 1..n BY <1>3
  <2> HIDE DEF Counted
  <2>3. Stops(samples, percent, q, target) BY <1>2, <1>13, <2>1, <2>2, ReachesIs
  <2> QED BY <2>3 DEF Stops
<1>15. k \in 1..n /\ Counted(k) >= target /\ \A i \in 1..n : Counted(i) >= target => k <= i
  <2> HIDE DEF Counted
  <2> QED BY <1>3, <1>11, <1>14 DEF Reaches
<1>16. PICK age \in Nat : age = q[k].required
  <2>1. q[k] \in LifetimeSample BY <1>3, <1>15
  <2> QED BY <2>1 DEF LifetimeSample
<1>17. \A j \in 1..n : q[j].required \in Nat
  <2>1. \A j \in 1..n : q[j] \in LifetimeSample BY <1>3
  <2> QED BY <2>1 DEF LifetimeSample
<1> DEFINE Within(a) == {i \in DOMAIN samples : samples[i].required <= a}
<1>18. Listed(p, k) \subseteq Within(age)
  <2> SUFFICES ASSUME NEW j \in 1..k PROVE p[j] \in Within(age) BY DEF Listed
  <2>1. j \in 1..n BY <1>15
  <2>2. q[j].required <= age
    <3>1. CASE j = k BY <1>16, <1>17, <1>15, <3>1
    <3>2. CASE j < k BY <1>3, <1>15, <1>16, <2>1, <3>2 DEF InOrder
    <3> QED BY <1>15, <3>1, <3>2
  <2>3. p[j] \in DOMAIN samples /\ q[j] = samples[p[j]] BY <1>1, <1>4, <2>1
  <2> QED BY <2>2, <2>3
<1>19. Within(age - 1) \subseteq Listed(p, k - 1)
  <2> SUFFICES ASSUME NEW i \in Within(age - 1) PROVE i \in Listed(p, k - 1) OBVIOUS
  <2>1. i \in 1..n /\ samples[i].required <= age - 1 BY <1>1
  <2>2. PICK j \in 1..n : p[j] = i BY <1>6, <2>1
  <2>3. q[j].required <= age - 1 BY <1>4, <2>1, <2>2
  <2>4. ~(k <= j)
    <3>1. ASSUME k <= j PROVE FALSE
      <4>1. q[k].required <= q[j].required
        <5>1. CASE k = j BY <1>15, <1>17, <5>1
        <5>2. CASE k < j BY <1>3, <1>15, <5>2 DEF InOrder
        <5> QED BY <1>15, <3>1, <5>1, <5>2
      <4>2. PICK x \in Nat : x = q[j].required BY <1>17
      <4>3. age <= x /\ x <= age - 1 BY <1>16, <2>3, <4>1, <4>2
      <4> QED BY <4>3
    <3> QED BY <3>1
  <2>5. j \in 1..(k - 1) BY <1>15, <2>4
  <2> QED BY <2>2, <2>5 DEF Listed
<1> HIDE DEF Within
<1>20. Within(age) \subseteq DOMAIN samples /\ Listed(p, k - 1) \subseteq DOMAIN samples
  <2>1. \A j \in 1..(k - 1) : p[j] \in DOMAIN samples BY <1>1, <1>4, <1>15
  <2> QED BY <2>1 DEF Within, Listed
<1>21. PICK a : a = Cardinality(Written(samples, Within(age))) OBVIOUS
<1>22. PICK b : b = Cardinality(Written(samples, Within(age - 1))) OBVIOUS
<1>23. a \in Nat /\ Counted(k) <= a /\ Counted(k) \in Nat BY <1>18, <1>20, <1>21, WrittenWithin
<1>24. b \in Nat /\ b <= Counted(k - 1) /\ Counted(k - 1) \in Nat BY <1>19, <1>20, <1>22, WrittenWithin
<1>25. Counted(k - 1) < target
  <2>1. CASE k = 1
    <3>1. Listed(p, k - 1) = {} BY <2>1 DEF Listed
    <3>2. Written(samples, {}) = {} BY DEF Written
    <3>3. Cardinality({}) = 0 BY FS_EmptySet
    <3>4. Counted(k - 1) = 0 BY <3>1, <3>2, <3>3, Zenon
    <3> HIDE DEF Counted
    <3> QED BY <1>10, <3>4
  <2>2. CASE k # 1
    <3>1. k - 1 \in 1..n /\ ~(k <= k - 1) BY <1>15, <2>2
    <3> HIDE DEF Counted
    <3> QED BY <1>10, <1>15, <1>24, <3>1
  <2> QED BY <2>1, <2>2
<1> HIDE DEF Counted
<1>26. 100 * a >= percent * all
  <2>1. PICK t \in Nat : t = percent * all BY <1>10
  <2>2. 100 * target >= t /\ target <= a BY <1>10, <1>15, <1>23, <2>1
  <2> QED BY <1>10, <1>23, <2>1, <2>2
<1>27. 100 * b < percent * all
  <2>1. PICK t \in Nat : t = percent * all BY <1>10
  <2>2. 100 * (target - 1) < t /\ b <= target - 1 BY <1>10, <1>24, <1>25, <2>1
  <2> QED BY <1>10, <1>24, <2>1, <2>2
<1>28. a = UpTo(samples, age) /\ b = UpTo(samples, age - 1) BY <1>21, <1>22 DEF UpTo, Within
<1> QED BY <1>8, <1>14, <1>16, <1>26, <1>27, <1>28 DEF Covers

Sampled(samples, percent) ==
  samples \in Seq(LifetimeSample) /\ samples # <<>> /\ percent \in 1..100

LEMMA SampledCovers ==
  ASSUME NEW samples, NEW percent, Sampled(samples, percent)
  PROVE  Covers(samples, percent, Percentile(samples, percent))
<1>1. samples \in Seq(LifetimeSample) /\ samples # <<>> BY DEF Sampled
<1>2. percent \in 1..100 BY DEF Sampled
<1> QED BY <1>1, <1>2, PercentileIs

\* What the pass leaves are samples.
LEMMA LifetimesAre ==
  ASSUME NEW trace \in Seq(TraceEvent)
  PROVE  Lifetimes(trace).samples \in Seq(LifetimeSample)
<1>1. PICK f : Living(trace, f) BY LivingIs
<1>2. PICK s \in LifetimeState : s = FoldLeft(LifetimeEvent, LifetimeStart, trace)
  <2>1. Len(trace) \in 0..Len(trace) OBVIOUS
  <2> QED BY <1>1, <2>1 DEF Living
<1>3. Buffer \in SUBSET Buffer OBVIOUS
<1>4. FinishAll(s, Buffer) \in LifetimeState BY <1>3, FinishAllIs
<1>5. Lifetimes(trace) = FinishAll(s, Buffer) BY <1>2 DEF Lifetimes
<1> QED BY <1>4, <1>5 DEF LifetimeState

===============================================================================
