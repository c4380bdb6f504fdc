----------------------- MODULE RetentionMemory_proofs -----------------------
(***************************************************************************)
(* For every number of lines, values, slots and cycles: the directory and   *)
(* the banks of RetentionMemory name each other, and the memory implements  *)
(* RetainedLines.  A command places a line, drops one, or changes none.     *)
(***************************************************************************)
EXTENDS RetentionMemory, Integers, FiniteSets, FiniteSetTheorems,
        WellFoundedInduction, TLAPS

\* A nonempty set of numbers has a least one; the smallest of the intervals
\* 1..n is the one with the least n.
LEMMA Least ==
  ASSUME NEW T, T \subseteq Nat, T # {}
  PROVE  \E n \in T : \A m \in T : n <= m
<1> DEFINE Intervals == {1..n : n \in T}
<1>1. Intervals \subseteq FiniteSubsetsOf(Nat) /\ Intervals # {}
  <2>1. ASSUME NEW n \in T PROVE 1..n \in FiniteSubsetsOf(Nat)
    <3>1. IsFiniteSet(1..n) BY FS_Interval, n \in Int
    <3> QED BY <3>1 DEF FiniteSubsetsOf
  <2> QED BY <2>1
<1>2. PICK x \in Intervals : \A y \in Intervals : <<y, x>> \notin StrictSubsetOrdering(Nat)
  BY <1>1, FS_StrictSubsetOrderingWellFounded, WFMin
<1>3. PICK n \in T : x = 1..n OBVIOUS
<1>4. ASSUME NEW m \in T, ~(n <= m) PROVE FALSE
  <2>1. 1..m \subseteq 1..n /\ 1..m # 1..n /\ 1..m \in Intervals
    <3>1. n \in Nat /\ m \in Nat /\ m < n BY <1>4
    <3>2. n \in 1..n /\ n \notin 1..m BY <3>1
    <3> QED BY <3>1, <3>2
  <2>2. <<1..m, 1..n>> \in StrictSubsetOrdering(Nat)
    BY <2>1 DEF StrictSubsetOrdering
  <2> QED BY <2>1, <2>2, <1>2, <1>3
<1> QED BY <1>4

\* The line's cell is in slot, the one it left is empty.
Placed(l, slot, cell) ==
  /\ slot \in Location /\ (slot = directory[l] \/ ~bank[slot].valid)
  /\ cell \in Slot /\ cell.valid /\ cell.line = l
  /\ bank' = [s \in Location |-> IF s = slot THEN cell
                                 ELSE IF s = directory[l] THEN Empty ELSE bank[s]]
  /\ directory' = [directory EXCEPT ![l] = slot]

\* Only dates of checks differ.
Rechecked ==
  /\ bank' \in [Location -> Slot]
  /\ \A s \in Location : /\ bank'[s].valid = bank[s].valid /\ bank'[s].line = bank[s].line
                         /\ bank'[s].value = bank[s].value
                         /\ bank'[s].lastWrite = bank[s].lastWrite
                         /\ bank'[s].lastCheck \in {bank[s].lastCheck, now}
  /\ directory' = directory

IInv == TypeOK /\ DirectoryExact

-----------------------------------------------------------------------------
\* A location is a pair of a class and a slot of its bank, and not Nowhere.
LEMMA Locations ==
  /\ \A slot \in Location : /\ slot = <<slot[1], slot[2]>> /\ slot[1] \in Class
                            /\ slot[2] \in 1..CapacityLines[slot[1]] /\ slot # Nowhere
  /\ \A c \in Class : \A s \in 1..CapacityLines[c] : <<c, s>> \in Location
BY DEF Location, Nowhere

\* FreeSlot gives a free slot of the class, and none only if there is none.
LEMMA FreeSlots ==
  ASSUME NEW c \in Class
  PROVE  /\ \A slot \in FreeSlot(c) : slot \in Location /\ slot[1] = c /\ ~bank[slot].valid
         /\ FreeSlot(c) = {} => \A slot \in Location : slot[1] = c => bank[slot].valid
<1>1. \A slot \in FreeSlot(c) : slot \in Location /\ slot[1] = c /\ ~bank[slot].valid
  BY DEF FreeSlot
<1>2. ASSUME FreeSlot(c) = {}, NEW slot \in Location, slot[1] = c, ~bank[slot].valid
      PROVE  FALSE
  <2> DEFINE Free == {s \in 1..CapacityLines[c] : ~bank[<<c, s>>].valid}
  <2>1. slot = <<c, slot[2]>> /\ slot[2] \in Free BY <1>2, Locations
  <2>2. Free \subseteq Nat /\ Free # {} BY <2>1
  <2>3. PICK n \in Free : \A m \in Free : n <= m BY <2>2, Least
  <2>4. <<c, n>> \in Location BY <2>3, Locations
  <2>5. ASSUME NEW other \in Location, other[1] = c, ~bank[other].valid PROVE n <= other[2]
    <3>1. other = <<c, other[2]>> /\ other[2] \in 1..CapacityLines[c] BY <2>5, Locations
    <3>2. other[2] \in Free BY <3>1, <2>5
    <3> QED BY <3>2, <2>3
  <2>6. ~bank[<<c, n>>].valid /\ <<c, n>>[1] = c /\ <<c, n>>[2] = n BY <2>3
  <2>7. <<c, n>> \in FreeSlot(c) BY <2>4, <2>5, <2>6 DEF FreeSlot
  <2> QED BY <2>7, <1>2
<1> QED BY <1>1, <1>2

-----------------------------------------------------------------------------
(* What each command does.                                                   *)

\* A cell that is written has the type of a slot.
LEMMA WrittenSlot ==
  ASSUME NEW l \in Line, NEW v \in Value \cup {0}, NEW t \in Nat
  PROVE  Written(l, v, t) \in Slot /\ Written(l, v, t).valid /\ Written(l, v, t).line = l
BY DEF Written, Slot

\* A line that is present is in a location, with a class.
LEMMA PresentLines ==
  ASSUME TypeOK, NEW l \in Line, Present(l)
  PROVE  /\ directory[l] \in Location /\ ClassOf(l) \in Class /\ Cell(l) \in Slot
         /\ Cell(l).value \in Value \cup {0}
<1>1. directory[l] \in Location BY DEF TypeOK, Present
<1>2. Cell(l) \in Slot BY <1>1 DEF TypeOK, Cell
<1>3. Cell(l).value \in Value \cup {0} BY <1>2 DEF Slot
<1> QED BY <1>1, <1>2, <1>3, Locations DEF ClassOf

\* A write places the line.
LEMMA WritePlaces ==
  ASSUME IInv, NEW l \in Line, NEW c \in Class, NEW v \in Value, Write(l, c, v)
  PROVE  /\ now' = now + WriteCycles[c] /\ now' \in Nat /\ result' = Answer("written", v)
         /\ \E slot \in Location : slot[1] = c /\ Placed(l, slot, Written(l, v, now'))
<1>1. PICK slot \in Target(l, c) :
        /\ Spends(WriteCycles[c])
        /\ bank' = [Vacated(l, c) EXCEPT ![slot] = Written(l, v, now')]
        /\ directory' = [directory EXCEPT ![l] = slot]
        /\ result' = Answer("written", v)
  BY DEF Write
<1>2. now' = now + WriteCycles[c] /\ now' \in Nat
  BY <1>1, BankAssumption DEF Spends, IInv, TypeOK
<1>3. slot \in Location /\ slot[1] = c /\ (slot = directory[l] \/ ~bank[slot].valid)
  BY <1>1, FreeSlots, PresentLines DEF Target, IInv, ClassOf
<1>4. Written(l, v, now') \in Slot /\ Written(l, v, now').valid /\ Written(l, v, now').line = l
  BY <1>2, WrittenSlot
<1>5. bank' = [s \in Location |-> IF s = slot THEN Written(l, v, now')
                                  ELSE IF s = directory[l] THEN Empty ELSE bank[s]]
  <2>1. bank \in [Location -> Slot] BY DEF IInv, TypeOK
  <2>2. CASE Present(l) /\ ClassOf(l) # c
    BY <1>1, <2>1, <2>2, PresentLines DEF Vacated, IInv
  <2>3. CASE Present(l) /\ ClassOf(l) = c
    <3>1. slot = directory[l] BY <1>1, <2>3 DEF Target
    <3> QED BY <1>1, <2>1, <2>3, <3>1 DEF Vacated
  <2>4. CASE ~Present(l)
    BY <1>1, <2>1, <2>4, Locations DEF Vacated, Present
  <2> QED BY <2>2, <2>3, <2>4
<1> QED BY <1>1, <1>2, <1>3, <1>4, <1>5 DEF Placed

\* A refresh places the line where it is.
LEMMA RefreshPlaces ==
  ASSUME IInv, NEW l \in Line, Refresh(l)
  PROVE  /\ now' = now + ReadCycles[ClassOf(l)] + WriteCycles[ClassOf(l)] /\ now' \in Nat
         /\ result' = Answer("renewed", Cell(l).value) /\ Present(l)
         /\ Placed(l, directory[l], Written(l, Cell(l).value, now'))
<1>1. Present(l) /\ directory[l] \in Location /\ ClassOf(l) \in Class
        /\ Cell(l).value \in Value \cup {0}
  BY PresentLines DEF Refresh, Surviving, IInv
<1>2. ReadCycles[ClassOf(l)] \in Nat /\ WriteCycles[ClassOf(l)] \in Nat /\ now \in Nat
  BY <1>1, BankAssumption DEF IInv, TypeOK
<1>3. now' = now + ReadCycles[ClassOf(l)] + WriteCycles[ClassOf(l)] /\ now' \in Nat
  BY <1>2 DEF Refresh, Spends
<1>4. /\ Written(l, Cell(l).value, now') \in Slot
      /\ Written(l, Cell(l).value, now').valid /\ Written(l, Cell(l).value, now').line = l
  BY <1>1, <1>3, WrittenSlot
<1>5. bank' = [s \in Location |-> IF s = directory[l] THEN Written(l, Cell(l).value, now')
                                  ELSE IF s = directory[l] THEN Empty ELSE bank[s]]
  BY <1>1 DEF Refresh, IInv, TypeOK
<1>6. directory' = [directory EXCEPT ![l] = directory[l]]
  BY DEF Refresh, IInv, TypeOK
<1> QED BY <1>1, <1>3, <1>4, <1>5, <1>6 DEF Placed, Refresh

\* A migration places the line in the other class.
LEMMA MigratePlaces ==
  ASSUME IInv, NEW l \in Line, NEW c \in Class, Migrate(l, c)
  PROVE  /\ now' = now + ReadCycles[ClassOf(l)] + WriteCycles[c] /\ now' \in Nat
         /\ result' = Answer("renewed", Cell(l).value) /\ Present(l)
         /\ \E slot \in Location : slot[1] = c /\ Placed(l, slot, Written(l, Cell(l).value, now'))
<1>1. Present(l) /\ directory[l] \in Location /\ ClassOf(l) \in Class
        /\ Cell(l).value \in Value \cup {0}
  BY PresentLines DEF Migrate, Surviving, IInv
<1>2. PICK slot \in FreeSlot(c) :
        /\ Spends(ReadCycles[ClassOf(l)] + WriteCycles[c])
        /\ bank' = [bank EXCEPT ![slot] = Written(l, Cell(l).value, now'),
                                ![directory[l]] = Empty]
        /\ directory' = [directory EXCEPT ![l] = slot]
  BY DEF Migrate
<1>3. ReadCycles[ClassOf(l)] \in Nat /\ WriteCycles[c] \in Nat /\ now \in Nat
  BY <1>1, BankAssumption DEF IInv, TypeOK
<1>4. now' = now + ReadCycles[ClassOf(l)] + WriteCycles[c] /\ now' \in Nat
  BY <1>2, <1>3 DEF Spends
<1>5. slot \in Location /\ slot[1] = c /\ ~bank[slot].valid BY <1>2, FreeSlots
<1>6. slot # directory[l] BY <1>5 DEF Migrate, ClassOf
<1>7. /\ Written(l, Cell(l).value, now') \in Slot
      /\ Written(l, Cell(l).value, now').valid /\ Written(l, Cell(l).value, now').line = l
  BY <1>1, <1>4, WrittenSlot
<1>8. bank' = [s \in Location |-> IF s = slot THEN Written(l, Cell(l).value, now')
                                  ELSE IF s = directory[l] THEN Empty ELSE bank[s]]
  BY <1>1, <1>2, <1>5, <1>6 DEF IInv, TypeOK
<1> QED BY <1>1, <1>2, <1>4, <1>5, <1>7, <1>8 DEF Placed, Migrate

\* A check that passes changes nothing but dates.
LEMMA CheckRechecks ==
  ASSUME IInv, NEW l \in Line, Present(l), bank' = Checked(l), UNCHANGED directory
  PROVE  Rechecked
<1>1. directory[l] \in Location /\ now \in Nat /\ bank \in [Location -> Slot]
  BY PresentLines DEF IInv, TypeOK
<1>2. CASE bank' = bank BY <1>1, <1>2 DEF Rechecked
<1>3. CASE bank' = [bank EXCEPT ![directory[l]].lastCheck = now]
  <2>1. bank' = [bank EXCEPT ![directory[l]] = [@ EXCEPT !.lastCheck = now]] BY <1>3
  <2>2. [bank[directory[l]] EXCEPT !.lastCheck = now] \in Slot BY <1>1 DEF Slot
  <2>3. bank' \in [Location -> Slot] BY <1>1, <2>1, <2>2
  <2>4. \A s \in Location : bank'[s] = IF s = directory[l] THEN [bank[s] EXCEPT !.lastCheck = now]
                                       ELSE bank[s]
    BY <1>1, <2>1
  <2>5. \A s \in Location : bank[s] \in Slot BY <1>1
  <2> QED BY <2>3, <2>4, <2>5 DEF Rechecked, Slot
<1> QED BY <1>2, <1>3 DEF Checked

-----------------------------------------------------------------------------
(* The invariant.                                                            *)

\* Placing a line keeps the directory and the banks naming each other.
LEMMA PlacedExact ==
  ASSUME IInv, NEW l \in Line, NEW slot, NEW cell, Placed(l, slot, cell)
  PROVE  /\ DirectoryExact'
         /\ bank' \in [Location -> Slot] /\ directory' \in [Line -> Location \cup {Nowhere}]
         /\ \A k \in Line : directory'[k] = IF k = l THEN slot ELSE directory[k]
         /\ bank'[slot] = cell
         /\ \A k \in Line \ {l} : Present(k) => bank'[directory[k]] = bank[directory[k]]
<1>1. /\ bank \in [Location -> Slot] /\ directory \in [Line -> Location \cup {Nowhere}]
      /\ slot \in Location /\ cell \in Slot /\ cell.valid /\ cell.line = l
      /\ (slot = directory[l] \/ ~bank[slot].valid)
  BY DEF IInv, TypeOK, Placed
<1>2. Empty \in Slot /\ ~Empty.valid BY DEF Empty, Slot
<1>3. bank' = [s \in Location |-> IF s = slot THEN cell
                                  ELSE IF s = directory[l] THEN Empty ELSE bank[s]]
  BY DEF Placed
<1>4. bank' \in [Location -> Slot] BY <1>1, <1>2, <1>3
<1>5. \A k \in Line : directory'[k] = IF k = l THEN slot ELSE directory[k]
  BY <1>1 DEF Placed
<1>6. directory' \in [Line -> Location \cup {Nowhere}] BY <1>1 DEF Placed
<1>7. bank'[slot] = cell BY <1>1, <1>3
<1>8. ASSUME NEW k \in Line, k # l, Present(k)
      PROVE  /\ directory[k] \in Location /\ directory[k] # slot
             /\ bank'[directory[k]] = bank[directory[k]]
  <2>1. directory[k] \in Location BY <1>8, PresentLines DEF IInv
  <2>2. bank[directory[k]].valid /\ bank[directory[k]].line = k
    BY <1>8 DEF IInv, DirectoryExact, Cell
  <2>3. directory[k] # directory[l]
    <3>1. CASE Present(l)
      <4>1. bank[directory[l]].line = l BY <3>1 DEF IInv, DirectoryExact, Cell
      <4> QED BY <4>1, <2>2, <1>8
    <3>2. CASE ~Present(l) BY <3>2, <1>8 DEF Present
    <3> QED BY <3>1, <3>2
  <2>4. directory[k] # slot BY <1>1, <2>2, <2>3
  <2> QED BY <2>1, <2>3, <2>4, <1>3
<1>9. ASSUME NEW k \in Line, Present(k)' PROVE Cell(k)'.valid /\ Cell(k)'.line = k
  <2>1. CASE k = l BY <2>1, <1>1, <1>5, <1>7 DEF Cell
  <2>2. CASE k # l
    <3>1. Present(k) /\ directory'[k] = directory[k] BY <2>2, <1>5, <1>9 DEF Present
    <3>2. Cell(k).valid /\ Cell(k).line = k BY <3>1 DEF IInv, DirectoryExact
    <3> QED BY <3>1, <3>2, <2>2, <1>8 DEF Cell
  <2> QED BY <2>1, <2>2
<1>10. ASSUME NEW s \in Location, bank'[s].valid
       PROVE  bank'[s].line \in Line /\ directory'[bank'[s].line] = s
  <2>1. CASE s = slot BY <2>1, <1>1, <1>5, <1>7
  <2>2. CASE s # slot
    <3>1. s # directory[l] /\ bank'[s] = bank[s] BY <2>2, <1>2, <1>3, <1>10
    <3>2. bank[s].line \in Line /\ directory[bank[s].line] = s
      BY <3>1, <1>10 DEF IInv, DirectoryExact
    <3>3. bank[s].line # l BY <3>1, <3>2
    <3> QED BY <3>1, <3>2, <3>3, <1>5
  <2> QED BY <2>1, <2>2
<1>11. DirectoryExact' BY <1>9, <1>10 DEF DirectoryExact
<1> QED BY <1>4, <1>5, <1>6, <1>7, <1>8, <1>11

\* So does dropping one.
LEMMA ReleasedExact ==
  ASSUME IInv, NEW l \in Line, Present(l), Released(l)
  PROVE  /\ DirectoryExact' /\ now' = now
         /\ bank' \in [Location -> Slot] /\ directory' \in [Line -> Location \cup {Nowhere}]
         /\ \A k \in Line : directory'[k] = IF k = l THEN Nowhere ELSE directory[k]
         /\ \A k \in Line \ {l} : Present(k) => bank'[directory[k]] = bank[directory[k]]
         /\ \A s \in Location : bank'[s] \in {bank[s], Empty}
<1>1. /\ bank \in [Location -> Slot] /\ directory \in [Line -> Location \cup {Nowhere}]
      /\ directory[l] \in Location
  BY PresentLines DEF IInv, TypeOK
<1>2. Empty \in Slot /\ ~Empty.valid BY DEF Empty, Slot
<1>3. bank' = [s \in Location |-> IF s = directory[l] THEN Empty ELSE bank[s]]
  BY <1>1 DEF Released
<1>4. bank' \in [Location -> Slot] BY <1>1, <1>2, <1>3
<1>5. \A k \in Line : directory'[k] = IF k = l THEN Nowhere ELSE directory[k]
  BY <1>1 DEF Released
<1>6. directory' \in [Line -> Location \cup {Nowhere}] BY <1>1 DEF Released
<1>7. ASSUME NEW k \in Line, k # l, Present(k)
      PROVE  bank'[directory[k]] = bank[directory[k]]
  <2>1. directory[k] \in Location BY <1>7, PresentLines DEF IInv
  <2>2. bank[directory[k]].line = k /\ bank[directory[l]].line = l
    BY <1>7 DEF IInv, DirectoryExact, Cell
  <2> QED BY <2>1, <2>2, <1>3, <1>7
<1>8. ASSUME NEW k \in Line, Present(k)' PROVE Cell(k)'.valid /\ Cell(k)'.line = k
  <2>1. k # l /\ Present(k) /\ directory'[k] = directory[k] BY <1>5, <1>8 DEF Present
  <2>2. Cell(k).valid /\ Cell(k).line = k BY <2>1 DEF IInv, DirectoryExact
  <2> QED BY <2>1, <2>2, <1>7 DEF Cell
<1>9. ASSUME NEW s \in Location, bank'[s].valid
      PROVE  bank'[s].line \in Line /\ directory'[bank'[s].line] = s
  <2>1. s # directory[l] /\ bank'[s] = bank[s] BY <1>2, <1>3, <1>9
  <2>2. bank[s].line \in Line /\ directory[bank[s].line] = s
    BY <2>1, <1>9 DEF IInv, DirectoryExact
  <2> QED BY <2>1, <2>2, <1>5
<1>10. DirectoryExact' BY <1>8, <1>9 DEF DirectoryExact
<1> QED BY <1>3, <1>4, <1>5, <1>6, <1>7, <1>10 DEF Released

\* Placing a cell dated now keeps the types.
LEMMA PlacedTyped ==
  ASSUME IInv, NEW l \in Line, NEW slot, NEW cell, Placed(l, slot, cell),
         now' \in Nat, now <= now', cell.lastWrite = now', cell.lastCheck = now',
         error_mode' = error_mode,
         result' \in [message : Messages, value : Value \cup {0}]
  PROVE  IInv'
<1>1. /\ DirectoryExact'
      /\ bank' \in [Location -> Slot] /\ directory' \in [Line -> Location \cup {Nowhere}]
  BY PlacedExact
<1>2. ASSUME NEW s \in Location PROVE bank'[s].lastWrite <= now' /\ bank'[s].lastCheck <= now'
  <2>1. bank'[s] = IF s = slot THEN cell ELSE IF s = directory[l] THEN Empty ELSE bank[s]
    BY DEF Placed
  <2>2. /\ bank[s] \in Slot /\ bank[s].lastWrite <= now /\ bank[s].lastCheck <= now /\ now \in Nat
    BY DEF IInv, TypeOK
  <2>3. bank[s].lastWrite \in Nat /\ bank[s].lastCheck \in Nat BY <2>2 DEF Slot
  <2> QED BY <2>1, <2>2, <2>3 DEF Empty
<1> QED BY <1>1, <1>2 DEF IInv, TypeOK

\* A recheck keeps the invariant.
LEMMA RecheckedKeeps ==
  ASSUME IInv, Rechecked, now' \in Nat, now <= now',
         error_mode' = error_mode,
         result' \in [message : Messages, value : Value \cup {0}]
  PROVE  IInv'
<1>1. directory' = directory /\ bank' \in [Location -> Slot] /\ directory \in [Line -> Location \cup {Nowhere}]
  BY DEF Rechecked, IInv, TypeOK
<1>2. ASSUME NEW s \in Location
      PROVE  /\ bank'[s].lastWrite <= now' /\ bank'[s].lastCheck <= now'
             /\ bank'[s].valid = bank[s].valid /\ bank'[s].line = bank[s].line
  <2>1. /\ bank[s] \in Slot /\ bank[s].lastWrite <= now /\ bank[s].lastCheck <= now /\ now \in Nat
    BY DEF IInv, TypeOK
  <2>2. bank[s].lastWrite \in Nat /\ bank[s].lastCheck \in Nat BY <2>1 DEF Slot
  <2> QED BY <2>1, <2>2 DEF Rechecked
<1>3. ASSUME NEW l \in Line, Present(l)' PROVE Cell(l)'.valid /\ Cell(l)'.line = l
  <2>1. Present(l) /\ directory[l] \in Location
    BY <1>1, <1>3, PresentLines DEF Present, IInv
  <2> QED BY <2>1, <1>1, <1>2 DEF IInv, DirectoryExact, Cell
<1>4. ASSUME NEW s \in Location, bank'[s].valid
      PROVE  bank'[s].line \in Line /\ directory'[bank'[s].line] = s
  BY <1>1, <1>2, <1>4 DEF IInv, DirectoryExact
<1> QED BY <1>1, <1>2, <1>3, <1>4 DEF IInv, TypeOK, DirectoryExact

\* An answer has the type of results.
LEMMA Answers ==
  ASSUME NEW m \in Messages, NEW v \in Value \cup {0}
  PROVE  Answer(m, v) \in [message : Messages, value : Value \cup {0}]
BY DEF Answer

\* An empty memory satisfies the invariant.
LEMMA InitIInv == Init => IInv
<1> SUFFICES ASSUME Init PROVE IInv OBVIOUS
<1>1. Empty \in Slot /\ Empty.lastWrite <= 0 /\ Empty.lastCheck <= 0 /\ ~Empty.valid
  BY DEF Empty, Slot
<1>2. Answer("none", 0) \in [message : Messages, value : Value \cup {0}]
  BY DEF Answer, Messages
<1>3. TypeOK BY <1>1, <1>2 DEF Init, TypeOK
<1>4. DirectoryExact BY <1>1 DEF Init, DirectoryExact, Present
<1> QED BY <1>3, <1>4 DEF IInv

\* The dates of a cell that is written.
LEMMA WrittenDates ==
  ASSUME NEW l, NEW v, NEW t
  PROVE  /\ Written(l, v, t).lastWrite = t /\ Written(l, v, t).lastCheck = t
         /\ Written(l, v, t).value = v
BY DEF Written

\* Every step keeps the invariant.
LEMMA StepIInv == IInv /\ [Next]_vars => IInv'
<1> SUFFICES ASSUME IInv, [Next]_vars PROVE IInv' OBVIOUS
<1>0. now \in Nat BY DEF IInv, TypeOK
<1>u. error_mode' = error_mode BY DEF Next, vars
<1>1. ASSUME NEW l \in Line, NEW c \in Class, NEW v \in Value, Write(l, c, v) PROVE IInv'
  <2>1. now' = now + WriteCycles[c] /\ now' \in Nat /\ WriteCycles[c] \in Nat
    BY <1>1, WritePlaces, BankAssumption
  <2>2. PICK slot \in Location : Placed(l, slot, Written(l, v, now')) BY <1>1, WritePlaces
  <2>3. result' \in [message : Messages, value : Value \cup {0}]
    BY <1>1, WritePlaces, Answers DEF Messages
  <2>4. now <= now' BY <1>0, <2>1
  <2> QED BY <2>1, <2>2, <2>3, <2>4, <1>u, WrittenDates, PlacedTyped
<1>2. ASSUME NEW l \in Line, NEW c \in Class, Migrate(l, c) PROVE IInv'
  <2>1. /\ now' = now + ReadCycles[ClassOf(l)] + WriteCycles[c] /\ now' \in Nat
        /\ result' = Answer("renewed", Cell(l).value) /\ Present(l)
    BY <1>2, MigratePlaces
  <2>2. PICK slot \in Location : Placed(l, slot, Written(l, Cell(l).value, now'))
    BY <1>2, MigratePlaces
  <2>3. ClassOf(l) \in Class /\ Cell(l).value \in Value \cup {0} BY <2>1, PresentLines DEF IInv
  <2>4. ReadCycles[ClassOf(l)] \in Nat /\ WriteCycles[c] \in Nat BY <2>3, BankAssumption
  <2>5. result' \in [message : Messages, value : Value \cup {0}]
    BY <2>1, <2>3, Answers DEF Messages
  <2>6. now <= now' BY <1>0, <2>1, <2>4
  <2> QED BY <2>1, <2>2, <2>5, <2>6, <1>u, WrittenDates, PlacedTyped
<1>3. ASSUME NEW l \in Line, Refresh(l) PROVE IInv'
  <2>1. /\ now' = now + ReadCycles[ClassOf(l)] + WriteCycles[ClassOf(l)] /\ now' \in Nat
        /\ result' = Answer("renewed", Cell(l).value) /\ Present(l)
        /\ Placed(l, directory[l], Written(l, Cell(l).value, now'))
    BY <1>3, RefreshPlaces
  <2>2. ClassOf(l) \in Class /\ Cell(l).value \in Value \cup {0} BY <2>1, PresentLines DEF IInv
  <2>3. ReadCycles[ClassOf(l)] \in Nat /\ WriteCycles[ClassOf(l)] \in Nat BY <2>2, BankAssumption
  <2>4. result' \in [message : Messages, value : Value \cup {0}]
    BY <2>1, <2>2, Answers DEF Messages
  <2>5. now <= now' BY <1>0, <2>1, <2>3
  <2> QED BY <2>1, <2>4, <2>5, <1>u, WrittenDates, PlacedTyped
<1>4. ASSUME NEW l \in Line, Read(l) PROVE IInv'
  <2>1. Present(l) /\ Rechecked BY <1>4, CheckRechecks DEF Read, Surviving
  <2>2. ClassOf(l) \in Class /\ Cell(l).value \in Value \cup {0} BY <2>1, PresentLines DEF IInv
  <2>3. now' \in Nat /\ now <= now' BY <1>0, <1>4, <2>2, BankAssumption DEF Read, Spends
  <2>4. result' \in [message : Messages, value : Value \cup {0}]
    BY <1>4, <2>2, Answers DEF Read, Messages
  <2> QED BY <2>1, <2>3, <2>4, <1>u, RecheckedKeeps
<1>5. ASSUME NEW l \in Line, NEW c \in Class, MigrateRefused(l, c) PROVE IInv'
  <2>1. Rechecked BY <1>5, CheckRechecks DEF MigrateRefused, Surviving
  <2>2. result' \in [message : Messages, value : Value \cup {0}]
    BY <1>5, Answers DEF MigrateRefused, Messages
  <2>3. now' \in Nat /\ now <= now' BY <1>0, <1>5 DEF MigrateRefused
  <2> QED BY <2>1, <2>2, <2>3, <1>u, RecheckedKeeps
<1>6. ASSUME NEW l \in Line, Expire(l) \/ Invalidate(l) PROVE IInv'
  <2>1. Present(l) /\ Released(l) BY <1>6 DEF Expire, Invalidate, Failing
  <2>2. /\ DirectoryExact' /\ now' = now
        /\ bank' \in [Location -> Slot] /\ directory' \in [Line -> Location \cup {Nowhere}]
        /\ \A s \in Location : bank'[s] \in {bank[s], Empty}
    BY <2>1, ReleasedExact
  <2>3. \A s \in Location : bank'[s].lastWrite <= now' /\ bank'[s].lastCheck <= now'
    <3>1. Empty.lastWrite <= now /\ Empty.lastCheck <= now BY <1>0 DEF Empty
    <3> QED BY <2>2, <3>1 DEF IInv, TypeOK
  <2>4. result' \in [message : Messages, value : Value \cup {0}]
    BY <1>6, Answers DEF Expire, Invalidate, Messages
  <2> QED BY <1>0, <1>u, <2>2, <2>3, <2>4 DEF IInv, TypeOK
<1>7. CASE UNCHANGED <<bank, directory>> /\ now' \in Nat /\ now <= now'
             /\ result' \in [message : Messages, value : Value \cup {0}]
  <2>1. Rechecked BY <1>7 DEF Rechecked, IInv, TypeOK
  <2> QED BY <2>1, <1>7, <1>u, RecheckedKeeps
<1>8. ASSUME NEW l \in Line, NEW c \in Class, WriteRefused(l, c) PROVE IInv'
  <2>1. result' \in [message : Messages, value : Value \cup {0}]
    BY <1>8, Answers DEF WriteRefused, Messages
  <2> QED BY <1>0, <1>7, <1>8, <2>1 DEF WriteRefused
<1>9. ASSUME NEW l \in Line, Miss(l) PROVE IInv'
  <2>1. result' \in [message : Messages, value : Value \cup {0}]
    BY <1>9, Answers DEF Miss, Messages
  <2> QED BY <1>0, <1>7, <1>9, <2>1 DEF Miss
<1>10. ASSUME NEW n \in Strides, Advance(n) PROVE IInv'
  BY <1>0, <1>7, <1>10, BankAssumption DEF Advance, Spends, IInv, TypeOK
<1>11. CASE UNCHANGED vars BY <1>0, <1>7, <1>11 DEF vars, IInv, TypeOK
<1> QED BY <1>1, <1>2, <1>3, <1>4, <1>5, <1>6, <1>8, <1>9, <1>10, <1>11 DEF Next, Command

\* The invariant holds always.
LEMMA Invariance == Spec => []IInv
BY InitIInv, StepIInv, PTL DEF Spec

\* Every variable keeps its type, and no slot is dated in the future.
THEOREM TypeCorrect == Spec => []TypeOK
<1>1. IInv => TypeOK BY DEF IInv
<1> QED BY <1>1, Invariance, PTL

\* After any series of commands the directory and the banks name each other: no
\* slot is lost or shared.
THEOREM DirectoryCorrect == Spec => []DirectoryExact
<1>1. IInv => DirectoryExact BY DEF IInv
<1> QED BY <1>1, Invariance, PTL

-----------------------------------------------------------------------------
(* Refinement.                                                               *)

\* A placed line has the cell's value in the slot's class, the others stay.
LEMMA PlacedContents ==
  ASSUME IInv, NEW l \in Line, NEW slot, NEW cell, Placed(l, slot, cell)
  PROVE  Contents' = [Contents EXCEPT ![l] =
           [value |-> cell.value, class |-> slot[1], since |-> cell.lastWrite, held |-> TRUE]]
<1>1. /\ \A k \in Line : directory'[k] = IF k = l THEN slot ELSE directory[k]
      /\ bank'[slot] = cell
      /\ \A k \in Line \ {l} : Present(k) => bank'[directory[k]] = bank[directory[k]]
  BY PlacedExact
<1>2. slot # Nowhere BY Locations DEF Placed
<1>3. Contents'[l] = [value |-> cell.value, class |-> slot[1], since |-> cell.lastWrite, held |-> TRUE]
  BY <1>1, <1>2 DEF Contents, Present, Cell, ClassOf
<1>4. \A k \in Line \ {l} : Contents'[k] = Contents[k]
  BY <1>1 DEF Contents, Present, Cell, ClassOf
<1>5. DOMAIN Contents' = Line BY DEF Contents
<1>6. Contents' = [k \in Line |-> Contents'[k]] BY DEF Contents
<1>7. Contents = [k \in Line |-> Contents[k]] BY DEF Contents
<1> QED BY <1>3, <1>4, <1>6, <1>7

\* A dropped line is lost, the others stay.
LEMMA ReleasedContents ==
  ASSUME IInv, NEW l \in Line, Present(l), Released(l)
  PROVE  Contents' = [Contents EXCEPT ![l] = Promise!Lost]
<1>1. /\ \A k \in Line : directory'[k] = IF k = l THEN Nowhere ELSE directory[k]
      /\ \A k \in Line \ {l} : Present(k) => bank'[directory[k]] = bank[directory[k]]
  BY ReleasedExact
<1>2. Contents'[l] = Promise!Lost BY <1>1 DEF Contents, Present, Promise!Lost
<1>3. \A k \in Line \ {l} : Contents'[k] = Contents[k]
  BY <1>1 DEF Contents, Present, Cell, ClassOf
<1>4. Contents' = [k \in Line |-> Contents'[k]] BY DEF Contents
<1>5. Contents = [k \in Line |-> Contents[k]] BY DEF Contents
<1> QED BY <1>2, <1>3, <1>4, <1>5

\* A recheck changes no contents.
LEMMA RecheckedContents ==
  ASSUME IInv, Rechecked
  PROVE  Contents' = Contents
<1>1. ASSUME NEW k \in Line PROVE Contents'[k] = Contents[k]
  <2>1. CASE Present(k)
    <3>1. directory[k] \in Location BY <2>1, PresentLines DEF IInv
    <3> QED BY <2>1, <3>1 DEF Rechecked, Contents, Present, Cell, ClassOf
  <2>2. CASE ~Present(k) BY <2>2 DEF Rechecked, Contents, Present
  <2> QED BY <2>1, <2>2
<1>2. Contents' = [k \in Line |-> Contents'[k]] BY DEF Contents
<1>3. Contents = [k \in Line |-> Contents[k]] BY DEF Contents
<1> QED BY <1>1, <1>2, <1>3

\* A bank without a free slot holds as many lines as it has slots: each slot
\* holds a line of its own.
LEMMA NoSlotFull ==
  ASSUME IInv, NEW c \in Class, FreeSlot(c) = {}
  PROVE  Promise!Full(c)
<1> DEFINE f == [s \in 1..CapacityLines[c] |-> bank[<<c, s>>].line]
<1>1. ASSUME NEW s \in 1..CapacityLines[c]
      PROVE  /\ bank[<<c, s>>].line \in Line
             /\ directory[bank[<<c, s>>].line] = <<c, s>>
             /\ f[s] \in Promise!LinesIn(c)
  <2>1. <<c, s>> \in Location /\ <<c, s>>[1] = c BY Locations
  <2>2. bank[<<c, s>>].valid BY <2>1, FreeSlots
  <2>3. bank[<<c, s>>].line \in Line /\ directory[bank[<<c, s>>].line] = <<c, s>>
    BY <2>1, <2>2 DEF IInv, DirectoryExact
  <2>4. <<c, s>> # Nowhere BY <2>1, Locations
  <2>5. bank[<<c, s>>].line \in Promise!LinesIn(c)
    BY <2>1, <2>3, <2>4 DEF Contents, Present, ClassOf, Promise!LinesIn
  <2> QED BY <2>3, <2>5
<1>2. f \in [1..CapacityLines[c] -> Promise!LinesIn(c)] BY <1>1
<1>3. ASSUME NEW s \in 1..CapacityLines[c], NEW t \in 1..CapacityLines[c], f[s] = f[t]
      PROVE  s = t
  <2>1. <<c, s>> = <<c, t>> BY <1>1, <1>3
  <2> QED BY <2>1
<1> QED BY <1>2, <1>3 DEF Promise!Full

\* A line that is present has the age and class its cell has.
LEMMA PresentContents ==
  ASSUME NEW l \in Line, Present(l)
  PROVE  /\ Contents[l].held /\ Contents[l].value = Cell(l).value
         /\ Contents[l].class = ClassOf(l) /\ Contents[l].since = Cell(l).lastWrite
BY DEF Contents

\* A line that survives its check is readable.
LEMMA SurvivingReadable ==
  ASSUME NEW l \in Line, Surviving(l)
  PROVE  Promise!Readable(l)
BY PresentContents DEF Surviving, Failing, Finite, Promise!Readable, Promise!Decayed, Promise!Decays

\* Every step of the memory is a step of the lines, or changes none of their
\* variables.
LEMMA StepPromise == IInv /\ [Next]_vars => [Promise!Next]_<<now, Contents, result, error_mode = "Deterministic">>
<1> SUFFICES ASSUME IInv, [Next]_vars PROVE [Promise!Next]_<<now, Contents, result, error_mode = "Deterministic">> OBVIOUS
<1>1. ASSUME NEW l \in Line, NEW c \in Class, NEW v \in Value, Write(l, c, v)
      PROVE  Promise!Command
  <2>1. PICK slot \in Location : slot[1] = c /\ Placed(l, slot, Written(l, v, now'))
    BY <1>1, WritePlaces
  <2>2. Contents' = [Contents EXCEPT ![l] =
           [value |-> v, class |-> c, since |-> now', held |-> TRUE]]
    BY <2>1, PlacedContents, WrittenDates
  <2>3. now' = now + WriteCycles[c] /\ result' = Answer("written", v) BY <1>1, WritePlaces
  <2>4. Promise!Write(l, c, v)
    BY <2>2, <2>3 DEF Promise!Write, Promise!Held, Promise!Reply, Answer
  <2> QED BY <2>4 DEF Promise!Command
<1>2. ASSUME NEW l \in Line, NEW c \in Class, Migrate(l, c) PROVE Promise!Command
  <2>1. PICK slot \in Location : slot[1] = c /\ Placed(l, slot, Written(l, Cell(l).value, now'))
    BY <1>2, MigratePlaces
  <2>2. /\ now' = now + ReadCycles[ClassOf(l)] + WriteCycles[c]
        /\ result' = Answer("renewed", Cell(l).value) /\ Present(l)
    BY <1>2, MigratePlaces
  <2>3. Contents' = [Contents EXCEPT ![l] =
           [value |-> Cell(l).value, class |-> c, since |-> now', held |-> TRUE]]
    BY <2>1, PlacedContents, WrittenDates
  <2>4. Promise!Readable(l) BY <1>2, SurvivingReadable DEF Migrate
  <2>5. Promise!Renew(l, c)
    BY <2>2, <2>3, <2>4, PresentContents DEF Promise!Renew, Promise!Held, Promise!Reply, Answer
  <2> QED BY <2>5 DEF Promise!Command
<1>3. ASSUME NEW l \in Line, Refresh(l) PROVE Promise!Command
  <2>1. /\ now' = now + ReadCycles[ClassOf(l)] + WriteCycles[ClassOf(l)]
        /\ result' = Answer("renewed", Cell(l).value) /\ Present(l)
        /\ Placed(l, directory[l], Written(l, Cell(l).value, now'))
    BY <1>3, RefreshPlaces
  <2>2. Contents' = [Contents EXCEPT ![l] =
           [value |-> Cell(l).value, class |-> ClassOf(l), since |-> now', held |-> TRUE]]
    BY <2>1, PlacedContents, WrittenDates DEF ClassOf
  <2>3. Promise!Readable(l) BY <1>3, SurvivingReadable DEF Refresh
  <2>4. ClassOf(l) \in Class BY <2>1, PresentLines DEF IInv
  <2>5. Promise!Renew(l, ClassOf(l))
    BY <2>1, <2>2, <2>3, PresentContents DEF Promise!Renew, Promise!Held, Promise!Reply, Answer
  <2> QED BY <2>4, <2>5 DEF Promise!Command
<1>4. ASSUME NEW l \in Line, Read(l) PROVE Promise!Command
  <2>1. Present(l) /\ Rechecked BY <1>4, CheckRechecks DEF Read, Surviving
  <2>2. Contents' = Contents BY <2>1, RecheckedContents
  <2>3. Promise!Readable(l) BY <1>4, SurvivingReadable DEF Read
  <2>4. Promise!Read(l)
    BY <1>4, <2>1, <2>2, <2>3, PresentContents DEF Read, Spends, Promise!Read, Promise!Reply, Answer
  <2> QED BY <2>4 DEF Promise!Command
<1>5. ASSUME NEW l \in Line, NEW c \in Class, MigrateRefused(l, c) PROVE Promise!Command
  <2>1. Contents' = Contents
    BY <1>5, CheckRechecks, RecheckedContents DEF MigrateRefused, Surviving
  <2>2. Promise!Full(c) BY <1>5, NoSlotFull DEF MigrateRefused
  <2>3. Promise!Refuse(c)
    BY <1>5, <2>1, <2>2 DEF MigrateRefused, Promise!Refuse, Promise!Reply, Answer
  <2> QED BY <2>3 DEF Promise!Command
<1>6. ASSUME NEW l \in Line, NEW c \in Class, WriteRefused(l, c) PROVE Promise!Command
  <2>1. FreeSlot(c) = {} BY <1>6 DEF WriteRefused, Target
  <2>2. Promise!Full(c) BY <2>1, NoSlotFull
  <2>3. Contents' = Contents BY <1>6 DEF WriteRefused, Contents, Present, Cell, ClassOf
  <2>4. Promise!Refuse(c)
    BY <1>6, <2>2, <2>3 DEF WriteRefused, Promise!Refuse, Promise!Reply, Answer
  <2> QED BY <2>4 DEF Promise!Command
<1>7. ASSUME NEW l \in Line, Expire(l) PROVE Promise!Command
  <2>1. Present(l) /\ Released(l) BY <1>7 DEF Expire, Failing
  <2>2. Contents' = [Contents EXCEPT ![l] = Promise!Lost] BY <2>1, ReleasedContents
  <2>3. Promise!Expire(l)
    BY <1>7, <2>1, <2>2, PresentContents
    DEF Expire, Failing, Finite, Released, Promise!Expire, Promise!Decays, Promise!Decayed,
        Promise!Reply, Answer
  <2> QED BY <2>3 DEF Promise!Command
<1>8. ASSUME NEW l \in Line, Invalidate(l) PROVE Promise!Command
  <2>1. Present(l) /\ Released(l) BY <1>8 DEF Invalidate
  <2>2. Contents' = [Contents EXCEPT ![l] = Promise!Lost] BY <2>1, ReleasedContents
  <2>3. Promise!Invalidate(l)
    BY <1>8, <2>1, <2>2, PresentContents
    DEF Invalidate, Released, Promise!Invalidate, Promise!Reply, Answer
  <2> QED BY <2>3 DEF Promise!Command
<1>9. ASSUME NEW l \in Line, Miss(l) PROVE Promise!Command
  <2>1. Contents' = Contents BY <1>9 DEF Miss, Contents, Present, Cell, ClassOf
  <2>2. ~Contents[l].held BY <1>9 DEF Miss, Contents
  <2>3. Promise!Miss(l) BY <1>9, <2>1, <2>2 DEF Miss, Promise!Miss, Promise!Reply, Answer
  <2> QED BY <2>3 DEF Promise!Command
<1>10. ASSUME NEW n \in Strides, Advance(n) PROVE Promise!Command
  <2>1. Contents' = Contents BY <1>10 DEF Advance, Contents, Present, Cell, ClassOf
  <2>2. now' > now BY <1>10, BankAssumption DEF Advance, Spends, IInv, TypeOK
  <2>3. Promise!Wait BY <1>10, <2>1, <2>2 DEF Advance, Promise!Wait
  <2> QED BY <2>3 DEF Promise!Command
<1>11. CASE UNCHANGED vars
  BY <1>11 DEF vars, Contents, Present, Cell, ClassOf
<1> QED BY <1>1, <1>2, <1>3, <1>4, <1>5, <1>6, <1>7, <1>8, <1>9, <1>10, <1>11 DEF Next, Command, Promise!Next

\* The memory implements the lines: every hit is the last value written and
\* inside its retention, no maintenance command changes a value, and only a full
\* class refuses.
THEOREM ImplementsLines == Spec => KeepsPromise
<1>1. Init => Promise!Init
  <2> SUFFICES ASSUME Init PROVE Promise!Init OBVIOUS
  <2>1. Contents = [l \in Line |-> Promise!Lost] BY DEF Init, Contents, Present, Promise!Lost
  <2> QED BY <2>1 DEF Init, Promise!Init, Promise!Reply, Answer
<1> QED BY <1>1, StepPromise, Invariance, PTL DEF Spec, KeepsPromise, Promise!Spec
=============================================================================
