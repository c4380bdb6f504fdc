--------------------------- MODULE RetentionMemory ---------------------------
(***************************************************************************)
(* The memory of retention_model.cpp: three banks of slots, a directory     *)
(* from lines to slots, and a cycle count that the commands move.  Each     *)
(* command is one action per outcome.  A line found decayed is released in  *)
(* the same call, so its retention_failed flag is never seen and left out;  *)
(* energy and the counts of commands are left out too.                      *)
(***************************************************************************)
EXTENDS Naturals, FiniteSets

CONSTANTS
  Line,                 \* logical lines, byte addresses divided by kLineBytes
  Value,                \* what a line holds
  CapacityLines,        \* BankConfig.capacity_lines, by class
  RetentionCycles,      \* BankConfig.retention_cycles, by class
  ReadCycles,           \* BankConfig.read_cycles, by class
  WriteCycles,          \* BankConfig.write_cycles, by class
  kInfiniteRetention,   \* retention that is never checked
  Strides,              \* the cycles passed to advance
  MaxCycle              \* bound of the model: the count stops here

Class == 0..2
Location == UNION {{c} \X (1..CapacityLines[c]) : c \in Class}

ASSUME BankAssumption ==
  /\ Line \subseteq Nat /\ IsFiniteSet(Line) /\ Value \subseteq Nat
  /\ CapacityLines \in [Class -> Nat] /\ RetentionCycles \in [Class -> Nat]
  /\ ReadCycles \in [Class -> Nat] /\ WriteCycles \in [Class -> Nat]
  /\ kInfiniteRetention \in Nat /\ Strides \subseteq Nat \ {0} /\ MaxCycle \in Nat

VARIABLES
  now,        \* now_
  bank,       \* banks_[class].lines[slot]
  directory,  \* directory_, Nowhere for a line it does not have
  result,     \* message and value of the last command's Result
  error_mode  \* error_mode_, given to the constructor

vars == <<now, bank, directory, result, error_mode>>

Nowhere == <<>>
ErrorMode == {"Deterministic", "Stochastic"}
Empty == [valid |-> FALSE, line |-> 0, value |-> 0, lastWrite |-> 0, lastCheck |-> 0]
Answer(message, value) == [message |-> message, value |-> value]

Init ==
  /\ now = 0 /\ bank = [slot \in Location |-> Empty]
  /\ directory = [l \in Line |-> Nowhere] /\ result = Answer("none", 0)
  /\ error_mode \in ErrorMode

Present(l) == directory[l] # Nowhere
ClassOf(l) == directory[l][1]
Cell(l) == bank[directory[l]]

\* allocate_slot: the first slot of the bank that is not valid, if there is one.
FreeSlot(c) ==
  {slot \in Location :
     /\ slot[1] = c /\ ~bank[slot].valid
     /\ \A other \in Location : other[1] = c /\ ~bank[other].valid => slot[2] <= other[2]}

\* What retention_failed may return: TRUE or FALSE at random, once per cycle,
\* or by the age.
Finite(l) == RetentionCycles[ClassOf(l)] # kInfiniteRetention

Failing(l) ==
  /\ Present(l) /\ Finite(l)
  /\ IF error_mode = "Deterministic" THEN now - Cell(l).lastWrite >= RetentionCycles[ClassOf(l)]
     ELSE now > Cell(l).lastCheck

Surviving(l) == Present(l) /\ (error_mode = "Deterministic" => ~Failing(l))

\* The check leaves its date behind.
Checked(l) ==
  IF error_mode = "Stochastic" /\ Finite(l)
  THEN [bank EXCEPT ![directory[l]].lastCheck = now] ELSE bank

Written(l, v, t) == [valid |-> TRUE, line |-> l, value |-> v, lastWrite |-> t, lastCheck |-> t]

Spends(cycles) == now + cycles <= MaxCycle /\ now' = now + cycles

-----------------------------------------------------------------------------
\* The slot a write goes to: the line's own, or a free one of another bank.
Target(l, c) == IF Present(l) /\ ClassOf(l) = c THEN {directory[l]} ELSE FreeSlot(c)

\* Slip: the slot in the old bank is not released.
Kept(l, c) == bank

\* The line leaves the bank of another class.
Vacated(l, c) ==
  IF Present(l) /\ ClassOf(l) # c THEN [bank EXCEPT ![directory[l]] = Empty] ELSE bank

Write(l, c, v) ==
  \E slot \in Target(l, c) :
    /\ Spends(WriteCycles[c])
    /\ bank' = [Vacated(l, c) EXCEPT ![slot] = Written(l, v, now')]
    /\ directory' = [directory EXCEPT ![l] = slot]
    /\ result' = Answer("written", v)

WriteRefused(l, c) ==
  /\ Target(l, c) = {}
  /\ result' = Answer("full", 0) /\ UNCHANGED <<now, bank, directory>>

Read(l) ==
  /\ Surviving(l) /\ Spends(ReadCycles[ClassOf(l)])
  /\ bank' = Checked(l) /\ result' = Answer("hit", Cell(l).value)
  /\ UNCHANGED directory

\* refresh, and migrate to the class the line is in.
Refresh(l) ==
  /\ Surviving(l) /\ Spends(ReadCycles[ClassOf(l)] + WriteCycles[ClassOf(l)])
  /\ bank' = [bank EXCEPT ![directory[l]] = Written(l, Cell(l).value, now')]
  /\ result' = Answer("renewed", Cell(l).value)
  /\ UNCHANGED directory

\* Slip: the copy is dated when the migration started.
MigrateEarlyDate(l, c) ==
  /\ Surviving(l) /\ ClassOf(l) # c
  /\ \E slot \in FreeSlot(c) :
       /\ Spends(ReadCycles[ClassOf(l)] + WriteCycles[c])
       /\ bank' = [bank EXCEPT ![slot] = Written(l, Cell(l).value, now), ![directory[l]] = Empty]
       /\ directory' = [directory EXCEPT ![l] = slot]
  /\ result' = Answer("renewed", Cell(l).value)

Migrate(l, c) ==
  /\ Surviving(l) /\ ClassOf(l) # c
  /\ \E slot \in FreeSlot(c) :
       /\ Spends(ReadCycles[ClassOf(l)] + WriteCycles[c])
       /\ bank' = [bank EXCEPT ![slot] = Written(l, Cell(l).value, now'), ![directory[l]] = Empty]
       /\ directory' = [directory EXCEPT ![l] = slot]
  /\ result' = Answer("renewed", Cell(l).value)

MigrateRefused(l, c) ==
  /\ Surviving(l) /\ ClassOf(l) # c /\ FreeSlot(c) = {}
  /\ bank' = Checked(l) /\ result' = Answer("full", 0)
  /\ UNCHANGED <<now, directory>>

Released(l) ==
  /\ bank' = [bank EXCEPT ![directory[l]] = Empty]
  /\ directory' = [directory EXCEPT ![l] = Nowhere]
  /\ UNCHANGED now

\* read, refresh or migrate finds the line decayed.
Expire(l) == Failing(l) /\ Released(l) /\ result' = Answer("expired", 0)

Invalidate(l) == Present(l) /\ Released(l) /\ result' = Answer("invalidated", 0)

\* read, refresh, migrate and invalidate of a line that is not there.
Miss(l) == ~Present(l) /\ result' = Answer("missing", 0) /\ UNCHANGED <<now, bank, directory>>

Advance(cycles) == Spends(cycles) /\ UNCHANGED <<bank, directory, result>>

Command ==
  \/ \E l \in Line, c \in Class, v \in Value : Write(l, c, v)
  \/ \E l \in Line, c \in Class : WriteRefused(l, c) \/ Migrate(l, c) \/ MigrateRefused(l, c)
  \/ \E l \in Line : Read(l) \/ Refresh(l) \/ Expire(l) \/ Invalidate(l) \/ Miss(l)
  \/ \E n \in Strides : Advance(n)

Next == Command /\ UNCHANGED error_mode

Spec == Init /\ [][Next]_vars

-----------------------------------------------------------------------------
Slot == [valid : BOOLEAN, line : Line \cup {0}, value : Value \cup {0},
         lastWrite : Nat, lastCheck : Nat]
Messages == {"none", "written", "hit", "renewed", "full", "expired", "invalidated", "missing"}

\* Variables stay in their types, and no slot is dated after now.
TypeOK ==
  /\ now \in Nat /\ error_mode \in ErrorMode /\ bank \in [Location -> Slot]
  /\ directory \in [Line -> Location \cup {Nowhere}]
  /\ result \in [message : Messages, value : Value \cup {0}]
  /\ \A slot \in Location : bank[slot].lastWrite <= now /\ bank[slot].lastCheck <= now

\* The directory and the banks name each other: a line the directory has is in
\* that slot, and a slot in use is the one the directory has for its line, so no
\* slot is lost and none is shared by two lines (retention_model.cpp:104-258).
DirectoryExact ==
  /\ \A l \in Line : Present(l) => Cell(l).valid /\ Cell(l).line = l
  /\ \A slot \in Location : bank[slot].valid =>
       bank[slot].line \in Line /\ directory[bank[slot].line] = slot

Contents ==
  [l \in Line |-> IF Present(l)
                  THEN [value |-> Cell(l).value, class |-> ClassOf(l),
                        since |-> Cell(l).lastWrite, held |-> TRUE]
                  ELSE [value |-> 0, class |-> 0, since |-> 0, held |-> FALSE]]

Promise == INSTANCE RetainedLines WITH
  contents <- Contents, reply <- result, exact <- error_mode = "Deterministic"

\* Every answer is that of the lines without banks: a hit is the last value
\* written and inside its retention, and a command is refused only
\* when its class really holds as many lines as it has capacity.
KeepsPromise == Promise!Spec
=============================================================================
