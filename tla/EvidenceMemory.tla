--------------------------- MODULE EvidenceMemory ---------------------------
(***************************************************************************)
(* The memory of evidence_model.cpp, in which time is given by the caller: *)
(* every command names the cycle it is issued at, waits for the least busy *)
(* channel of its bank, and is answered with the cycles it took.  Banks     *)
(* with several channels may serve a command at a cycle before that of an  *)
(* earlier command.                                                        *)
(*                                                                         *)
(* An exception leaves its name in fault; the object is not used after it. *)
(* Cycles do not overflow here, and energy and counters of commands, which *)
(* decide nothing, are left out.                                           *)
(***************************************************************************)
EXTENDS EvidenceProfile

VARIABLES
  lines,         \* lines_
  used,          \* banks_[class].used_lines
  channelReady,  \* banks_[class].channel_ready
  makespan,      \* makespan_cycles_
  operation,     \* the EvidenceOperation last returned
  fault,         \* the exception thrown, "none" before
  error_mode     \* error_mode_

bankVars == <<used, channelReady, makespan>>
memoryVars == <<lines, bankVars, operation, fault, error_mode>>

ErrorMode == {"Deterministic", "Stochastic"}
Gone == [present |-> FALSE, initialized |-> FALSE, failed |-> FALSE, class |-> 0,
         lastWrite |-> 0, lastCheck |-> 0]
Fresh(c) == [Gone EXCEPT !.present = TRUE, !.class = c]
Done(start, completion) ==
  [ok |-> TRUE, failure |-> "None", start |-> start, completion |-> completion]
Refused(failure, cycle) ==
  [ok |-> FALSE, failure |-> failure, start |-> cycle, completion |-> cycle]

MemoryInit ==
  /\ lines = [l \in Line |-> Gone]
  /\ used = [c \in Class |-> 0]
  /\ channelReady = [c \in Class |-> [i \in 1..Channels[c] |-> 0]]
  /\ makespan = 0 /\ operation = Done(0, 0) /\ fault = "none"
  /\ error_mode \in ErrorMode

-----------------------------------------------------------------------------
(* Banks and their channels.                                                 *)

CanFit(c, n) == used[c] + n <= CapacityLines[c]

Lines(first, n) == first .. (first + n - 1)

\* reserve_range: refused without room; two allocations never share a line.
Reserve(first, n, c) ==
  IF n = 0 \/ ~CanFit(c, n) THEN UNCHANGED memoryVars
  ELSE /\ IF \E l \in Lines(first, n) : lines[l].present
          THEN fault' = "overlap" /\ UNCHANGED <<lines, used>>
          ELSE /\ lines' = [l \in Line |-> IF l \in Lines(first, n) THEN Fresh(c) ELSE lines[l]]
               /\ used' = [used EXCEPT ![c] = @ + n]
               /\ UNCHANGED fault
       /\ UNCHANGED <<channelReady, makespan, operation, error_mode>>

HeldIn(S, c) == {l \in S : lines[l].present /\ lines[l].class = c}

\* release_range: each line leaves the bank it is in; absent lines are skipped.
Release(first, n) ==
  /\ IF \E c \in Class : used[c] < Cardinality(HeldIn(Lines(first, n), c))
     THEN fault' = "underflow" /\ UNCHANGED <<lines, used>>
     ELSE /\ lines' = [l \in Line |-> IF l \in Lines(first, n) THEN Gone ELSE lines[l]]
          /\ used' = [c \in Class |-> used[c] - Cardinality(HeldIn(Lines(first, n), c))]
          /\ UNCHANGED fault
  /\ UNCHANGED <<channelReady, makespan, operation, error_mode>>

\* The first of the channels that are free soonest.
Soonest(c) ==
  CHOOSE i \in 1..Channels[c] :
    \A j \in 1..Channels[c] : /\ channelReady[c][i] <= channelReady[c][j]
                              /\ j < i => channelReady[c][i] < channelReady[c][j]

\* Slip: a busy channel is not waited for.
AtIssue(c, issue) == issue

EarliestStart(c, issue) == Later(issue, channelReady[c][Soonest(c)])

\* schedule: the command occupies the channel from its start to its completion.
Occupies(ready, c, completion) == [ready EXCEPT ![c] = [@ EXCEPT ![Soonest(c)] = completion]]

Scheduled(c, completion) ==
  /\ channelReady' = Occupies(channelReady, c, completion)
  /\ makespan' = Later(makespan, completion)

-----------------------------------------------------------------------------
(* Decay, as retention_failed sees it at the cycle a command starts.  In the *)
(* stochastic mode a check covers the cycles since the last one; when it     *)
(* starts before the last one, their unsigned difference wraps to a number   *)
(* so large that the line fails for certain.                                 *)

Decaying(l) ==
  lines[l].initialized /\ ~lines[l].failed /\ RetentionCycles[lines[l].class] # kInfinite

CheckedFrom(l) == Later(lines[l].lastCheck, lines[l].lastWrite)

Early(l, t) == Decaying(l) /\ t < lines[l].lastWrite

MayFail(l, t) ==
  \/ lines[l].failed
  \/ /\ Decaying(l)
     /\ IF error_mode = "Deterministic"
        THEN t - lines[l].lastWrite >= RetentionCycles[lines[l].class]
        ELSE t # CheckedFrom(l)

MaySurvive(l, t) ==
  /\ ~lines[l].failed
  /\ Decaying(l) => IF error_mode = "Deterministic"
                    THEN t - lines[l].lastWrite < RetentionCycles[lines[l].class]
                    ELSE t >= CheckedFrom(l)

Checked(l, t, failed) ==
  [lines[l] EXCEPT !.failed = failed,
                   !.lastCheck = IF Decaying(l) /\ error_mode = "Stochastic" THEN t ELSE @]

Rewritten(l, c, t) ==
  [lines[l] EXCEPT !.initialized = TRUE, !.failed = FALSE, !.class = c,
                   !.lastWrite = t, !.lastCheck = t]

\* The check throws, or finds the line decayed, at cycle t.
Fails(l, t) ==
  \/ Early(l, t) /\ fault' = "early" /\ UNCHANGED <<lines, operation>>
  \/ /\ ~Early(l, t) /\ MayFail(l, t)
     /\ lines' = [lines EXCEPT ![l] = Checked(l, t, TRUE)]
     /\ operation' = Refused("Expired", t) /\ UNCHANGED fault

Survives(l, t) == ~Early(l, t) /\ MaySurvive(l, t)

-----------------------------------------------------------------------------
(* Commands.                                                                 *)

Missing(l, issue) ==
  /\ ~lines[l].present
  /\ operation' = Refused("Missing", issue) /\ UNCHANGED <<lines, bankVars, fault>>

Live(l) == lines[l].present /\ lines[l].initialized

ReadLine(l, issue) ==
  \/ Missing(l, issue)
  \/ /\ lines[l].present /\ ~lines[l].initialized
     /\ operation' = Refused("Uninitialized", issue) /\ UNCHANGED <<lines, bankVars, fault>>
  \/ LET c == lines[l].class
         start == EarliestStart(c, issue)
         completion == start + ReadCycles[c]
     IN  /\ Live(l) /\ Scheduled(c, completion) /\ UNCHANGED used
         /\ \/ Fails(l, start)
            \/ /\ Survives(l, start)
               /\ lines' = [lines EXCEPT ![l] = Checked(l, start, FALSE)]
               /\ operation' = Done(start, completion) /\ UNCHANGED fault

WriteLine(l, c, issue) ==
  \/ Missing(l, issue)
  \/ /\ lines[l].present /\ lines[l].class # c
     /\ fault' = "class" /\ UNCHANGED <<lines, bankVars, operation>>
  \/ LET start == EarliestStart(c, issue)
         completion == start + WriteCycles[c]
     IN  /\ lines[l].present /\ lines[l].class = c /\ Scheduled(c, completion)
         /\ lines' = [lines EXCEPT ![l] = Rewritten(l, c, completion)]
         /\ operation' = Done(start, completion) /\ UNCHANGED <<used, fault>>

RefreshLine(l, issue) ==
  \/ Missing(l, issue)
  \/ /\ lines[l].present /\ ~lines[l].initialized
     /\ operation' = Done(issue, issue) /\ UNCHANGED <<lines, bankVars, fault>>
  \/ LET c == lines[l].class
         start == EarliestStart(c, issue)
         completion == start + ReadCycles[c] + WriteCycles[c]
     IN  /\ Live(l) /\ Scheduled(c, completion) /\ UNCHANGED used
         /\ \/ Fails(l, start)
            \/ /\ Survives(l, start)
               /\ lines' = [lines EXCEPT ![l] = Rewritten(l, c, completion)]
               /\ operation' = Done(start, completion) /\ UNCHANGED fault

\* Slip: the line still counts in the bank it left.
MovedIn(c, d) == used' = [used EXCEPT ![d] = @ + 1]

\* One line leaves a bank, one enters another.
Moved(c, d) == used' = [used EXCEPT ![c] = @ - 1, ![d] = @ + 1]

\* To another class: read there, then written here.
Transfer(l, d, issue) ==
  LET c == lines[l].class
      start == EarliestStart(c, issue)
      read == start + ReadCycles[c]
      completion == EarliestStart(d, read + MigrationSetup) + WriteCycles[d]
      reading == Occupies(channelReady, c, read)
  IN  \/ Scheduled(c, read) /\ Fails(l, start) /\ UNCHANGED used
      \/ /\ Survives(l, start)
         /\ channelReady' = Occupies(reading, d, completion)
         /\ makespan' = Later(makespan, completion)
         /\ lines' = [lines EXCEPT ![l] = Rewritten(l, d, completion)]
         /\ Moved(c, d)
         /\ operation' = Done(start, completion) /\ UNCHANGED fault

MigrateLine(l, d, issue) ==
  IF ~lines[l].present THEN Missing(l, issue)
  ELSE IF lines[l].class = d THEN RefreshLine(l, issue)
  ELSE \/ /\ ~CanFit(d, 1)
          /\ operation' = Refused("Capacity", issue) /\ UNCHANGED <<lines, bankVars, fault>>
       \/ /\ CanFit(d, 1) /\ ~lines[l].initialized
          /\ lines' = [lines EXCEPT ![l] = [@ EXCEPT !.class = d, !.failed = FALSE]]
          /\ Moved(lines[l].class, d)
          /\ operation' = Done(issue, issue) /\ UNCHANGED <<channelReady, makespan, fault>>
       \/ CanFit(d, 1) /\ lines[l].initialized /\ Transfer(l, d, issue)

\* line_status
Deadline(l) ==
  IF RetentionCycles[lines[l].class] = kInfinite THEN kInfinite
  ELSE lines[l].lastWrite + RetentionCycles[lines[l].class]

\* bank_ready_cycle
BankReady ==
  CHOOSE t \in {channelReady[p[1]][p[2]] : p \in UNION {{c} \X (1..Channels[c]) : c \in Class}} :
    \A c \in Class : \A i \in 1..Channels[c] : channelReady[c][i] <= t

-----------------------------------------------------------------------------
(* Any caller: the replay is one.                                            *)

Command ==
  \/ \E l \in Line, issue \in Nat : ReadLine(l, issue) \/ RefreshLine(l, issue)
  \/ \E l \in Line, c \in Class, issue \in Nat : WriteLine(l, c, issue) \/ MigrateLine(l, c, issue)

MemoryNext ==
  /\ fault = "none"
  /\ \/ Command /\ UNCHANGED error_mode
     \/ \E first, n \in Nat : Lines(first, n) \subseteq Line /\ Release(first, n)
     \/ \E first, n \in Nat, c \in Class : Lines(first, n) \subseteq Line /\ Reserve(first, n, c)

MemorySpec == MemoryInit /\ [][MemoryNext]_memoryVars

-----------------------------------------------------------------------------
LineState == [present : BOOLEAN, initialized : BOOLEAN, failed : BOOLEAN, class : Class,
              lastWrite : Nat, lastCheck : Nat]
Failures == {"None", "Capacity", "Missing", "Uninitialized", "Expired"}
Operation == [ok : BOOLEAN, failure : Failures, start : Nat, completion : Nat]

\* Variables stay in their types: the unsigned counts of lines, decremented without
\* a check by migrate (evidence_model.cpp:278-280, 305-306), never wrap.
MemoryTypeOK ==
  /\ lines \in [Line -> LineState] /\ used \in [Class -> Nat] /\ makespan \in Nat
  /\ DOMAIN channelReady = Class
  /\ \A c \in Class : channelReady[c] \in [1..Channels[c] -> Nat]
  /\ operation \in Operation /\ error_mode \in ErrorMode
  /\ fault \in {"none", "overlap", "underflow", "early", "class"}

\* The lines counted in a bank are those it holds, and no more than it has room for,
\* after any series of reservations, releases and migrations, failed ones included
\* (evidence_model.cpp:55-92, 278-306).
UsageExact ==
  \A c \in Class : used[c] = Cardinality(HeldIn(Line, c)) /\ used[c] <= CapacityLines[c]

\* The makespan is the cycle the last channel is free at, and no line is dated
\* after it: nothing completes outside the reported time (evidence_model.cpp:94-116, 358-366).
MakespanExact ==
  /\ makespan = BankReady
  /\ \A l \in Line : lines[l].lastWrite <= makespan /\ lines[l].lastCheck <= makespan

\* In a bank with one channel commands start in the order they are given, whatever
\* cycles they are issued at: no line is dated or checked after the cycle the
\* next command can start at.  So retention_failed never throws there and never
\* subtracts a later check from an earlier one (evidence_model.cpp:130-141).
SingleChannelOrdered ==
  \A l \in Line :
    LET c == lines[l].class IN
    Channels[c] = 1 => CheckedFrom(l) <= channelReady[c][1]
=============================================================================
