-------------------------- MODULE TraceReplay_proofs --------------------------
(***************************************************************************)
(* The evidence memory for every profile and every caller: the counts of   *)
(* lines are exact, the makespan is that of the last channel, and a bank   *)
(* with one channel serves its lines in order.  A command serves a line,   *)
(* moves one, or does nothing.                                             *)
(*                                                                         *)
(* Then the replay as one of its callers, for every trace and policy: its  *)
(* accounts are exact, a buffer's lines go together until a migration      *)
(* fails, a safe report is complete, streams that barriers order never     *)
(* meet a line before it was written, maintained lines hold, and the       *)
(* oracle's and the analysis's ages suffice for the replays they imagine;  *)
(* maintenance converges, and the percentiles of lifetimes cover.          *)
(***************************************************************************)
EXTENDS TraceReplay, TraceAnalysis_proofs

\* Some channel is busy until the makespan, none for longer.
LastChannel ==
  /\ \A c \in Class : \A i \in 1..Channels[c] : channelReady[c][i] <= makespan
  /\ \E c \in Class : \E i \in 1..Channels[c] : channelReady[c][i] = makespan

LinesDated == \A l \in Line : lines[l].lastWrite <= makespan /\ lines[l].lastCheck <= makespan

\* A line without data has no date.
BlankUndated ==
  \A l \in Line : ~lines[l].initialized => lines[l].lastWrite = 0 /\ lines[l].lastCheck = 0

\* What is dated stays within the makespan and behind its single channel.
Dates == LinesDated /\ BlankUndated /\ SingleChannelOrdered

IInv == MemoryTypeOK /\ UsageExact /\ LastChannel /\ Dates

-----------------------------------------------------------------------------
\* The channel chosen is one of the bank, and no other is free sooner.
LEMMA SoonestIsFirst ==
  ASSUME MemoryTypeOK, NEW c \in Class
  PROVE  /\ Soonest(c) \in 1..Channels[c]
         /\ \A j \in 1..Channels[c] : channelReady[c][Soonest(c)] <= channelReady[c][j]
<1> DEFINE free == channelReady[c]
           All == 1..Channels[c]
           Times == {free[j] : j \in All}
<1>1. Channels[c] \in Nat \ {0} /\ 1 \in All BY ProfileAssumption
<1>2. \A j \in All : free[j] \in Nat BY DEF MemoryTypeOK
<1>3. Times \subseteq Nat /\ Times # {} BY <1>1, <1>2
<1>4. PICK least \in Times : \A t \in Times : least <= t BY <1>3, Least
<1> DEFINE Earliest == {j \in All : free[j] = least}
<1>5. Earliest \subseteq Nat /\ Earliest # {} BY <1>1, <1>4
<1> HIDE DEF Earliest
<1>6. PICK i \in Earliest : \A j \in Earliest : i <= j BY <1>5, Least
<1>7. i \in All /\ free[i] = least BY <1>6 DEF Earliest
<1>8. ASSUME NEW j \in All PROVE free[i] <= free[j] /\ (j < i => free[i] < free[j])
  <2>1. free[j] \in Times /\ free[j] \in Nat /\ free[i] \in Nat BY <1>2, <1>7
  <2>2. least <= free[j] BY <2>1, <1>4
  <2>3. ASSUME j < i, free[j] = least PROVE FALSE
    <3>1. j \in Earliest BY <2>3 DEF Earliest
    <3>2. i <= j /\ i \in Nat /\ j \in Nat BY <3>1, <1>6, <1>7
    <3> QED BY <3>2, <2>3
  <2> QED BY <2>1, <2>2, <2>3, <1>7
<1> QED BY <1>7, <1>8 DEF Soonest

\* A command starts no sooner than it is issued, nor than its channel is free.
LEMMA StartsLate ==
  ASSUME MemoryTypeOK, NEW c \in Class, NEW issue \in Nat
  PROVE  /\ EarliestStart(c, issue) \in Nat /\ EarliestStart(c, issue) >= issue
         /\ EarliestStart(c, issue) >= channelReady[c][Soonest(c)]
<1>1. Soonest(c) \in 1..Channels[c] BY SoonestIsFirst
<1>2. channelReady[c][Soonest(c)] \in Nat BY <1>1 DEF MemoryTypeOK
<1> QED BY <1>2 DEF EarliestStart, Later

\* One channel is busy until the command completes, the others as before.
ChannelCycles(free) ==
  DOMAIN free = Class /\ \A d \in Class : free[d] \in [1..Channels[d] -> Nat]

BusyAfter(free, c, completion, busy) ==
  \A d \in Class : \A i \in 1..Channels[d] :
    busy[d][i] = IF d = c /\ i = Soonest(c) THEN completion ELSE free[d][i]

LEMMA OccupiesOne ==
  ASSUME NEW free, ChannelCycles(free), NEW c \in Class, NEW completion \in Nat,
         NEW busy, busy = Occupies(free, c, completion)
  PROVE  ChannelCycles(busy) /\ BusyAfter(free, c, completion, busy)
<1>0. DOMAIN free = Class /\ \A d \in Class : free[d] \in [1..Channels[d] -> Nat]
  BY DEF ChannelCycles
<1>1. busy[c] = [free[c] EXCEPT ![Soonest(c)] = completion] BY <1>0 DEF Occupies
<1>2. DOMAIN busy = Class /\ \A d \in Class : d # c => busy[d] = free[d] BY <1>0 DEF Occupies
<1>3. busy[c] \in [1..Channels[c] -> Nat] BY <1>0, <1>1
<1>4. \A i \in 1..Channels[c] : busy[c][i] = IF i = Soonest(c) THEN completion ELSE free[c][i]
  BY <1>0, <1>1
<1>5. ASSUME NEW d \in Class
      PROVE  /\ busy[d] \in [1..Channels[d] -> Nat]
             /\ \A i \in 1..Channels[d] :
                  busy[d][i] = IF d = c /\ i = Soonest(c) THEN completion ELSE free[d][i]
  <2>1. CASE d = c BY <2>1, <1>3, <1>4
  <2>2. CASE d # c BY <2>2, <1>0, <1>2
  <2> QED BY <2>1, <2>2
<1> QED BY <1>2, <1>5 DEF ChannelCycles, BusyAfter

\* Channels are busy for longer only, and the makespan follows the last of them.
Advances ==
  /\ DOMAIN channelReady' = Class
  /\ \A c \in Class : channelReady'[c] \in [1..Channels[c] -> Nat]
  /\ \A c \in Class : \A i \in 1..Channels[c] : channelReady[c][i] <= channelReady'[c][i]
  /\ makespan' \in Nat /\ makespan <= makespan' /\ LastChannel'

LEMMA OneCommand ==
  ASSUME MemoryTypeOK, LastChannel, NEW c \in Class, NEW completion \in Nat,
         channelReady[c][Soonest(c)] <= completion, Scheduled(c, completion)
  PROVE  /\ Advances /\ completion <= makespan'
         /\ Channels[c] = 1 => channelReady'[c][1] = completion
<1>1. /\ DOMAIN channelReady = Class
      /\ \A d \in Class : channelReady[d] \in [1..Channels[d] -> Nat]
      /\ makespan \in Nat
  BY DEF MemoryTypeOK
<1>2. /\ DOMAIN channelReady' = Class
      /\ \A d \in Class :
           /\ channelReady'[d] \in [1..Channels[d] -> Nat]
           /\ \A i \in 1..Channels[d] :
                channelReady'[d][i] = IF d = c /\ i = Soonest(c) THEN completion ELSE channelReady[d][i]
  <2>1. ChannelCycles(channelReady) BY <1>1 DEF ChannelCycles
  <2>2. ChannelCycles(channelReady') /\ BusyAfter(channelReady, c, completion, channelReady')
    BY <2>1, OccupiesOne DEF Scheduled
  <2> QED BY <2>2 DEF ChannelCycles, BusyAfter
<1>3. makespan' \in Nat /\ makespan <= makespan' /\ completion <= makespan'
      /\ makespan' \in {makespan, completion}
  BY <1>1 DEF Scheduled, Later
<1>4. \A d \in Class : \A i \in 1..Channels[d] :
        channelReady[d][i] <= channelReady'[d][i] /\ channelReady'[d][i] <= makespan'
  <2> SUFFICES ASSUME NEW d \in Class, NEW i \in 1..Channels[d]
               PROVE  channelReady[d][i] <= channelReady'[d][i] /\ channelReady'[d][i] <= makespan'
    OBVIOUS
  <2>1. channelReady[d][i] \in Nat /\ channelReady[d][i] <= makespan BY <1>1 DEF LastChannel
  <2> QED BY <1>2, <1>3, <1>1, <2>1
<1>5. Soonest(c) \in 1..Channels[c] BY SoonestIsFirst
<1>6. \E d \in Class : \E i \in 1..Channels[d] : channelReady'[d][i] = makespan'
  <2>1. CASE makespan' = completion BY <2>1, <1>2, <1>5
  <2>2. CASE makespan' = makespan
    <3>0. PICK d \in Class : \E i \in 1..Channels[d] : channelReady[d][i] = makespan BY DEF LastChannel
    <3>1. PICK i \in 1..Channels[d] : channelReady[d][i] = makespan BY <3>0
    <3>2. channelReady'[d][i] = makespan \/ channelReady'[d][i] = completion BY <1>2, <3>1
    <3>3. channelReady'[d][i] \in Nat /\ channelReady[d][i] <= channelReady'[d][i]
          /\ channelReady'[d][i] <= makespan'
      BY <1>2, <1>4
    <3> QED BY <1>3, <2>2, <3>1, <3>3
  <2> QED BY <1>3, <2>1, <2>2
<1>7. Channels[c] = 1 => channelReady'[c][1] = completion BY <1>2, <1>5
<1> QED BY <1>2, <1>3, <1>4, <1>6, <1>7 DEF Advances, LastChannel

\* Read in one bank, written in another.
BothScheduled(c, read, d, completion) ==
  /\ channelReady' = Occupies(Occupies(channelReady, c, read), d, completion)
  /\ makespan' = Later(makespan, completion)

LEMMA TwoCommands ==
  ASSUME MemoryTypeOK, LastChannel, NEW c \in Class, NEW d \in Class, c # d,
         NEW read \in Nat, NEW completion \in Nat, read <= completion,
         channelReady[c][Soonest(c)] <= read, channelReady[d][Soonest(d)] <= completion,
         BothScheduled(c, read, d, completion)
  PROVE  /\ Advances /\ completion <= makespan'
         /\ Channels[d] = 1 => channelReady'[d][1] = completion
<1> DEFINE reading == Occupies(channelReady, c, read)
<1>0. reading = Occupies(channelReady, c, read) OBVIOUS
<1> HIDE DEF reading
<1>1. /\ DOMAIN channelReady = Class
      /\ \A e \in Class : channelReady[e] \in [1..Channels[e] -> Nat]
      /\ makespan \in Nat
  BY DEF MemoryTypeOK
<1>2. /\ DOMAIN reading = Class
      /\ \A e \in Class :
           /\ reading[e] \in [1..Channels[e] -> Nat]
           /\ \A i \in 1..Channels[e] :
                reading[e][i] = IF e = c /\ i = Soonest(c) THEN read ELSE channelReady[e][i]
  <2>1. ChannelCycles(channelReady) BY <1>1 DEF ChannelCycles
  <2>2. ChannelCycles(reading) /\ BusyAfter(channelReady, c, read, reading)
    BY <1>0, <2>1, OccupiesOne
  <2> QED BY <2>2 DEF ChannelCycles, BusyAfter
<1>3. /\ DOMAIN channelReady' = Class
      /\ \A e \in Class :
           /\ channelReady'[e] \in [1..Channels[e] -> Nat]
           /\ \A i \in 1..Channels[e] :
                channelReady'[e][i] = IF e = d /\ i = Soonest(d) THEN completion ELSE reading[e][i]
  <2>1. channelReady' = Occupies(reading, d, completion) BY <1>0 DEF BothScheduled
  <2>2. ChannelCycles(reading) BY <1>2 DEF ChannelCycles
  <2>3. ChannelCycles(channelReady') /\ BusyAfter(reading, d, completion, channelReady')
    BY <2>1, <2>2, OccupiesOne
  <2> QED BY <2>3 DEF ChannelCycles, BusyAfter
<1>4. makespan' \in Nat /\ makespan <= makespan' /\ completion <= makespan'
      /\ makespan' \in {makespan, completion}
  BY <1>1 DEF Later, BothScheduled
<1>5. \A e \in Class : \A i \in 1..Channels[e] :
        channelReady[e][i] <= channelReady'[e][i] /\ channelReady'[e][i] <= makespan'
  <2> SUFFICES ASSUME NEW e \in Class, NEW i \in 1..Channels[e]
               PROVE  channelReady[e][i] <= channelReady'[e][i] /\ channelReady'[e][i] <= makespan'
    OBVIOUS
  <2> DEFINE before == channelReady[e][i]
             after == channelReady'[e][i]
  <2>1. before \in Nat /\ before <= makespan BY <1>1 DEF LastChannel
  <2>2. CASE e = d /\ i = Soonest(d)
    <3>1. after = completion /\ before <= completion BY <1>3, <2>2
    <3> QED BY <1>4, <3>1
  <2>3. CASE e = c /\ i = Soonest(c)
    <3>1. after = read /\ before <= read BY <1>2, <1>3, <2>3
    <3> QED BY <1>4, <3>1
  <2>4. CASE ~(e = d /\ i = Soonest(d)) /\ ~(e = c /\ i = Soonest(c))
    <3>1. after = before BY <1>2, <1>3, <2>4
    <3> QED BY <1>1, <1>4, <2>1, <3>1
  <2> QED BY <2>2, <2>3, <2>4
<1>6. Soonest(d) \in 1..Channels[d] BY SoonestIsFirst
<1>7. \E e \in Class : \E i \in 1..Channels[e] : channelReady'[e][i] = makespan'
  <2>1. CASE makespan' = completion BY <2>1, <1>3, <1>6
  <2>2. CASE makespan' = makespan
    <3>0. PICK e \in Class : \E i \in 1..Channels[e] : channelReady[e][i] = makespan BY DEF LastChannel
    <3>1. PICK i \in 1..Channels[e] : channelReady[e][i] = makespan BY <3>0
    <3>2. channelReady'[e][i] \in Nat /\ channelReady[e][i] <= channelReady'[e][i]
          /\ channelReady'[e][i] <= makespan'
      BY <1>3, <1>5
    <3>3. channelReady'[e][i] = makespan'
      <4> DEFINE after == channelReady'[e][i]
      <4>1. after \in Nat /\ makespan' <= after /\ after <= makespan' BY <2>2, <3>1, <3>2
      <4> QED BY <1>4, <4>1
    <3> QED BY <3>3
  <2> QED BY <1>4, <2>1, <2>2
<1>8. ASSUME Channels[d] = 1 PROVE channelReady'[d][1] = completion
  <2>1. Soonest(d) = 1 /\ 1 \in 1..Channels[d] BY <1>6, <1>8
  <2> QED BY <1>3, <2>1
<1> QED BY <1>3, <1>4, <1>5, <1>7, <1>8 DEF Advances, LastChannel

-----------------------------------------------------------------------------
\* What each command does to one line.

Nothing == UNCHANGED <<lines, bankVars>>

\* Channel time is spent in the line's bank; the line keeps its place, and what is
\* dated anew is dated within the command.
Served(l) ==
  LET c == lines[l].class IN
  \E completion \in Nat, rec \in LineState :
    /\ completion >= channelReady[c][Soonest(c)]
    /\ Scheduled(c, completion) /\ UNCHANGED used
    /\ lines' = [lines EXCEPT ![l] = rec]
    /\ rec.present /\ lines[l].present /\ rec.class = c /\ rec.initialized
    /\ \/ lines[l].initialized /\ rec.lastWrite = lines[l].lastWrite
       \/ rec.lastWrite = completion
    /\ \/ lines[l].initialized /\ rec.lastCheck = lines[l].lastCheck
       \/ rec.lastCheck \in Nat /\ rec.lastCheck <= completion

\* The line changes its bank: without data at once, with data through both.
MovedBlank(l, d) ==
  /\ ~lines[l].initialized
  /\ lines' = [lines EXCEPT ![l] = [@ EXCEPT !.class = d, !.failed = FALSE]]
  /\ UNCHANGED <<channelReady, makespan>>

MovedData(l, d) ==
  LET c == lines[l].class IN
  \E read \in Nat, completion \in Nat :
    /\ channelReady[c][Soonest(c)] <= read /\ read <= completion
    /\ channelReady[d][Soonest(d)] <= completion
    /\ BothScheduled(c, read, d, completion)
    /\ lines' = [lines EXCEPT ![l] = Rewritten(l, d, completion)]

MovedTo(l, d) ==
  /\ lines[l].present /\ lines[l].class # d /\ CanFit(d, 1) /\ Moved(lines[l].class, d)
  /\ MovedBlank(l, d) \/ MovedData(l, d)

Effect(l) == Nothing \/ Served(l) \/ \E d \in Class : MovedTo(l, d)

LEMMA RewrittenLine ==
  ASSUME MemoryTypeOK, NEW l \in Line, NEW c \in Class, NEW t \in Nat
  PROVE  /\ Rewritten(l, c, t) \in LineState /\ Rewritten(l, c, t).initialized
         /\ Rewritten(l, c, t).present = lines[l].present /\ Rewritten(l, c, t).class = c
         /\ Rewritten(l, c, t).lastWrite = t /\ Rewritten(l, c, t).lastCheck = t
<1>1. lines[l] \in LineState BY DEF MemoryTypeOK
<1> QED BY <1>1 DEF Rewritten, LineState

LEMMA CheckedLine ==
  ASSUME MemoryTypeOK, NEW l \in Line, NEW t \in Nat, NEW failed \in BOOLEAN, lines[l].initialized
  PROVE  /\ Checked(l, t, failed) \in LineState /\ Checked(l, t, failed).initialized
         /\ Checked(l, t, failed).present = lines[l].present
         /\ Checked(l, t, failed).class = lines[l].class
         /\ Checked(l, t, failed).lastWrite = lines[l].lastWrite
         /\ Checked(l, t, failed).lastCheck \in {lines[l].lastCheck, t}
<1>1. lines[l] \in LineState BY DEF MemoryTypeOK
<1> QED BY <1>1 DEF Checked, LineState

\* What is answered has its type.
Faults == {"none", "overlap", "underflow", "early", "class"}
Answered == operation' \in Operation /\ fault' \in Faults

LEMMA Answers ==
  ASSUME NEW t \in Nat, NEW u \in Nat
  PROVE  Done(t, u) \in Operation /\ \A failure \in Failures : Refused(failure, t) \in Operation
BY DEF Done, Refused, Operation, Failures

\* A check that fails has taken its channel time and left the line its dates.
LEMMA FailureServes ==
  ASSUME MemoryTypeOK, NEW l \in Line, Live(l), NEW t \in Nat, NEW completion \in Nat,
         t <= completion, completion >= channelReady[lines[l].class][Soonest(lines[l].class)],
         Scheduled(lines[l].class, completion), UNCHANGED used, Fails(l, t)
  PROVE  Served(l) /\ Answered
<1>1. lines[l] \in LineState /\ lines \in [Line -> LineState] /\ operation \in Operation
      /\ fault \in Faults
  BY DEF MemoryTypeOK, Faults
<1>2. lines[l].present /\ lines[l].initialized BY DEF Live
<1>3. CASE fault' = "early" /\ UNCHANGED <<lines, operation>>
  <2>1. lines' = [lines EXCEPT ![l] = lines[l]] BY <1>1, <1>3
  <2>2. Served(l) BY <2>1, <1>1, <1>2 DEF Served
  <2> QED BY <2>2, <1>1, <1>3 DEF Answered, Faults
<1>4. CASE /\ lines' = [lines EXCEPT ![l] = Checked(l, t, TRUE)]
           /\ operation' = Refused("Expired", t) /\ UNCHANGED fault
  <2> DEFINE rec == Checked(l, t, TRUE)
  <2>1. /\ rec \in LineState /\ rec.initialized /\ rec.present /\ rec.class = lines[l].class
        /\ rec.lastWrite = lines[l].lastWrite /\ rec.lastCheck \in {lines[l].lastCheck, t}
    BY <1>2, CheckedLine
  <2> HIDE DEF rec
  <2>2. rec.lastCheck = lines[l].lastCheck \/ (rec.lastCheck \in Nat /\ rec.lastCheck <= completion)
    BY <2>1
  <2>3. lines' = [lines EXCEPT ![l] = rec] BY <1>4 DEF rec
  <2>4. Served(l) BY <2>1, <2>2, <2>3, <1>2 DEF Served
  <2>5. Answered BY <1>1, <1>4, Answers DEF Answered, Failures
  <2> QED BY <2>4, <2>5
<1> QED BY <1>3, <1>4 DEF Fails

\* A read.
LEMMA ReadServes ==
  ASSUME MemoryTypeOK, NEW l \in Line, NEW issue \in Nat, ReadLine(l, issue)
  PROVE  Effect(l) /\ Answered
<1>1. /\ lines[l] \in LineState /\ lines[l].class \in Class /\ operation \in Operation
      /\ fault \in Faults
  BY DEF MemoryTypeOK, LineState, Faults
<1>2. CASE Missing(l, issue) \/ (operation' = Refused("Uninitialized", issue) /\ UNCHANGED <<lines, bankVars, fault>>)
  <2>1. Nothing BY <1>2 DEF Missing, Nothing
  <2>2. Answered BY <1>1, <1>2, Answers DEF Missing, Answered, Failures
  <2> QED BY <2>1, <2>2 DEF Effect
<1> DEFINE c == lines[l].class
           start == EarliestStart(c, issue)
           completion == start + ReadCycles[c]
<1>3. CASE /\ Live(l) /\ Scheduled(c, completion) /\ UNCHANGED used
           /\ \/ Fails(l, start)
              \/ /\ Survives(l, start)
                 /\ lines' = [lines EXCEPT ![l] = Checked(l, start, FALSE)]
                 /\ operation' = Done(start, completion) /\ UNCHANGED fault
  <2>1. /\ start \in Nat /\ completion \in Nat /\ start <= completion
        /\ completion >= channelReady[c][Soonest(c)]
    <3>1. start \in Nat /\ start >= channelReady[c][Soonest(c)] BY <1>1, StartsLate
    <3>2. channelReady[c][Soonest(c)] \in Nat BY <1>1, SoonestIsFirst DEF MemoryTypeOK
    <3>3. ReadCycles[c] \in Nat BY <1>1, ProfileAssumption
    <3> HIDE DEF start
    <3> QED BY <3>1, <3>2, <3>3
  <2>2. CASE Fails(l, start)
    <3> HIDE DEF completion, start
    <3> QED BY <1>3, <2>1, <2>2, FailureServes DEF Effect
  <2>3. CASE /\ lines' = [lines EXCEPT ![l] = Checked(l, start, FALSE)]
             /\ operation' = Done(start, completion) /\ UNCHANGED fault
    <3> DEFINE rec == Checked(l, start, FALSE)
    <3>1. Live(l) /\ Scheduled(c, completion) /\ UNCHANGED used BY <1>3
    <3> HIDE DEF completion, start
    <3>2. /\ rec \in LineState /\ rec.initialized /\ rec.present /\ rec.class = c
          /\ rec.lastWrite = lines[l].lastWrite /\ rec.lastCheck \in {lines[l].lastCheck, start}
      BY <3>1, <2>1, CheckedLine DEF Live
    <3> HIDE DEF rec
    <3>3. lines' = [lines EXCEPT ![l] = rec] BY <2>3 DEF rec
    <3>4. rec.lastCheck = lines[l].lastCheck \/ (rec.lastCheck \in Nat /\ rec.lastCheck <= completion)
      BY <3>2, <2>1
    <3>5. Served(l) BY <3>1, <3>2, <3>3, <3>4, <2>1 DEF Served, Live
    <3>6. Answered BY <1>1, <2>1, <2>3, Answers DEF Answered
    <3> QED BY <3>5, <3>6 DEF Effect
  <2> QED BY <1>3, <2>2, <2>3
<1> QED BY <1>2, <1>3 DEF ReadLine

\* A line is written anew: the end of a write and of a refresh.
LEMMA RewriteServes ==
  ASSUME MemoryTypeOK, NEW l \in Line, NEW completion \in Nat, lines[l].present,
         completion >= channelReady[lines[l].class][Soonest(lines[l].class)],
         Scheduled(lines[l].class, completion), UNCHANGED used,
         lines' = [lines EXCEPT ![l] = Rewritten(l, lines[l].class, completion)]
  PROVE  Served(l)
<1> DEFINE rec == Rewritten(l, lines[l].class, completion)
<1>1. lines[l].class \in Class BY DEF MemoryTypeOK, LineState
<1>2. /\ rec \in LineState /\ rec.initialized /\ rec.present /\ rec.class = lines[l].class
      /\ rec.lastWrite = completion /\ rec.lastCheck = completion
  BY <1>1, RewrittenLine
<1>3. lines' = [lines EXCEPT ![l] = rec] OBVIOUS
<1> HIDE DEF rec
<1>4. rec.lastCheck \in Nat /\ rec.lastCheck <= completion BY <1>2
<1> QED BY <1>2, <1>3, <1>4 DEF Served

\* A write.
LEMMA WriteServes ==
  ASSUME MemoryTypeOK, NEW l \in Line, NEW c \in Class, NEW issue \in Nat, WriteLine(l, c, issue)
  PROVE  Effect(l) /\ Answered
<1>1. operation \in Operation /\ fault \in Faults BY DEF MemoryTypeOK, Faults
<1>2. CASE Missing(l, issue)
  <2>1. Nothing /\ Answered BY <1>1, <1>2, Answers DEF Missing, Nothing, Answered, Failures
  <2> QED BY <2>1 DEF Effect
<1>3. CASE fault' = "class" /\ UNCHANGED <<lines, bankVars, operation>>
  <2>1. Nothing /\ Answered BY <1>1, <1>3 DEF Nothing, Answered, Faults
  <2> QED BY <2>1 DEF Effect
<1> DEFINE start == EarliestStart(c, issue)
           completion == start + WriteCycles[c]
<1>4. CASE /\ lines[l].present /\ lines[l].class = c /\ Scheduled(c, completion)
           /\ lines' = [lines EXCEPT ![l] = Rewritten(l, c, completion)]
           /\ operation' = Done(start, completion) /\ UNCHANGED <<used, fault>>
  <2>1. start \in Nat /\ completion \in Nat /\ completion >= channelReady[c][Soonest(c)]
    <3>1. start \in Nat /\ start >= channelReady[c][Soonest(c)] BY StartsLate
    <3>2. channelReady[c][Soonest(c)] \in Nat BY SoonestIsFirst DEF MemoryTypeOK
    <3>3. WriteCycles[c] \in Nat BY ProfileAssumption
    <3> HIDE DEF start
    <3> QED BY <3>1, <3>2, <3>3
  <2> HIDE DEF completion, start
  <2>2. Served(l) BY <1>4, <2>1, RewriteServes
  <2>3. Answered BY <1>1, <1>4, <2>1, Answers DEF Answered
  <2> QED BY <2>2, <2>3 DEF Effect
<1> QED BY <1>2, <1>3, <1>4 DEF WriteLine

\* A refresh.
LEMMA RefreshServes ==
  ASSUME MemoryTypeOK, NEW l \in Line, NEW issue \in Nat, RefreshLine(l, issue)
  PROVE  Effect(l) /\ Answered
<1>1. lines[l].class \in Class /\ operation \in Operation /\ fault \in Faults
  BY DEF MemoryTypeOK, LineState, Faults
<1>2. CASE Missing(l, issue) \/ (operation' = Done(issue, issue) /\ UNCHANGED <<lines, bankVars, fault>>)
  <2>1. Nothing BY <1>2 DEF Missing, Nothing
  <2>2. Answered BY <1>1, <1>2, Answers DEF Missing, Answered, Failures
  <2> QED BY <2>1, <2>2 DEF Effect
<1> DEFINE c == lines[l].class
           start == EarliestStart(c, issue)
           completion == start + ReadCycles[c] + WriteCycles[c]
<1>3. CASE /\ Live(l) /\ Scheduled(c, completion) /\ UNCHANGED used
           /\ \/ Fails(l, start)
              \/ /\ Survives(l, start)
                 /\ lines' = [lines EXCEPT ![l] = Rewritten(l, c, completion)]
                 /\ operation' = Done(start, completion) /\ UNCHANGED fault
  <2>1. /\ start \in Nat /\ completion \in Nat /\ start <= completion
        /\ completion >= channelReady[c][Soonest(c)]
    <3>1. start \in Nat /\ start >= channelReady[c][Soonest(c)] BY <1>1, StartsLate
    <3>2. channelReady[c][Soonest(c)] \in Nat BY <1>1, SoonestIsFirst DEF MemoryTypeOK
    <3>3. ReadCycles[c] \in Nat /\ WriteCycles[c] \in Nat BY <1>1, ProfileAssumption
    <3> HIDE DEF start
    <3> QED BY <3>1, <3>2, <3>3
  <2> HIDE DEF completion, start
  <2>2. CASE Fails(l, start)
    BY <1>3, <2>1, <2>2, FailureServes DEF Effect
  <2>3. CASE /\ lines' = [lines EXCEPT ![l] = Rewritten(l, c, completion)]
             /\ operation' = Done(start, completion) /\ UNCHANGED fault
    <3>1. Served(l) BY <1>3, <2>1, <2>3, RewriteServes DEF Live
    <3>2. Answered BY <1>1, <2>1, <2>3, Answers DEF Answered
    <3> QED BY <3>1, <3>2 DEF Effect
  <2> QED BY <1>3, <2>2, <2>3
<1> QED BY <1>2, <1>3 DEF RefreshLine

\* A migration to another class, of a line with data.
LEMMA TransferMoves ==
  ASSUME MemoryTypeOK, NEW l \in Line, NEW d \in Class, NEW issue \in Nat, Live(l),
         lines[l].class # d, CanFit(d, 1), Transfer(l, d, issue)
  PROVE  Effect(l) /\ Answered
<1>1. lines[l].class \in Class /\ operation \in Operation /\ fault \in Faults
  BY DEF MemoryTypeOK, LineState, Faults
<1> DEFINE c == lines[l].class
           start == EarliestStart(c, issue)
           read == start + ReadCycles[c]
           written == EarliestStart(d, read + MigrationSetup)
           completion == written + WriteCycles[d]
<1>2. start \in Nat /\ read \in Nat /\ start <= read /\ channelReady[c][Soonest(c)] <= read
  <2>1. start \in Nat /\ start >= channelReady[c][Soonest(c)] BY <1>1, StartsLate
  <2>2. channelReady[c][Soonest(c)] \in Nat BY <1>1, SoonestIsFirst DEF MemoryTypeOK
  <2>3. ReadCycles[c] \in Nat BY <1>1, ProfileAssumption
  <2> HIDE DEF start
  <2> QED BY <2>1, <2>2, <2>3
<1>3. completion \in Nat /\ read <= completion /\ channelReady[d][Soonest(d)] <= completion
  <2> HIDE DEF read
  <2>1. read + MigrationSetup \in Nat /\ read + MigrationSetup >= read
    BY <1>2, ProfileAssumption
  <2>2. /\ written \in Nat /\ written >= read + MigrationSetup
        /\ written >= channelReady[d][Soonest(d)]
    BY <2>1, StartsLate
  <2>3. channelReady[d][Soonest(d)] \in Nat BY SoonestIsFirst DEF MemoryTypeOK
  <2>4. WriteCycles[d] \in Nat BY ProfileAssumption
  <2> HIDE DEF written
  <2> QED BY <1>2, <2>1, <2>2, <2>3, <2>4
<1>4. \/ Scheduled(c, read) /\ Fails(l, start) /\ UNCHANGED used
      \/ /\ channelReady' = Occupies(Occupies(channelReady, c, read), d, completion)
         /\ makespan' = Later(makespan, completion)
         /\ lines' = [lines EXCEPT ![l] = Rewritten(l, d, completion)]
         /\ Moved(c, d)
         /\ operation' = Done(start, completion) /\ UNCHANGED fault
  BY DEF Transfer
<1> HIDE DEF completion, read, start
<1>5. CASE Scheduled(c, read) /\ Fails(l, start) /\ UNCHANGED used
  BY <1>2, <1>5, FailureServes DEF Effect
<1>6. CASE /\ channelReady' = Occupies(Occupies(channelReady, c, read), d, completion)
           /\ makespan' = Later(makespan, completion)
           /\ lines' = [lines EXCEPT ![l] = Rewritten(l, d, completion)]
           /\ Moved(c, d)
           /\ operation' = Done(start, completion) /\ UNCHANGED fault
  <2>1. MovedData(l, d) BY <1>2, <1>3, <1>6 DEF MovedData, BothScheduled
  <2>2. MovedTo(l, d) BY <1>6, <2>1 DEF MovedTo, Live
  <2>3. Answered BY <1>1, <1>2, <1>3, <1>6, Answers DEF Answered
  <2> QED BY <2>2, <2>3 DEF Effect
<1> QED BY <1>4, <1>5, <1>6

\* A migration.
LEMMA MigrateMoves ==
  ASSUME MemoryTypeOK, NEW l \in Line, NEW d \in Class, NEW issue \in Nat, MigrateLine(l, d, issue)
  PROVE  Effect(l) /\ Answered
<1>1. operation \in Operation /\ fault \in Faults BY DEF MemoryTypeOK, Faults
<1>2. CASE ~lines[l].present
  <2>1. Missing(l, issue) BY <1>2 DEF MigrateLine
  <2>2. Nothing /\ Answered BY <1>1, <2>1, Answers DEF Missing, Nothing, Answered, Failures
  <2> QED BY <2>2 DEF Effect
<1>3. CASE lines[l].present /\ lines[l].class = d
  BY <1>3, RefreshServes DEF MigrateLine
<1>4. CASE lines[l].present /\ lines[l].class # d
  <2>1. CASE operation' = Refused("Capacity", issue) /\ UNCHANGED <<lines, bankVars, fault>>
    <3>1. Nothing /\ Answered BY <1>1, <2>1, Answers DEF Nothing, Answered, Failures
    <3> QED BY <3>1 DEF Effect
  <2>2. CASE /\ CanFit(d, 1) /\ ~lines[l].initialized
             /\ lines' = [lines EXCEPT ![l] = [@ EXCEPT !.class = d, !.failed = FALSE]]
             /\ Moved(lines[l].class, d)
             /\ operation' = Done(issue, issue) /\ UNCHANGED <<channelReady, makespan, fault>>
    <3>1. MovedTo(l, d) BY <1>4, <2>2 DEF MovedTo, MovedBlank
    <3>2. Answered BY <1>1, <2>2, Answers DEF Answered
    <3> QED BY <3>1, <3>2 DEF Effect
  <2>3. CASE CanFit(d, 1) /\ lines[l].initialized /\ Transfer(l, d, issue)
    BY <1>4, <2>3, TransferMoves DEF Live
  <2> QED BY <1>4, <2>1, <2>2, <2>3 DEF MigrateLine
<1> QED BY <1>2, <1>3, <1>4

-----------------------------------------------------------------------------
\* What every effect preserves.

\* The dates of one line.
DatedWell(rec) ==
  /\ rec.lastWrite <= makespan /\ rec.lastCheck <= makespan
  /\ ~rec.initialized => rec.lastWrite = 0 /\ rec.lastCheck = 0
  /\ Channels[rec.class] = 1 => /\ rec.lastWrite <= channelReady[rec.class][1]
                                /\ rec.lastCheck <= channelReady[rec.class][1]

WellDated == \A l \in Line : DatedWell(lines[l])

LEMMA LaterBelow ==
  ASSUME NEW s \in Nat, NEW t \in Nat, NEW n \in Nat
  PROVE  Later(s, t) <= n <=> s <= n /\ t <= n
BY DEF Later

LEMMA DatesByLine == MemoryTypeOK => (Dates <=> WellDated)
<1> SUFFICES ASSUME MemoryTypeOK PROVE Dates <=> WellDated OBVIOUS
<1>1. \A l \in Line : lines[l].lastWrite \in Nat /\ lines[l].lastCheck \in Nat
                      /\ lines[l].class \in Class
  BY DEF MemoryTypeOK, LineState
<1>2. \A c \in Class : channelReady[c][1] \in Nat
  <2>1. \A c \in Class : 1 \in 1..Channels[c] BY ProfileAssumption
  <2> QED BY <2>1 DEF MemoryTypeOK
<1>3. ASSUME NEW l \in Line
      PROVE  DatedWell(lines[l]) <=>
               /\ lines[l].lastWrite <= makespan /\ lines[l].lastCheck <= makespan
               /\ ~lines[l].initialized => lines[l].lastWrite = 0 /\ lines[l].lastCheck = 0
               /\ LET c == lines[l].class IN
                  Channels[c] = 1 => CheckedFrom(l) <= channelReady[c][1]
  <2> DEFINE free == channelReady[lines[l].class][1]
  <2>1. free \in Nat BY <1>1, <1>2
  <2>2. CheckedFrom(l) <= free <=> lines[l].lastWrite <= free /\ lines[l].lastCheck <= free
    BY <1>1, <2>1, LaterBelow DEF CheckedFrom
  <2> QED BY <2>2 DEF DatedWell
<1> QED BY <1>3 DEF WellDated, Dates, LinesDated, BlankUndated, SingleChannelOrdered

\* One line is changed to rec, the others keep their dates as time advances.
LEMMA DatesKept ==
  ASSUME MemoryTypeOK, MemoryTypeOK', Dates, Advances, NEW l \in Line, NEW rec \in LineState,
         lines' = [lines EXCEPT ![l] = rec], DatedWell(rec)'
  PROVE  Dates'
<1>1. \A k \in Line : DatedWell(lines[k]) BY DatesByLine DEF WellDated
<1>2. \A k \in Line : lines[k].class \in Class /\ lines[k] \in LineState BY DEF MemoryTypeOK, LineState
<1>3. \A k \in Line : lines'[k] = IF k = l THEN rec ELSE lines[k] BY DEF MemoryTypeOK
<1>4. ASSUME NEW k \in Line PROVE DatedWell(lines[k])'
  <2>1. CASE k = l
    <3>1. lines[k]' = rec BY <1>3, <2>1
    <3> QED BY <3>1 DEF DatedWell
  <2>2. CASE k # l
    <3>1. lines[k]' = lines[k] BY <1>3, <2>2
    <3>2. lines[k].lastWrite \in Nat /\ lines[k].lastCheck \in Nat BY <1>2 DEF LineState
    <3>3. makespan \in Nat /\ makespan' \in Nat /\ makespan <= makespan'
      BY DEF MemoryTypeOK, Advances
    <3> DEFINE c == lines[k].class
    <3>4. Channels[c] = 1 => /\ channelReady[c][1] \in Nat /\ channelReady'[c][1] \in Nat
                            /\ channelReady[c][1] <= channelReady'[c][1]
      BY <1>2 DEF MemoryTypeOK, Advances
    <3>5. DatedWell(lines[k]) BY <1>1
    <3> QED BY <3>1, <3>2, <3>3, <3>4, <3>5 DEF DatedWell
  <2> QED BY <2>1, <2>2
<1>5. WellDated' BY <1>4 DEF WellDated
<1> QED BY <1>5, DatesByLine, PTL

\* The counts of lines follow what the banks hold.
LEMMA HeldFinite ==
  ASSUME NEW S \in SUBSET Line, NEW c \in Class
  PROVE  IsFiniteSet(HeldIn(S, c)) /\ HeldIn(S, c) \subseteq Line /\ Cardinality(HeldIn(S, c)) \in Nat
<1>1. IsFiniteSet(Line) /\ HeldIn(S, c) \in SUBSET Line BY ProfileAssumption DEF HeldIn
<1>2. IsFiniteSet(HeldIn(S, c)) BY <1>1, FS_Subset
<1> QED BY <1>1, <1>2, FS_CardinalityType

LEMMA ServedGood ==
  ASSUME IInv, NEW l \in Line, Served(l), Answered, UNCHANGED error_mode
  PROVE  IInv'
<1> DEFINE c == lines[l].class
<1>1. MemoryTypeOK /\ UsageExact /\ LastChannel /\ Dates BY DEF IInv
<1>2. c \in Class BY <1>1 DEF MemoryTypeOK, LineState
<1>3. PICK completion \in Nat, rec \in LineState :
        /\ completion >= channelReady[c][Soonest(c)]
        /\ Scheduled(c, completion) /\ UNCHANGED used
        /\ lines' = [lines EXCEPT ![l] = rec]
        /\ rec.present /\ lines[l].present /\ rec.class = c /\ rec.initialized
        /\ \/ lines[l].initialized /\ rec.lastWrite = lines[l].lastWrite
           \/ rec.lastWrite = completion
        /\ \/ lines[l].initialized /\ rec.lastCheck = lines[l].lastCheck
           \/ rec.lastCheck \in Nat /\ rec.lastCheck <= completion
  BY DEF Served
<1>4. /\ Advances /\ completion <= makespan'
      /\ Channels[c] = 1 => channelReady'[c][1] = completion
  <2>1. Soonest(c) \in 1..Channels[c] BY <1>1, <1>2, SoonestIsFirst
  <2>2. channelReady[c][Soonest(c)] \in Nat BY <1>1, <1>2, <2>1 DEF MemoryTypeOK
  <2>3. channelReady[c][Soonest(c)] <= completion BY <1>3, <2>2
  <2> HIDE DEF c
  <2> QED BY <1>1, <1>2, <1>3, <2>3, OneCommand
<1>5. MemoryTypeOK'
  BY <1>1, <1>3, <1>4 DEF MemoryTypeOK, Advances, Answered, Faults
<1>6. UsageExact'
  <2>1. \A k \in Line : lines'[k].present = lines[k].present /\ lines'[k].class = lines[k].class
    BY <1>1, <1>3 DEF MemoryTypeOK
  <2>2. \A d \in Class : HeldIn(Line, d)' = HeldIn(Line, d) BY <2>1 DEF HeldIn
  <2> QED BY <1>1, <1>3, <2>2 DEF UsageExact
<1>7. DatedWell(rec)'
  <2>1. DatedWell(lines[l]) /\ lines[l] \in LineState
    BY <1>1, DatesByLine DEF WellDated, MemoryTypeOK
  <2>2. rec.lastWrite \in Nat /\ rec.lastCheck \in Nat
        /\ lines[l].lastWrite \in Nat /\ lines[l].lastCheck \in Nat BY <2>1 DEF LineState
  <2>3. makespan \in Nat /\ makespan' \in Nat /\ makespan <= makespan'
    BY <1>1, <1>4 DEF MemoryTypeOK, Advances
  <2>4. rec.lastWrite <= makespan' /\ rec.lastCheck <= makespan'
    BY <1>3, <1>4, <2>1, <2>2, <2>3 DEF DatedWell
  <2>5. ASSUME Channels[c] = 1
        PROVE  rec.lastWrite <= channelReady'[c][1] /\ rec.lastCheck <= channelReady'[c][1]
    <3>1. channelReady[c][1] \in Nat /\ channelReady[c][1] <= completion
      <4>1. Soonest(c) = 1 BY <1>1, <1>2, <2>5, SoonestIsFirst
      <4>2. 1 \in 1..Channels[c] BY <2>5
      <4> QED BY <1>1, <1>2, <1>3, <4>1, <4>2 DEF MemoryTypeOK
    <3>2. lines[l].lastWrite <= channelReady[c][1] /\ lines[l].lastCheck <= channelReady[c][1]
      BY <2>1, <2>5 DEF DatedWell
    <3>3. rec.lastWrite <= completion /\ rec.lastCheck <= completion
      BY <1>3, <2>2, <3>1, <3>2
    <3> QED BY <1>4, <2>5, <3>3
  <2> QED BY <1>3, <2>4, <2>5 DEF DatedWell
<1>8. Dates' BY <1>1, <1>3, <1>4, <1>5, <1>7, DatesKept
<1>9. LastChannel' BY <1>4 DEF Advances
<1> QED BY <1>5, <1>6, <1>8, <1>9 DEF IInv

\* One line more there, one line less here.
LEMMA MovedUsage ==
  ASSUME MemoryTypeOK, UsageExact, NEW l \in Line, NEW c \in Class, NEW d \in Class,
         lines[l].present, lines[l].class = c, c # d, CanFit(d, 1), Moved(c, d),
         \A k \in Line : lines'[k].present = lines[k].present
                       /\ lines'[k].class = IF k = l THEN d ELSE lines[k].class
  PROVE  UsageExact' /\ used' \in [Class -> Nat]
<1>1. used \in [Class -> Nat] BY DEF MemoryTypeOK
<1>2. l \in HeldIn(Line, c) /\ l \notin HeldIn(Line, d) BY DEF HeldIn
<1>3. HeldIn(Line, c)' = HeldIn(Line, c) \ {l} BY DEF HeldIn
<1>4. HeldIn(Line, d)' = HeldIn(Line, d) \cup {l} BY DEF HeldIn
<1>5. \A e \in Class \ {c, d} : HeldIn(Line, e)' = HeldIn(Line, e) BY DEF HeldIn
<1>6. Cardinality(HeldIn(Line, c)') = used[c] - 1 /\ used[c] - 1 \in Nat
      /\ used[c] - 1 <= CapacityLines[c]
  <2>1. IsFiniteSet(HeldIn(Line, c)) /\ HeldIn(Line, c) # {} BY <1>2, HeldFinite
  <2>2. Cardinality(HeldIn(Line, c)') = Cardinality(HeldIn(Line, c)) - 1
    BY <1>2, <1>3, <2>1, FS_RemoveElement
  <2>3. Cardinality(HeldIn(Line, c)) = used[c] /\ used[c] <= CapacityLines[c] BY DEF UsageExact
  <2>4. Cardinality(HeldIn(Line, c)) # 0 BY <2>1, FS_EmptySet
  <2>5. used[c] \in Nat /\ CapacityLines[c] \in Nat BY <1>1, ProfileAssumption
  <2> QED BY <2>2, <2>3, <2>4, <2>5
<1>7. Cardinality(HeldIn(Line, d)') = used[d] + 1 /\ used[d] + 1 \in Nat
      /\ used[d] + 1 <= CapacityLines[d]
  <2>1. IsFiniteSet(HeldIn(Line, d)) BY HeldFinite
  <2>2. Cardinality(HeldIn(Line, d)') = Cardinality(HeldIn(Line, d)) + 1
    BY <1>2, <1>4, <2>1, FS_AddElement
  <2>3. Cardinality(HeldIn(Line, d)) = used[d] BY DEF UsageExact
  <2> QED BY <1>1, <2>2, <2>3 DEF CanFit
<1>8. used' = [used EXCEPT ![c] = used[c] - 1, ![d] = used[d] + 1] BY DEF Moved
<1>9. used'[c] = used[c] - 1 /\ used'[d] = used[d] + 1 /\ used' \in [Class -> Nat]
      /\ \A e \in Class \ {c, d} : used'[e] = used[e]
  BY <1>1, <1>6, <1>7, <1>8
<1>10. \A e \in Class : used'[e] = Cardinality(HeldIn(Line, e)') /\ used'[e] <= CapacityLines[e]
  <2> SUFFICES ASSUME NEW e \in Class
               PROVE  used'[e] = Cardinality(HeldIn(Line, e)') /\ used'[e] <= CapacityLines[e]
    OBVIOUS
  <2>1. CASE e = c BY <1>6, <1>9, <2>1
  <2>2. CASE e = d BY <1>7, <1>9, <2>2
  <2>3. CASE e \in Class \ {c, d}
    <3>1. HeldIn(Line, e)' = HeldIn(Line, e) /\ used'[e] = used[e] BY <1>5, <1>9, <2>3
    <3> QED BY <3>1 DEF UsageExact
  <2> QED BY <2>1, <2>2, <2>3
<1> QED BY <1>9, <1>10 DEF UsageExact

LEMMA MovedGood ==
  ASSUME IInv, NEW l \in Line, NEW d \in Class, MovedTo(l, d), Answered, UNCHANGED error_mode
  PROVE  IInv'
<1>1. MemoryTypeOK /\ UsageExact /\ LastChannel /\ Dates BY DEF IInv
<1>2. lines[l] \in LineState BY <1>1 DEF MemoryTypeOK
<1>3. PICK c \in Class : c = lines[l].class BY <1>2 DEF LineState
<1>4. /\ lines[l].present /\ c # d /\ CanFit(d, 1) /\ Moved(c, d)
      /\ MovedBlank(l, d) \/ MovedData(l, d)
  BY <1>3 DEF MovedTo
<1>5. \E rec \in LineState :
        /\ lines' = [lines EXCEPT ![l] = rec] /\ rec.present /\ rec.class = d
        /\ DatedWell(rec)' /\ Advances
  <2>1. CASE MovedBlank(l, d)
    <3>0. PICK rec : rec = [lines[l] EXCEPT !.class = d, !.failed = FALSE] OBVIOUS
    <3>1. lines' = [lines EXCEPT ![l] = rec] /\ UNCHANGED <<channelReady, makespan>>
      BY <2>1, <3>0 DEF MovedBlank
    <3>2. /\ rec \in LineState /\ rec.present /\ rec.class = d
          /\ rec.lastWrite = lines[l].lastWrite /\ rec.lastCheck = lines[l].lastCheck
      BY <1>2, <1>4, <3>0 DEF LineState
    <3>3. rec.lastWrite = 0 /\ rec.lastCheck = 0
      BY <1>1, <2>1, <3>2 DEF Dates, BlankUndated, MovedBlank
    <3>4. makespan \in Nat /\ Channels[d] \in Nat \ {0} BY <1>1, ProfileAssumption DEF MemoryTypeOK
    <3>5. Channels[d] = 1 => channelReady[d][1] \in Nat
      <4>1. 1 \in 1..Channels[d] BY <3>4
      <4> QED BY <1>1, <4>1 DEF MemoryTypeOK
    <3>6. DatedWell(rec)' BY <3>1, <3>2, <3>3, <3>4, <3>5 DEF DatedWell
    <3>7. Advances
      <4>1. /\ DOMAIN channelReady = Class
            /\ \A e \in Class : channelReady[e] \in [1..Channels[e] -> Nat] BY <1>1 DEF MemoryTypeOK
      <4>2. \A e \in Class : \A i \in 1..Channels[e] : channelReady[e][i] <= channelReady[e][i]
        <5> SUFFICES ASSUME NEW e \in Class, NEW i \in 1..Channels[e]
                     PROVE  channelReady[e][i] <= channelReady[e][i]
          OBVIOUS
        <5>1. channelReady[e][i] \in Nat BY <4>1
        <5> QED BY <5>1
      <4> QED BY <1>1, <3>1, <3>4, <4>1, <4>2 DEF Advances, LastChannel
    <3> QED BY <3>1, <3>2, <3>6, <3>7
  <2>2. CASE MovedData(l, d)
    <3>1. PICK read \in Nat, completion \in Nat :
            /\ channelReady[c][Soonest(c)] <= read /\ read <= completion
            /\ channelReady[d][Soonest(d)] <= completion
            /\ BothScheduled(c, read, d, completion)
            /\ lines' = [lines EXCEPT ![l] = Rewritten(l, d, completion)]
      BY <1>3, <2>2 DEF MovedData
    <3>2. /\ Advances /\ completion <= makespan'
          /\ Channels[d] = 1 => channelReady'[d][1] = completion
      BY <1>1, <1>4, <3>1, TwoCommands
    <3>3. PICK rec : rec = Rewritten(l, d, completion) OBVIOUS
    <3>4. /\ rec \in LineState /\ rec.initialized /\ rec.present /\ rec.class = d
          /\ rec.lastWrite = completion /\ rec.lastCheck = completion
      BY <1>1, <1>4, <3>3, RewrittenLine
    <3>5. DatedWell(rec)' BY <3>2, <3>4 DEF DatedWell
    <3> QED BY <3>1, <3>2, <3>3, <3>4, <3>5
  <2> QED BY <1>4, <2>1, <2>2
<1>6. PICK rec \in LineState :
        /\ lines' = [lines EXCEPT ![l] = rec] /\ rec.present /\ rec.class = d
        /\ DatedWell(rec)' /\ Advances
  BY <1>5
<1>7. UsageExact' /\ used' \in [Class -> Nat]
  <2>1. \A k \in Line : lines'[k].present = lines[k].present
                      /\ lines'[k].class = IF k = l THEN d ELSE lines[k].class
    BY <1>1, <1>4, <1>6 DEF MemoryTypeOK
  <2> QED BY <1>1, <1>3, <1>4, <2>1, MovedUsage
<1>8. MemoryTypeOK' BY <1>1, <1>6, <1>7 DEF MemoryTypeOK, Advances, Answered, Faults
<1>9. Dates' BY <1>1, <1>6, <1>8, DatesKept
<1> QED BY <1>6, <1>7, <1>8, <1>9 DEF IInv, Advances

-----------------------------------------------------------------------------
\* Ranges of lines come and go.

LEMMA RangeFinite ==
  ASSUME NEW first \in Nat, NEW n \in Nat
  PROVE  IsFiniteSet(Lines(first, n)) /\ Cardinality(Lines(first, n)) = n
<1>1. first \in Int /\ first + n - 1 \in Int OBVIOUS
<1>2. IsFiniteSet(first .. (first + n - 1)) BY <1>1, FS_Interval
<1>3. Cardinality(first .. (first + n - 1)) =
        IF first > first + n - 1 THEN 0 ELSE first + n - 1 - first + 1
  BY <1>1, FS_Interval
<1> QED BY <1>2, <1>3 DEF Lines

LEMMA ReserveGood ==
  ASSUME IInv, NEW first \in Nat, NEW n \in Nat, NEW c \in Class,
         Lines(first, n) \subseteq Line, Reserve(first, n, c)
  PROVE  IInv'
<1>1. MemoryTypeOK /\ UsageExact /\ LastChannel /\ Dates BY DEF IInv
<1>2. CASE UNCHANGED memoryVars
  BY <1>1, <1>2 DEF IInv, memoryVars, bankVars, MemoryTypeOK, UsageExact, HeldIn, LastChannel,
     Dates, LinesDated, BlankUndated, SingleChannelOrdered, CheckedFrom
<1>3. CASE /\ \E l \in Lines(first, n) : lines[l].present
           /\ fault' = "overlap"
           /\ UNCHANGED <<lines, used, channelReady, makespan, operation, error_mode>>
  BY <1>1, <1>3 DEF IInv, MemoryTypeOK, UsageExact, HeldIn, LastChannel,
     Dates, LinesDated, BlankUndated, SingleChannelOrdered, CheckedFrom
<1>4. CASE /\ CanFit(c, n) /\ ~\E l \in Lines(first, n) : lines[l].present
           /\ lines' = [l \in Line |-> IF l \in Lines(first, n) THEN Fresh(c) ELSE lines[l]]
           /\ used' = [used EXCEPT ![c] = @ + n]
           /\ UNCHANGED <<fault, channelReady, makespan, operation, error_mode>>
  <2>1. /\ Fresh(c) \in LineState /\ Fresh(c).present /\ Fresh(c).class = c
        /\ Fresh(c).lastWrite = 0 /\ Fresh(c).lastCheck = 0
    BY DEF Fresh, Gone, LineState, Class, Ephemeral, Epoch, Durable
  <2>2. used[c] \in Nat /\ CapacityLines[c] \in Nat /\ used[c] + n <= CapacityLines[c]
    BY <1>1, <1>4, ProfileAssumption DEF MemoryTypeOK, CanFit
  <2>3. MemoryTypeOK' BY <1>1, <1>4, <2>1, <2>2 DEF MemoryTypeOK
  <2>4. \A l \in Line : lines'[l] = IF l \in Lines(first, n) THEN Fresh(c) ELSE lines[l] BY <1>4
  <2>5. UsageExact'
    <3>1. HeldIn(Line, c)' = HeldIn(Line, c) \cup Lines(first, n)
          /\ HeldIn(Line, c) \cap Lines(first, n) = {}
      BY <1>4, <2>1, <2>4 DEF HeldIn
    <3>2. IsFiniteSet(HeldIn(Line, c)) /\ Cardinality(HeldIn(Line, c)) \in Nat BY HeldFinite
    <3>3. IsFiniteSet(Lines(first, n)) /\ Cardinality(Lines(first, n)) = n BY RangeFinite
    <3>4. Cardinality(HeldIn(Line, c) \cup Lines(first, n)) =
            Cardinality(HeldIn(Line, c)) + Cardinality(Lines(first, n))
            - Cardinality(HeldIn(Line, c) \cap Lines(first, n))
      BY <3>2, <3>3, FS_Union
    <3>5. Cardinality(HeldIn(Line, c) \cap Lines(first, n)) = 0 BY <3>1, FS_EmptySet
    <3>6. Cardinality(HeldIn(Line, c)') = used[c] + n BY <1>1, <3>1, <3>2, <3>3, <3>4, <3>5 DEF UsageExact
    <3>7. ASSUME NEW d \in Class
          PROVE  used'[d] = Cardinality(HeldIn(Line, d)') /\ used'[d] <= CapacityLines[d]
      <4>1. CASE d = c
        <5>1. used'[c] = used[c] + n BY <1>1, <1>4 DEF MemoryTypeOK
        <5> QED BY <2>2, <3>6, <4>1, <5>1
      <4>2. CASE d # c
        <5>1. HeldIn(Line, d)' = HeldIn(Line, d) BY <1>4, <2>1, <2>4, <4>2 DEF HeldIn
        <5>2. used'[d] = used[d] BY <1>1, <1>4, <4>2 DEF MemoryTypeOK
        <5> QED BY <1>1, <5>1, <5>2 DEF UsageExact
      <4> QED BY <4>1, <4>2
    <3> QED BY <3>7 DEF UsageExact
  <2>6. LastChannel' BY <1>1, <1>4 DEF LastChannel
  <2>7. Dates'
    <3>1. \A l \in Line : DatedWell(lines[l]) BY <1>1, DatesByLine DEF WellDated
    <3>2. makespan \in Nat BY <1>1 DEF MemoryTypeOK
    <3>3. Channels[c] = 1 => channelReady[c][1] \in Nat
      <4>1. 1 \in 1..Channels[c] BY ProfileAssumption
      <4> QED BY <1>1, <4>1 DEF MemoryTypeOK
    <3>4. DatedWell(Fresh(c)) BY <2>1, <3>2, <3>3 DEF DatedWell
    <3>5. ASSUME NEW l \in Line PROVE DatedWell(lines[l])'
      <4>1. DatedWell(lines'[l]) BY <2>4, <3>1, <3>4
      <4> QED BY <1>4, <4>1 DEF DatedWell
    <3>6. WellDated' BY <3>5 DEF WellDated
    <3> QED BY <2>3, <3>6, DatesByLine, PTL
  <2> QED BY <2>3, <2>5, <2>6, <2>7 DEF IInv
<1> QED BY <1>2, <1>3, <1>4 DEF Reserve

LEMMA ReleaseGood ==
  ASSUME IInv, NEW first \in Nat, NEW n \in Nat, Lines(first, n) \subseteq Line, Release(first, n)
  PROVE  IInv'
<1>1. MemoryTypeOK /\ UsageExact /\ LastChannel /\ Dates BY DEF IInv
<1> DEFINE leaving(c) == HeldIn(Lines(first, n), c)
<1>2. ASSUME NEW c \in Class
      PROVE  /\ IsFiniteSet(leaving(c)) /\ Cardinality(leaving(c)) \in Nat
             /\ Cardinality(leaving(c)) <= used[c]
             /\ Cardinality(HeldIn(Line, c) \ leaving(c)) = used[c] - Cardinality(leaving(c))
  <2>1. IsFiniteSet(leaving(c)) /\ Cardinality(leaving(c)) \in Nat BY HeldFinite
  <2>2. IsFiniteSet(HeldIn(Line, c)) /\ Cardinality(HeldIn(Line, c)) \in Nat BY HeldFinite
  <2>3. leaving(c) \subseteq HeldIn(Line, c) BY DEF HeldIn
  <2>4. Cardinality(leaving(c)) <= Cardinality(HeldIn(Line, c)) BY <2>2, <2>3, FS_Subset
  <2>5. leaving(c) = HeldIn(Line, c) \cap leaving(c) BY <2>3
  <2>6. Cardinality(HeldIn(Line, c) \ leaving(c)) =
          Cardinality(HeldIn(Line, c)) - Cardinality(HeldIn(Line, c) \cap leaving(c))
    BY <2>1, <2>2, FS_Difference
  <2>7. used[c] = Cardinality(HeldIn(Line, c)) BY <1>1 DEF UsageExact
  <2> HIDE DEF leaving
  <2> QED BY <2>1, <2>4, <2>5, <2>6, <2>7
<1>3. \A c \in Class : ~(used[c] < Cardinality(leaving(c)))
  <2> SUFFICES ASSUME NEW c \in Class PROVE ~(used[c] < Cardinality(leaving(c))) OBVIOUS
  <2>1. used[c] \in Nat BY <1>1 DEF MemoryTypeOK
  <2>2. PICK m \in Nat : m = Cardinality(leaving(c)) /\ m <= used[c] BY <1>2
  <2> QED BY <2>1, <2>2
<1>4. /\ lines' = [l \in Line |-> IF l \in Lines(first, n) THEN Gone ELSE lines[l]]
      /\ used' = [c \in Class |-> used[c] - Cardinality(leaving(c))]
      /\ UNCHANGED <<fault, channelReady, makespan, operation, error_mode>>
  BY <1>3 DEF Release
<1>5. \A l \in Line : lines'[l] = IF l \in Lines(first, n) THEN Gone ELSE lines[l] BY <1>4
<1>6. /\ Gone \in LineState /\ ~Gone.present /\ Gone.lastWrite = 0 /\ Gone.lastCheck = 0
  BY DEF Gone, LineState, Class, Ephemeral, Epoch, Durable
<1>7. \A c \in Class : used'[c] \in Nat /\ used'[c] <= used[c]
                       /\ used'[c] = used[c] - Cardinality(leaving(c))
  <2> SUFFICES ASSUME NEW c \in Class
               PROVE  /\ used'[c] \in Nat /\ used'[c] <= used[c]
                      /\ used'[c] = used[c] - Cardinality(leaving(c))
    OBVIOUS
  <2>1. used[c] \in Nat BY <1>1 DEF MemoryTypeOK
  <2>2. used'[c] = used[c] - Cardinality(leaving(c)) BY <1>4
  <2>3. PICK m \in Nat : m = Cardinality(leaving(c)) /\ m <= used[c] BY <1>2
  <2> QED BY <2>1, <2>2, <2>3
<1>8. MemoryTypeOK'
  <2>1. used' \in [Class -> Nat] BY <1>4, <1>7
  <2> HIDE DEF leaving
  <2> QED BY <1>1, <1>4, <1>6, <2>1 DEF MemoryTypeOK
<1>9. UsageExact'
  <2>1. ASSUME NEW c \in Class
        PROVE  used'[c] = Cardinality(HeldIn(Line, c)') /\ used'[c] <= CapacityLines[c]
    <3>1. HeldIn(Line, c)' = HeldIn(Line, c) \ leaving(c) BY <1>5, <1>6 DEF HeldIn
    <3>2. used[c] \in Nat /\ used[c] <= CapacityLines[c] /\ CapacityLines[c] \in Nat
      BY <1>1, ProfileAssumption DEF MemoryTypeOK, UsageExact
    <3> HIDE DEF leaving
    <3> QED BY <1>2, <1>7, <3>1, <3>2
  <2> QED BY <2>1 DEF UsageExact
<1>10. LastChannel' BY <1>1, <1>4 DEF LastChannel
<1>11. Dates'
  <2>1. \A l \in Line : DatedWell(lines[l]) BY <1>1, DatesByLine DEF WellDated
  <2>2. makespan \in Nat BY <1>1 DEF MemoryTypeOK
  <2>3. Channels[Gone.class] = 1 => channelReady[Gone.class][1] \in Nat
    <3>1. Gone.class \in Class BY <1>6 DEF LineState
    <3>2. 1 \in 1..Channels[Gone.class] BY <3>1, ProfileAssumption
    <3> QED BY <1>1, <3>1, <3>2 DEF MemoryTypeOK
  <2>4. DatedWell(Gone) BY <1>6, <2>2, <2>3 DEF DatedWell
  <2>5. ASSUME NEW l \in Line PROVE DatedWell(lines[l])'
    <3>1. DatedWell(lines'[l]) BY <1>5, <2>1, <2>4
    <3> QED BY <1>4, <3>1 DEF DatedWell
  <2>6. WellDated' BY <2>5 DEF WellDated
  <2> QED BY <1>8, <2>6, DatesByLine, PTL
<1> QED BY <1>8, <1>9, <1>10, <1>11 DEF IInv

-----------------------------------------------------------------------------
\* An empty memory.
LEMMA InitGood == MemoryInit => IInv
<1> SUFFICES ASSUME MemoryInit PROVE IInv OBVIOUS
<1>1. Gone \in LineState /\ Done(0, 0) \in Operation
  BY DEF Gone, Done, Operation, Failures, LineState, Class, Ephemeral, Epoch, Durable
<1>2. /\ \A l \in Line : lines[l] = Gone
      /\ \A c \in Class : used[c] = 0 /\ Channels[c] \in Nat \ {0} /\ CapacityLines[c] \in Nat
      /\ DOMAIN channelReady = Class /\ makespan = 0
      /\ \A c \in Class : /\ channelReady[c] \in [1..Channels[c] -> Nat]
                          /\ \A i \in 1..Channels[c] : channelReady[c][i] = 0
  BY ProfileAssumption DEF MemoryInit
<1>3. MemoryTypeOK BY <1>1, <1>2 DEF MemoryInit, MemoryTypeOK
<1>4. UsageExact
  <2>1. \A c \in Class : HeldIn(Line, c) = {} BY <1>2 DEF HeldIn, Gone
  <2>2. \A c \in Class : Cardinality(HeldIn(Line, c)) = 0
    <3>1. Cardinality({}) = 0 BY FS_EmptySet
    <3> QED BY <2>1, <3>1
  <2> QED BY <1>2, <2>2 DEF UsageExact
<1>5. LastChannel
  <2>1. 1 \in 1..Channels[Durable] /\ Durable \in Class BY <1>2 DEF Class
  <2> QED BY <1>2, <2>1 DEF LastChannel
<1>6. Dates
  <2>1. ASSUME NEW l \in Line PROVE DatedWell(lines[l])
    <3>1. lines[l] = Gone /\ Gone.class \in Class /\ Gone.lastWrite = 0 /\ Gone.lastCheck = 0
      BY <1>2 DEF Gone, Class, Ephemeral
    <3>2. Channels[Gone.class] = 1 => channelReady[Gone.class][1] = 0 BY <1>2, <3>1
    <3> QED BY <1>2, <3>1, <3>2 DEF DatedWell
  <2>2. WellDated BY <2>1 DEF WellDated
  <2> QED BY <1>3, <2>2, DatesByLine
<1> QED BY <1>3, <1>4, <1>5, <1>6 DEF IInv

\* No command, reservation or release breaks the invariant.
LEMMA NextGood == IInv /\ [MemoryNext]_memoryVars => IInv'
<1> SUFFICES ASSUME IInv, [MemoryNext]_memoryVars PROVE IInv' OBVIOUS
<1>1. MemoryTypeOK /\ UsageExact /\ LastChannel /\ Dates BY DEF IInv
<1>2. ASSUME NEW l \in Line, Effect(l), Answered, UNCHANGED error_mode PROVE IInv'
  <2>1. CASE Nothing
    BY <1>1, <1>2, <2>1 DEF Nothing, bankVars, Answered, Faults, IInv, MemoryTypeOK, UsageExact,
       HeldIn, LastChannel, Dates, LinesDated, BlankUndated, SingleChannelOrdered, CheckedFrom
  <2>2. CASE Served(l) BY <1>2, <2>2, ServedGood
  <2>3. CASE \E d \in Class : MovedTo(l, d) BY <1>2, <2>3, MovedGood
  <2> QED BY <1>2, <2>1, <2>2, <2>3 DEF Effect
<1>3. CASE Command /\ UNCHANGED error_mode
  <2>1. ASSUME NEW l \in Line, NEW issue \in Nat, ReadLine(l, issue) PROVE IInv'
    BY <1>1, <1>2, <1>3, <2>1, ReadServes
  <2>2. ASSUME NEW l \in Line, NEW issue \in Nat, RefreshLine(l, issue) PROVE IInv'
    BY <1>1, <1>2, <1>3, <2>2, RefreshServes
  <2>3. ASSUME NEW l \in Line, NEW c \in Class, NEW issue \in Nat, WriteLine(l, c, issue) PROVE IInv'
    BY <1>1, <1>2, <1>3, <2>3, WriteServes
  <2>4. ASSUME NEW l \in Line, NEW c \in Class, NEW issue \in Nat, MigrateLine(l, c, issue) PROVE IInv'
    BY <1>1, <1>2, <1>3, <2>4, MigrateMoves
  <2> QED BY <1>3, <2>1, <2>2, <2>3, <2>4 DEF Command
<1>4. CASE \E first, n \in Nat : Lines(first, n) \subseteq Line /\ Release(first, n)
  BY <1>4, ReleaseGood
<1>5. CASE \E first, n \in Nat, c \in Class : Lines(first, n) \subseteq Line /\ Reserve(first, n, c)
  BY <1>5, ReserveGood
<1>6. CASE UNCHANGED memoryVars
  BY <1>1, <1>6 DEF memoryVars, bankVars, IInv, MemoryTypeOK, UsageExact,
     HeldIn, LastChannel, Dates, LinesDated, BlankUndated, SingleChannelOrdered, CheckedFrom
<1> QED BY <1>3, <1>4, <1>5, <1>6 DEF MemoryNext

LEMMA Invariant == MemorySpec => []IInv
BY InitGood, NextGood, PTL DEF MemorySpec

\* The chosen last cycle of all channels is the makespan.
LEMMA ReadyIsLast == IInv => MakespanExact
<1> SUFFICES ASSUME IInv PROVE MakespanExact OBVIOUS
<1>1. MemoryTypeOK /\ LastChannel /\ LinesDated BY DEF IInv, Dates
<1> DEFINE All == UNION {{c} \X (1..Channels[c]) : c \in Class}
           Times == {channelReady[p[1]][p[2]] : p \in All}
<1>2. \A c \in Class : \A i \in 1..Channels[c] : channelReady[c][i] \in Times
  <2> SUFFICES ASSUME NEW c \in Class, NEW i \in 1..Channels[c] PROVE channelReady[c][i] \in Times
    OBVIOUS
  <2>1. <<c, i>> \in All OBVIOUS
  <2> QED BY <2>1
<1>3. \A t \in Times : t \in Nat /\ t <= makespan
  <2> SUFFICES ASSUME NEW p \in All
               PROVE  channelReady[p[1]][p[2]] \in Nat /\ channelReady[p[1]][p[2]] <= makespan
    OBVIOUS
  <2>1. p[1] \in Class /\ p[2] \in 1..Channels[p[1]] OBVIOUS
  <2> QED BY <1>1, <2>1 DEF MemoryTypeOK, LastChannel
<1>4. makespan \in Times /\ makespan \in Nat
  <2>1. PICK c \in Class : \E i \in 1..Channels[c] : channelReady[c][i] = makespan
    BY <1>1 DEF LastChannel
  <2> QED BY <1>1, <1>2, <2>1 DEF MemoryTypeOK
<1>5. \A c \in Class : \A i \in 1..Channels[c] : channelReady[c][i] <= makespan
  BY <1>1 DEF LastChannel
<1> DEFINE AtLast(t) == \A c \in Class : \A i \in 1..Channels[c] : channelReady[c][i] <= t
<1>6. ASSUME NEW t \in Times, AtLast(t) PROVE t = makespan
  <2>1. t \in Nat /\ t <= makespan BY <1>3
  <2>2. PICK c \in Class : \E i \in 1..Channels[c] : channelReady[c][i] = makespan
    BY <1>1 DEF LastChannel
  <2>3. makespan <= t BY <1>6, <2>2
  <2> HIDE DEF Times
  <2> QED BY <1>4, <2>1, <2>3
<1>7. BankReady = CHOOSE t \in Times : AtLast(t) BY DEF BankReady
<1> HIDE DEF Times
<1>8. BankReady = makespan BY <1>4, <1>5, <1>6, <1>7
<1> QED BY <1>1, <1>8 DEF MakespanExact, LinesDated

-----------------------------------------------------------------------------
\* Variables stay in their types for every profile and every caller: no count of
\* lines wraps below zero (evidence_model.cpp:278-280, 305-306).
THEOREM MemoryTypeCorrect == MemorySpec => []MemoryTypeOK
<1>1. IInv => MemoryTypeOK BY DEF IInv
<1> QED BY <1>1, Invariant, PTL

\* The lines counted in every bank are those it holds, within its capacity
\* (evidence_model.cpp:55-92, 278-306).
THEOREM UsageCorrect == MemorySpec => []UsageExact
<1>1. IInv => UsageExact BY DEF IInv
<1> QED BY <1>1, Invariant, PTL

\* The reported makespan is the last cycle of all channels, and no line is dated
\* after it (evidence_model.cpp:94-116, 358-366).
THEOREM MakespanCorrect == MemorySpec => []MakespanExact
BY ReadyIsLast, Invariant, PTL

\* A bank with one channel never checks a line before its last write or its last
\* check (evidence_model.cpp:130-141).
THEOREM SingleChannelCorrect == MemorySpec => []SingleChannelOrdered
<1>1. IInv => SingleChannelOrdered BY DEF IInv, Dates
<1> QED BY <1>1, Invariant, PTL

-----------------------------------------------------------------------------
(* The replay is a caller of the memory.  Its invariant, in parts.           *)

Job == [op : {"idle", "hint", "access", "promote", "refresh"}, line : Nat, completion : Nat,
        attempts : Nat, dest : Class, moved : Nat, at : Nat, start : Nat, deadline : Nat]
Placement == [base : Nat, size : Nat \ {0}, lines : Nat, class : Class, resident : BOOLEAN]
Statistics == [unsafe : Nat, allocation : Nat, expired : Nat, uninitialized : Nat, missing : Nat,
               migration : Nat, maintenance : Nat, rejected : Nat, readBytes : Nat, writeBytes : Nat]

Typed ==
  /\ stage \in {"load", "rejected", "replay", "done"} /\ policy \in Policy
  /\ workload \in Workloads /\ events \in Seq(TraceEvent) /\ pos \in 1..(Len(events) + 1)
  /\ job \in Job /\ nextBase \in Nat /\ stats \in Statistics
  /\ IsFiniteSet(DOMAIN allocations) /\ DOMAIN allocations \subseteq Buffer
  /\ allocations \in [DOMAIN allocations -> Placement]
  /\ IsFiniteSet(DOMAIN ready) /\ DOMAIN ready \subseteq Stream
  /\ ready \in [DOMAIN ready -> Nat]
  /\ liveBytes \in [Class -> Int]
  /\ stage \in {"load", "rejected"} => pos = 1 /\ job = Idle

\* An event of several steps is served for a buffer that has its lines; an access names
\* one of them, and a migration has one left to move to another class.
Working ==
  job.op # "idle" =>
    /\ stage = "replay" /\ pos <= Len(events)
    /\ Known /\ Allocation.resident /\ Current.stream \in DOMAIN ready
    /\ Current.kind = IF job.op = "hint" THEN "HINT" ELSE "ACCESS"
    /\ job.op # "hint" => /\ InBounds(Current, Allocation.size)
                          /\ job.line \in FirstLine(Current)..LastLine(Current)
    /\ job.op \in {"promote", "refresh"} => policy = "adaptive" /\ ~Current.write
    /\ job.op \in {"hint", "promote"} => job.moved < Allocation.lines /\ job.dest # Allocation.class

LinesIn(b) == Lines(allocations[b].base, allocations[b].lines)

\* Buffers have lines of their own, and nothing lies where the next one will.
Laid ==
  /\ \A b \in DOMAIN allocations :
       /\ allocations[b].lines = AlignedLines(allocations[b].size)
       /\ allocations[b].resident =>
            /\ LinesIn(b) \subseteq Line
            /\ allocations[b].base + allocations[b].lines <= nextBase
  /\ \A b, c \in DOMAIN allocations :
       b # c /\ allocations[b].resident /\ allocations[c].resident => LinesIn(b) \cap LinesIn(c) = {}
  /\ \A l \in Line : l >= nextBase => ~lines[l].present

\* What the memory keeps whatever exception has ended the replay.
Sound ==
  /\ lines \in [Line -> LineState] /\ used \in [Class -> Nat] /\ makespan \in Nat
  /\ DOMAIN channelReady = Class
  /\ \A c \in Class : channelReady[c] \in [1..Channels[c] -> Nat]
  /\ operation \in Operation /\ error_mode \in ErrorMode
  /\ UsageExact /\ LastChannel /\ Dates

LEMMA SoundMemory == Sound /\ fault = "none" => IInv
BY DEF Sound, IInv, MemoryTypeOK

LEMMA MemorySound == IInv => Sound
BY DEF Sound, IInv, MemoryTypeOK

-----------------------------------------------------------------------------
(* The greatest and the least of finite sets, sums of sizes.                 *)

\* The greatest value of a map.
LEMMA AllReadyIs ==
  ASSUME NEW f, f \in [DOMAIN f -> Nat], IsFiniteSet(DOMAIN f), DOMAIN f # {}
  PROVE  AllReady(f) \in Nat /\ \A k \in DOMAIN f : AllReady(f) >= f[k]
<1> DEFINE T == {f[k] : k \in DOMAIN f}
           g == [k \in DOMAIN f |-> f[k]]
<1>1. g \in Surjection(DOMAIN f, T)
  BY DEF Surjection
<1>2. IsFiniteSet(T) /\ T # {} /\ T \subseteq Nat
  <2>1. T # {} /\ T \subseteq Nat OBVIOUS
  <2> HIDE DEF g, T
  <2> QED BY <1>1, <2>1, FS_Surjection
<1>3. Max(T) \in T /\ \A y \in T : Max(T) >= y
  <2> HIDE DEF T
  <2> QED BY <1>2, MaxIs
<1> QED BY <1>2, <1>3 DEF AllReady

LEMMA PairIs ==
  ASSUME NEW s \in Nat, NEW t \in Nat
  PROVE  Max({s, t}) \in Nat /\ Max({s, t}) >= s /\ Max({s, t}) >= t
<1>1. IsFiniteSet({s, t}) /\ {s, t} # {} /\ {s, t} \subseteq Nat
  <2>1. IsFiniteSet({s}) BY FS_Singleton
  <2>2. {s, t} = {s} \cup {t} OBVIOUS
  <2> QED BY <2>1, <2>2, FS_AddElement
<1> QED BY <1>1, MaxIs

LEMMA PutIs ==
  ASSUME NEW D, NEW V, NEW f \in [D -> V], NEW key, NEW value \in V, IsFiniteSet(D)
  PROVE  Put(f, key, value) \in [D \cup {key} -> V] /\ IsFiniteSet(D \cup {key})
<1>1. IsFiniteSet(D \cup {key}) BY FS_AddElement
<1> QED BY <1>1 DEF Put

LEMMA BytesAre ==
  ASSUME NEW x, NEW n \in Nat
  PROVE  IsFiniteSet({x} \X (1..n)) /\ Cardinality({x} \X (1..n)) = n
<1>1. IsFiniteSet(1..n) /\ Cardinality(1..n) = n
  BY FS_Interval
<1>2. IsFiniteSet({x}) /\ Cardinality({x}) = 1
  BY FS_Singleton
<1>3. /\ IsFiniteSet({x} \X (1..n))
      /\ Cardinality({x} \X (1..n)) = Cardinality({x}) * Cardinality(1..n)
  BY <1>1, <1>2, FS_Product, Zenon
<1> QED BY <1>1, <1>2, <1>3

LEMMA SizesFinite ==
  ASSUME NEW table, NEW S, IsFiniteSet(S), \A x \in S : table[x].size \in Nat
  PROVE  /\ IsFiniteSet(UNION {{x} \X (1..table[x].size) : x \in S})
         /\ SizeOf(table, S) \in Nat
<1> DEFINE f == [x \in S |-> {x} \X (1..table[x].size)]
           T == {{x} \X (1..table[x].size) : x \in S}
<1>1. f \in Surjection(S, T)
  BY DEF Surjection
<1>2. IsFiniteSet(T)
  <2> HIDE DEF f, T
  <2> QED BY <1>1, FS_Surjection
<1>3. \A x \in S : IsFiniteSet({x} \X (1..table[x].size))
  BY BytesAre
<1>4. \A U \in T : IsFiniteSet(U)
  BY <1>3, Zenon
<1>5. IsFiniteSet(UNION T)
  <2> HIDE DEF T
  <2> QED BY <1>2, <1>4, FS_UNION, Zenon
<1> QED BY <1>5, FS_CardinalityType DEF SizeOf

\* One more, and its size is added.
LEMMA SizesAdd ==
  ASSUME NEW table, NEW S, IsFiniteSet(S), NEW x, x \notin S,
         \A y \in S \cup {x} : table[y].size \in Nat
  PROVE  SizeOf(table, S \cup {x}) = SizeOf(table, S) + table[x].size
<1> DEFINE old == UNION {{y} \X (1..table[y].size) : y \in S}
           new == {x} \X (1..table[x].size)
<1>1. IsFiniteSet(old) /\ Cardinality(old) \in Nat
  BY SizesFinite, FS_CardinalityType
<1>2. table[x].size \in Nat /\ IsFiniteSet(new) /\ Cardinality(new) = table[x].size
  BY BytesAre
<1>3. UNION {{y} \X (1..table[y].size) : y \in S \cup {x}} = old \cup new
  OBVIOUS
<1>4. old \cap new = {}
  OBVIOUS
<1>5. Cardinality(old \cup new) = Cardinality(old) + Cardinality(new) - Cardinality(old \cap new)
  BY <1>1, <1>2, FS_Union
<1>6. Cardinality(old \cap new) = 0
  BY <1>4, FS_EmptySet
<1>7. Cardinality(old) = SizeOf(table, S) /\ Cardinality(old \cup new) = SizeOf(table, S \cup {x})
  BY <1>3 DEF SizeOf
<1> HIDE DEF old, new
<1> QED BY <1>1, <1>2, <1>5, <1>6, <1>7

LEMMA SizesSame ==
  ASSUME NEW t, NEW u, NEW S, \A x \in S : t[x].size = u[x].size
  PROVE  SizeOf(t, S) = SizeOf(u, S)
BY DEF SizeOf

\* One less, and its size is taken away.
LEMMA SizesRemove ==
  ASSUME NEW table, NEW S, IsFiniteSet(S), NEW x \in S,
         \A y \in S : table[y].size \in Nat
  PROVE  SizeOf(table, S \ {x}) = SizeOf(table, S) - table[x].size
<1>1. IsFiniteSet(S \ {x}) /\ x \notin S \ {x} /\ S = (S \ {x}) \cup {x}
  BY FS_Subset
<1>2. SizeOf(table, S \ {x}) \in Nat /\ table[x].size \in Nat
  BY <1>1, SizesFinite
<1>3. SizeOf(table, (S \ {x}) \cup {x}) = SizeOf(table, S \ {x}) + table[x].size
  BY <1>1, SizesAdd
<1>4. SizeOf(table, (S \ {x}) \cup {x}) = SizeOf(table, S)
  BY <1>1, Zenon
<1> HIDE DEF SizeOf
<1> QED BY <1>2, <1>3, <1>4

-----------------------------------------------------------------------------
(* The event at hand.                                                        *)

LEMMA CurrentIs ==
  ASSUME Typed, pos <= Len(events)
  PROVE  Current \in TraceEvent /\ pos \in DOMAIN events
<1>1. pos \in 1..Len(events) /\ DOMAIN events = 1..Len(events)
  BY DEF Typed
<1> QED BY <1>1 DEF Typed, Current

\* No stream goes back in time, and that of the event is at the event's tick at least.
LEMMA ArrivedIs ==
  ASSUME Typed, pos <= Len(events)
  PROVE  /\ DOMAIN Arrived = DOMAIN ready \cup {Current.stream} /\ DOMAIN Arrived \subseteq Stream
         /\ IsFiniteSet(DOMAIN Arrived) /\ Arrived \in [DOMAIN Arrived -> Nat]
         /\ \A k \in DOMAIN ready : Arrived[k] >= ready[k]
         /\ Clock \in Nat /\ Clock = Arrived[Current.stream]
<1> DEFINE k == Current.stream
           before == IF k \in DOMAIN ready THEN ready[k] ELSE 0
           now == Later(before, Current.tick)
<1>1. k \in Stream /\ Current.tick \in Nat /\ before \in Nat
  BY CurrentIs DEF TraceEvent, Typed
<1>2. now \in Nat /\ now >= before
  BY <1>1 DEF Later
<1>3. Arrived = Put(ready, k, now)
  BY DEF Arrived
<1> HIDE DEF now
<1>4. /\ DOMAIN Arrived = DOMAIN ready \cup {k} /\ IsFiniteSet(DOMAIN Arrived)
      /\ Arrived \in [DOMAIN ready \cup {k} -> Nat] /\ Arrived[k] = now
      /\ \A x \in DOMAIN ready : x # k => Arrived[x] = ready[x]
  <2>1. ready \in [DOMAIN ready -> Nat] /\ IsFiniteSet(DOMAIN ready)
    BY DEF Typed
  <2>2. Arrived \in [DOMAIN ready \cup {k} -> Nat] /\ IsFiniteSet(DOMAIN ready \cup {k})
    BY <1>2, <1>3, <2>1, PutIs
  <2>3. Arrived[k] = now /\ \A x \in DOMAIN ready : x # k => Arrived[x] = ready[x]
    BY <1>3 DEF Put
  <2> QED BY <2>2, <2>3
<1>5. \A x \in DOMAIN ready : ready[x] \in Nat
  BY DEF Typed
<1> QED BY <1>1, <1>2, <1>4, <1>5 DEF Typed, Clock

LEMMA StampAllIs ==
  ASSUME Typed, pos <= Len(events), Sound, fault = "none"
  PROVE  LET t == Max({AllReady(Arrived), BankReady}) IN
         /\ t \in Nat /\ t >= makespan
         /\ \A k \in DOMAIN Arrived : t >= Arrived[k]
<1> DEFINE t == Max({AllReady(Arrived), BankReady})
<1>1. AllReady(Arrived) \in Nat /\ \A k \in DOMAIN Arrived : AllReady(Arrived) >= Arrived[k]
  BY ArrivedIs, AllReadyIs
<1>2. BankReady = makespan /\ makespan \in Nat
  BY SoundMemory, ReadyIsLast DEF MakespanExact, Sound
<1>3. t \in Nat /\ t >= AllReady(Arrived) /\ t >= makespan
  BY <1>1, <1>2, PairIs
<1>4. \A k \in DOMAIN Arrived : Arrived[k] \in Nat
  BY ArrivedIs
<1> HIDE DEF t
<1>5. \A k \in DOMAIN Arrived : t >= Arrived[k]
  BY <1>1, <1>3, <1>4
<1> QED BY <1>3, <1>5 DEF t

\* The class an allocation is tried in.
LEMMA TriedIs ==
  ASSUME Typed, NEW e \in TraceEvent
  PROVE  /\ SelectedClass(e) \in Class
         /\ Tried(SelectedClass(e)) \subseteq Class /\ Tried(SelectedClass(e)) # {}
         /\ IsFiniteSet(Tried(SelectedClass(e)))
<1>1. e.hint \in Class
  BY DEF TraceEvent
<1>2. \A age : OracleClass(age) \in Class
  <2> TAKE age
  <2> DEFINE S == {Durable} \cup {c \in {Ephemeral, Epoch} : age < RetentionCycles[c]}
  <2>1. S \subseteq Nat /\ S # {} /\ S \subseteq Class
    BY DEF Class, Ephemeral, Epoch, Durable
  <2>2. OracleClass(age) = Min(S)
    BY DEF OracleClass
  <2> HIDE DEF S
  <2> QED BY <2>1, <2>2, MinIs
<1>3. SelectedClass(e) \in Class
  BY <1>1, <1>2 DEF SelectedClass, Typed, Policy, FollowsHints, Class
<1>4. ASSUME NEW c \in Class PROVE Tried(c) \subseteq Class /\ Tried(c) # {} /\ IsFiniteSet(Tried(c))
  <2>1. c..Durable \subseteq Class /\ c \in c..Durable
    BY DEF Class, Ephemeral, Epoch, Durable
  <2>2. IsFiniteSet(c..Durable)
    BY FS_Interval DEF Class, Ephemeral, Epoch, Durable
  <2>3. IsFiniteSet({c})
    BY FS_Singleton
  <2> QED BY <2>1, <2>2, <2>3 DEF Tried
<1> QED BY <1>3, <1>4

-----------------------------------------------------------------------------
(* Addresses.                                                                *)

LEMMA AlignUpIs ==
  ASSUME NEW base \in Nat, NEW alignment \in Nat \ {0}
  PROVE  AlignUp(base, alignment) \in Nat /\ AlignUp(base, alignment) >= base
<1> DEFINE q == (base + alignment - 1) \div alignment
<1>1. q \in Nat /\ base <= q * alignment
  OBVIOUS
<1>2. q * alignment \in Nat
  BY <1>1
<1> QED BY <1>1, <1>2 DEF AlignUp

LEMMA PlacedIs ==
  ASSUME Typed, Laid, NEW b \in DOMAIN allocations
  PROVE  /\ allocations[b] \in Placement /\ allocations[b].lines \in Nat \ {0}
         /\ allocations[b].base \in Nat /\ allocations[b].size \in Nat \ {0}
         /\ allocations[b].class \in Class /\ b \in Buffer
<1>1. allocations[b] \in Placement /\ b \in Buffer
  BY DEF Typed
<1>2. allocations[b].size \in Nat \ {0} /\ allocations[b].lines = AlignedLines(allocations[b].size)
  BY <1>1 DEF Placement, Laid
<1> QED BY <1>1, <1>2, AlignedIs DEF Placement

LEMMA InPlace ==
  ASSUME Typed, Laid, NEW b \in DOMAIN allocations, allocations[b].resident,
         NEW i \in Nat, i < allocations[b].lines
  PROVE  allocations[b].base + i \in LinesIn(b) /\ allocations[b].base + i \in Line
<1>1. allocations[b].base \in Nat /\ allocations[b].lines \in Nat
  BY PlacedIs
<1>2. allocations[b].base + i \in LinesIn(b)
  BY <1>1 DEF LinesIn, Lines
<1> QED BY <1>2 DEF Laid

\* The job at hand, and the lines it is at.
LEMMA AtWork ==
  ASSUME Typed, Working, Laid, job.op # "idle"
  PROVE  /\ Current \in TraceEvent /\ pos \in DOMAIN events /\ Current.buffer \in DOMAIN allocations
         /\ Allocation \in Placement /\ Allocation.resident /\ Allocation.lines \in Nat \ {0}
         /\ job \in Job /\ Current.stream \in DOMAIN ready /\ ready[Current.stream] \in Nat
         /\ job.op # "hint" => Address \in LinesIn(Current.buffer) /\ Address \in Line
         /\ job.op \in {"hint", "promote"} =>
              /\ Allocation.base + job.moved \in LinesIn(Current.buffer)
              /\ Allocation.base + job.moved \in Line
<1>1. /\ Current \in TraceEvent /\ pos \in DOMAIN events /\ Current.buffer \in DOMAIN allocations
      /\ Allocation.resident /\ job \in Job /\ Current.stream \in DOMAIN ready
  BY CurrentIs DEF Working, Known, Typed
<1>2. /\ Allocation \in Placement /\ Allocation.lines \in Nat \ {0}
      /\ Allocation.lines = AlignedLines(Allocation.size) /\ Allocation.size \in Nat
  BY <1>1, PlacedIs DEF Allocation, Laid
<1>3. ready[Current.stream] \in Nat
  BY <1>1 DEF Typed
<1>4. ASSUME job.op # "hint"
      PROVE  Address \in LinesIn(Current.buffer) /\ Address \in Line
  <2>1. InBounds(Current, Allocation.size) /\ job.line \in FirstLine(Current)..LastLine(Current)
    BY <1>4 DEF Working
  <2>2. job.line \in Nat /\ job.line < Allocation.lines
    BY <1>1, <1>2, <2>1, AccessLines
  <2> QED BY <1>1, <2>2, InPlace DEF Address, Allocation
<1>5. ASSUME job.op \in {"hint", "promote"}
      PROVE  /\ Allocation.base + job.moved \in LinesIn(Current.buffer)
             /\ Allocation.base + job.moved \in Line
  <2>1. job.moved \in Nat /\ job.moved < Allocation.lines
    BY <1>1, <1>5 DEF Working, Job
  <2> QED BY <1>1, <2>1, InPlace DEF Allocation
<1> QED BY <1>1, <1>2, <1>3, <1>4, <1>5

-----------------------------------------------------------------------------
(* What a command does to the lines.                                         *)

\* Only the line named changes.  An exception changes none; for being early it was written
\* after the command was issued.  A line is dated by the command that answers for it.
Commanded(l, issue) ==
  /\ \A k \in Line : k # l => lines'[k] = lines[k]
  /\ lines'[l].present = lines[l].present
  /\ fault' \in {"none", "early", "class"} /\ (fault' # "none" => lines' = lines)
  /\ fault' = "early" => issue < lines[l].lastWrite
  /\ \/ lines'[l].lastWrite = lines[l].lastWrite
     \/ operation'.ok /\ lines'[l].lastWrite = operation'.completion

LEMMA FailsIs ==
  ASSUME IInv, fault = "none", NEW l \in Line, NEW t \in Nat, NEW issue \in Nat, issue <= t,
         Fails(l, t)
  PROVE  Commanded(l, issue) /\ lines'[l].class = lines[l].class /\ fault' # "class"
         /\ (fault' = "none" => ~operation'.ok)
<1>1. lines \in [Line -> LineState] /\ lines[l] \in LineState /\ lines[l].lastWrite \in Nat
  BY DEF IInv, MemoryTypeOK, LineState
<1>2. CASE Early(l, t) /\ fault' = "early" /\ UNCHANGED <<lines, operation>>
  <2>1. t < lines[l].lastWrite
    BY <1>2 DEF Early
  <2> QED BY <1>1, <1>2, <2>1 DEF Commanded
<1>3. CASE /\ lines' = [lines EXCEPT ![l] = Checked(l, t, TRUE)]
           /\ operation' = Refused("Expired", t) /\ UNCHANGED fault
  <2>1. lines'[l] = Checked(l, t, TRUE) /\ \A k \in Line : k # l => lines'[k] = lines[k]
    BY <1>1, <1>3
  <2>2. /\ Checked(l, t, TRUE).present = lines[l].present
        /\ Checked(l, t, TRUE).lastWrite = lines[l].lastWrite
        /\ Checked(l, t, TRUE).class = lines[l].class
    BY <1>1 DEF Checked, LineState
  <2> QED BY <1>3, <2>1, <2>2 DEF Commanded, Refused
<1> QED BY <1>2, <1>3 DEF Fails

LEMMA RewriteIs ==
  ASSUME IInv, fault = "none", NEW l \in Line, NEW issue \in Nat, NEW c \in Class,
         NEW start \in Nat, NEW completion \in Nat,
         lines' = [lines EXCEPT ![l] = Rewritten(l, c, completion)],
         operation' = Done(start, completion), UNCHANGED fault
  PROVE  Commanded(l, issue) /\ lines'[l].class = c /\ fault' = "none"
<1>1. lines \in [Line -> LineState] /\ lines[l] \in LineState
  BY DEF IInv, MemoryTypeOK
<1>2. lines'[l] = Rewritten(l, c, completion) /\ \A k \in Line : k # l => lines'[k] = lines[k]
  BY <1>1
<1>3. /\ Rewritten(l, c, completion).present = lines[l].present
      /\ Rewritten(l, c, completion).lastWrite = completion
      /\ Rewritten(l, c, completion).class = c
  BY <1>1 DEF Rewritten, LineState
<1> QED BY <1>2, <1>3 DEF Commanded, Done

\* Nothing happens to the lines.
LEMMA IdleIs ==
  ASSUME NEW l \in Line, NEW issue \in Nat, lines' = lines, fault' \in {"none", "class"}
  PROVE  Commanded(l, issue) /\ lines'[l].class = lines[l].class
BY DEF Commanded

LEMMA StartIs ==
  ASSUME IInv, NEW l \in Line, NEW issue \in Nat
  PROVE  /\ lines[l].class \in Class
         /\ \A c \in Class : /\ EarliestStart(c, issue) \in Nat /\ issue <= EarliestStart(c, issue)
                             /\ ReadCycles[c] \in Nat /\ WriteCycles[c] \in Nat
<1>1. MemoryTypeOK BY DEF IInv
<1>2. \A c \in Class : EarliestStart(c, issue) \in Nat /\ EarliestStart(c, issue) >= issue
  BY <1>1, StartsLate
<1>3. \A c \in Class : issue <= EarliestStart(c, issue)
  <2> TAKE c \in Class
  <2>1. EarliestStart(c, issue) \in Nat /\ EarliestStart(c, issue) >= issue BY <1>2
  <2> QED BY <2>1
<1> QED BY <1>1, <1>2, <1>3, ProfileAssumption DEF MemoryTypeOK, LineState

LEMMA ReadIs ==
  ASSUME IInv, fault = "none", NEW l \in Line, NEW issue \in Nat, ReadLine(l, issue)
  PROVE  Commanded(l, issue) /\ lines'[l].class = lines[l].class /\ fault' # "class"
<1> DEFINE c == lines[l].class
           start == EarliestStart(c, issue)
           completion == start + ReadCycles[c]
<1>1. lines \in [Line -> LineState] /\ lines[l] \in LineState
  BY DEF IInv, MemoryTypeOK
<1>2. CASE lines' = lines /\ fault' = fault
  BY <1>2, IdleIs
<1>3. CASE Fails(l, start)
  <2>1. start \in Nat /\ issue <= start BY StartIs
  <2> HIDE DEF start
  <2> QED BY <1>3, <2>1, FailsIs
<1>4. CASE /\ lines' = [lines EXCEPT ![l] = Checked(l, start, FALSE)]
           /\ operation' = Done(start, completion) /\ UNCHANGED fault
  <2>1. lines'[l] = Checked(l, start, FALSE) /\ \A k \in Line : k # l => lines'[k] = lines[k]
    BY <1>1, <1>4
  <2>2. /\ Checked(l, start, FALSE).present = lines[l].present
        /\ Checked(l, start, FALSE).lastWrite = lines[l].lastWrite
        /\ Checked(l, start, FALSE).class = lines[l].class
    BY <1>1 DEF Checked, LineState
  <2> QED BY <1>4, <2>1, <2>2 DEF Commanded
<1> QED BY <1>2, <1>3, <1>4 DEF ReadLine, Missing

LEMMA WriteIs ==
  ASSUME IInv, fault = "none", NEW l \in Line, NEW d \in Class, NEW issue \in Nat,
         WriteLine(l, d, issue)
  PROVE  /\ Commanded(l, issue) /\ lines'[l].class = lines[l].class /\ fault' # "early"
         /\ fault' = "class" => lines[l].class # d
<1>1. CASE Missing(l, issue)
  BY <1>1, IdleIs DEF Missing
<1>2. CASE lines[l].class # d /\ fault' = "class" /\ UNCHANGED <<lines, bankVars, operation>>
  BY <1>2, IdleIs
<1> DEFINE start == EarliestStart(d, issue)
           completion == start + WriteCycles[d]
<1>3. CASE /\ lines[l].class = d
           /\ lines' = [lines EXCEPT ![l] = Rewritten(l, d, completion)]
           /\ operation' = Done(start, completion) /\ UNCHANGED fault
  <2>1. start \in Nat /\ completion \in Nat BY StartIs
  <2> HIDE DEF start, completion
  <2> QED BY <1>3, <2>1, RewriteIs
<1> QED BY <1>1, <1>2, <1>3 DEF WriteLine

LEMMA RefreshIs ==
  ASSUME IInv, fault = "none", NEW l \in Line, NEW issue \in Nat, RefreshLine(l, issue)
  PROVE  Commanded(l, issue) /\ lines'[l].class = lines[l].class /\ fault' # "class"
<1> DEFINE c == lines[l].class
           start == EarliestStart(c, issue)
           completion == start + ReadCycles[c] + WriteCycles[c]
<1>1. CASE lines' = lines /\ fault' = fault
  BY <1>1, IdleIs
<1>2. c \in Class /\ start \in Nat /\ issue <= start /\ completion \in Nat
  <2>1. c \in Class BY StartIs
  <2>2. start \in Nat /\ issue <= start /\ ReadCycles[c] \in Nat /\ WriteCycles[c] \in Nat
    BY <2>1, StartIs
  <2> HIDE DEF start, c
  <2> QED BY <2>1, <2>2
<1>3. CASE Fails(l, start)
  <2> HIDE DEF start, completion
  <2> QED BY <1>2, <1>3, FailsIs
<1>4. CASE /\ lines' = [lines EXCEPT ![l] = Rewritten(l, c, completion)]
           /\ operation' = Done(start, completion) /\ UNCHANGED fault
  <2> HIDE DEF start, completion
  <2> QED BY <1>2, <1>4, RewriteIs
<1> QED BY <1>1, <1>3, <1>4 DEF RefreshLine, Missing

LEMMA MigrateIs ==
  ASSUME IInv, fault = "none", NEW l \in Line, NEW d \in Class, NEW issue \in Nat,
         MigrateLine(l, d, issue)
  PROVE  /\ Commanded(l, issue) /\ fault' # "class"
         /\ fault' = "none" /\ operation'.ok => lines'[l].class = d
<1>1. lines \in [Line -> LineState] /\ lines[l] \in LineState /\ lines[l].class \in Class
  BY DEF IInv, MemoryTypeOK, LineState
<1>2. CASE ~lines[l].present
  BY <1>2, IdleIs DEF MigrateLine, Missing, Refused
<1>3. CASE lines[l].present /\ lines[l].class = d
  BY <1>3, RefreshIs DEF MigrateLine
<1>4. CASE lines[l].present /\ lines[l].class # d
  <2>1. CASE operation' = Refused("Capacity", issue) /\ UNCHANGED <<lines, bankVars, fault>>
    BY <2>1, IdleIs DEF Refused
  <2>2. CASE /\ lines' = [lines EXCEPT ![l] = [@ EXCEPT !.class = d, !.failed = FALSE]]
             /\ operation' = Done(issue, issue) /\ UNCHANGED <<channelReady, makespan, fault>>
    <3>1. /\ lines'[l].class = d /\ lines'[l].present = lines[l].present
          /\ lines'[l].lastWrite = lines[l].lastWrite
          /\ \A k \in Line : k # l => lines'[k] = lines[k]
      BY <1>1, <2>2 DEF LineState
    <3> QED BY <2>2, <3>1 DEF Commanded
  <2>3. CASE Transfer(l, d, issue)
    <3> DEFINE c == lines[l].class
               start == EarliestStart(c, issue)
               read == start + ReadCycles[c]
               written == EarliestStart(d, read + MigrationSetup)
               completion == written + WriteCycles[d]
    <3>1. start \in Nat /\ issue <= start /\ ReadCycles[c] \in Nat /\ WriteCycles[d] \in Nat
      BY <1>1, StartIs
    <3>2. written \in Nat
      <4> HIDE DEF start
      <4>1. read + MigrationSetup \in Nat BY <3>1, ProfileAssumption
      <4> HIDE DEF read
      <4> QED BY <4>1, StartIs
    <3>3. \/ Fails(l, start)
          \/ /\ lines' = [lines EXCEPT ![l] = Rewritten(l, d, completion)]
             /\ operation' = Done(start, completion) /\ UNCHANGED fault
      BY <2>3 DEF Transfer
    <3> HIDE DEF start, written
    <3>4. completion \in Nat BY <3>1, <3>2
    <3> HIDE DEF completion
    <3> QED BY <3>1, <3>3, <3>4, FailsIs, RewriteIs
  <2> QED BY <1>4, <2>1, <2>2, <2>3 DEF MigrateLine
<1> QED BY <1>2, <1>3, <1>4

-----------------------------------------------------------------------------
(* An allocation, in one piece.                                              *)

Placing(base, n, class, fits) ==
  /\ IF fits THEN Lines(base, n) \subseteq Line /\ CanFit(class, n) /\ Reserve(base, n, class)
             ELSE UNCHANGED memoryVars
  /\ allocations' = Put(allocations, Current.buffer,
                        [base |-> base, size |-> Current.size, lines |-> n,
                         class |-> class, resident |-> fits])
  /\ nextBase' = base + n
  /\ stats' = IF fits THEN stats ELSE [stats EXCEPT !.unsafe = @ + 1, !.allocation = @ + 1]
  /\ liveBytes' = [liveBytes EXCEPT ![class] = IF fits THEN @ + Current.size ELSE @]
  /\ ready' = Arrived /\ pos' = pos + 1 /\ job' = Idle /\ UNCHANGED traceVars

LEMMA AllocateIs ==
  ASSUME Typed, Allocate, ~Known
  PROVE  \E base \in Nat, n \in Nat \ {0}, class \in Class, fits \in BOOLEAN :
           base >= nextBase /\ n = AlignedLines(Current.size) /\ Placing(base, n, class, fits)
<1> DEFINE n == AlignedLines(Current.size)
           base == AlignUp(nextBase, Current.alignment)
           tried == Tried(SelectedClass(Current))
           fitting == {c \in tried : CanFit(c, n)}
           class == IF fitting = {} THEN Max(tried) ELSE Min(fitting)
<1>1. Current \in TraceEvent
  BY CurrentIs DEF Allocate, Begins
<1>2. n \in Nat \ {0} /\ base \in Nat /\ base >= nextBase
  BY <1>1, AlignedIs, AlignUpIs DEF TraceEvent, Typed
<1>3. tried \subseteq Class /\ tried # {} /\ IsFiniteSet(tried) /\ Class \subseteq Nat
  BY <1>1, TriedIs DEF Class, Ephemeral, Epoch, Durable
<1> DEFINE fits == fitting # {}
<1>4. class \in Class /\ (fits => CanFit(class, n))
  <2>1. CASE fitting = {}
    <3>1. tried \subseteq Nat BY <1>3
    <3> HIDE DEF tried
    <3>2. Max(tried) \in tried BY <1>3, <3>1, MaxIs
    <3> QED BY <1>3, <2>1, <3>2
  <2>2. CASE fitting # {}
    <3>1. fitting \subseteq Nat BY <1>3
    <3>2. Min(fitting) \in fitting
      <4> HIDE DEF fitting
      <4> QED BY <2>2, <3>1, MinIs
    <3>3. class = Min(fitting) BY <2>2
    <3>4. class \in tried /\ CanFit(class, n) BY <3>2, <3>3
    <3> QED BY <1>3, <3>4
  <2> QED BY <2>1, <2>2
<1>5. fits \in BOOLEAN OBVIOUS
<1>6. Placing(base, n, class, fits)
  <2>1. /\ fits => Lines(base, n) \subseteq Line
        /\ IF fitting = {} THEN UNCHANGED memoryVars ELSE Reserve(base, n, class)
        /\ allocations' = Put(allocations, Current.buffer,
                              [base |-> base, size |-> Current.size, lines |-> n,
                               class |-> class, resident |-> fits])
        /\ nextBase' = base + n
        /\ stats' = IF fits THEN stats ELSE [stats EXCEPT !.unsafe = @ + 1, !.allocation = @ + 1]
        /\ liveBytes' = [liveBytes EXCEPT ![class] = IF fits THEN @ + Current.size ELSE @]
        /\ ready' = Arrived /\ pos' = pos + 1 /\ job' = Idle /\ UNCHANGED traceVars
    BY DEF Allocate, Ends
  <2> HIDE DEF base, n, class, tried
  <2> QED BY <2>1, <1>4 DEF Placing
<1> HIDE DEF base, n, class, fits, fitting, tried
<1> QED BY <1>2, <1>4, <1>5, <1>6 DEF n

\* What is reserved was free, and is new.
LEMMA ReserveIs ==
  ASSUME Laid, NEW base \in Nat, NEW n \in Nat \ {0}, NEW c \in Class, nextBase \in Nat,
         base >= nextBase, Lines(base, n) \subseteq Line, CanFit(c, n), Reserve(base, n, c)
  PROVE  /\ lines' = [l \in Line |-> IF l \in Lines(base, n) THEN Fresh(c) ELSE lines[l]]
         /\ fault' = fault
<1>1. \A l \in Lines(base, n) : l >= nextBase
  BY DEF Lines
<1>2. ~\E l \in Lines(base, n) : lines[l].present
  BY <1>1 DEF Laid
<1> QED BY <1>2 DEF Reserve

LEMMA ReleaseIs ==
  ASSUME Sound, fault = "none", NEW first \in Nat, NEW n \in Nat, Lines(first, n) \subseteq Line,
         Release(first, n)
  PROVE  /\ lines' = [l \in Line |-> IF l \in Lines(first, n) THEN Gone ELSE lines[l]]
         /\ fault' = fault
<1>1. ASSUME NEW c \in Class
      PROVE  ~(used[c] < Cardinality(HeldIn(Lines(first, n), c)))
  <2>1. IsFiniteSet(HeldIn(Line, c)) /\ Cardinality(HeldIn(Line, c)) \in Nat BY HeldFinite
  <2>2. HeldIn(Lines(first, n), c) \subseteq HeldIn(Line, c) BY DEF HeldIn
  <2>3. Cardinality(HeldIn(Lines(first, n), c)) <= Cardinality(HeldIn(Line, c))
    BY <2>1, <2>2, FS_Subset
  <2>4. Cardinality(HeldIn(Lines(first, n), c)) \in Nat
    BY HeldFinite
  <2>5. used[c] = Cardinality(HeldIn(Line, c)) /\ used[c] \in Nat
    BY DEF Sound, UsageExact
  <2> QED BY <2>1, <2>3, <2>4, <2>5
<1> QED BY <1>1 DEF Release

-----------------------------------------------------------------------------
(* Every step leaves the memory alone, calls it once, or ends the replay.    *)

LEMMA DeadlineIs ==
  ASSUME Sound, NEW l \in Line
  PROVE  Deadline(l) \in Nat /\ MaintenanceStart(l) \in Nat
<1>1. lines[l].lastWrite \in Nat /\ lines[l].class \in Class
  BY DEF Sound, LineState
<1>2. Deadline(l) \in Nat
  BY <1>1, ProfileAssumption DEF Deadline
<1> QED BY <1>1, <1>2, ReplayAssumption DEF MaintenanceStart

LEMMA Calls ==
  ASSUME Typed, Working, Laid, Sound, Next
  PROVE  \/ fault = "none" /\ MemoryNext
         \/ UNCHANGED <<lines, bankVars, operation, error_mode>>
<1> USE DEF memoryVars
<1>1. CASE Load BY <1>1 DEF Load
<1>2. CASE Reject BY <1>2 DEF Reject
<1>3. CASE Start BY <1>3 DEF Start
<1>4. CASE Report BY <1>4 DEF Report
<1>5. CASE Allocate
  <2>1. CASE Known BY <1>5, <2>1 DEF Allocate, Throw
  <2>2. CASE ~Known
    <3>1. PICK base \in Nat, n \in Nat \ {0}, class \in Class, fits \in BOOLEAN :
            Placing(base, n, class, fits)
      BY <1>5, <2>2, AllocateIs
    <3>2. fault = "none" BY <1>5 DEF Allocate, Begins
    <3> QED BY <3>1, <3>2 DEF Placing, MemoryNext
  <2> QED BY <2>1, <2>2
<1>6. CASE Free
  <2>1. CASE ~Known BY <1>6, <2>1 DEF Free, Throw
  <2>2. CASE Known /\ ~Allocation.resident BY <1>6, <2>2 DEF Free
  <2>3. CASE Known /\ Allocation.resident
    <3>1. fault = "none" /\ Release(Allocation.base, Allocation.lines)
      BY <1>6, <2>3 DEF Free, Begins
    <3>2. Allocation.base \in Nat /\ Allocation.lines \in Nat
          /\ Lines(Allocation.base, Allocation.lines) \subseteq Line
      BY <2>3, PlacedIs DEF Known, Allocation, Laid, LinesIn
    <3> QED BY <3>1, <3>2 DEF MemoryNext
  <2> QED BY <2>1, <2>2, <2>3
<1>7. CASE Hint BY <1>7 DEF Hint, Throw
<1>8. CASE Access BY <1>8 DEF Access, Throw
<1>9. CASE Compute \/ Phase \/ Barrier BY <1>9 DEF Compute, Phase, Barrier
<1>10. CASE Write
  <2>1. /\ fault = "none" /\ error_mode' = error_mode
        /\ WriteLine(Address, Allocation.class, job.completion) /\ job.op = "access"
    BY <1>10 DEF Write, Serving, After
  <2>2. Address \in Line /\ Allocation.class \in Class /\ job.completion \in Nat
    BY <2>1, AtWork DEF Placement, Job
  <2> QED BY <2>1, <2>2 DEF MemoryNext, Command
<1>11. CASE Read
  <2>1. /\ fault = "none" /\ error_mode' = error_mode
        /\ ReadLine(Address, job.completion) /\ job.op = "access"
    BY <1>11 DEF Read, Serving, After
  <2>2. Address \in Line /\ job.completion \in Nat
    BY <2>1, AtWork DEF Job
  <2> QED BY <2>1, <2>2 DEF MemoryNext, Command
<1>12. CASE Promote BY <1>12 DEF Promote
<1>13. CASE Refresh
  <2>1. /\ fault = "none" /\ error_mode' = error_mode
        /\ RefreshLine(Address, MaintenanceStart(Address)) /\ job.op = "access"
    BY <1>13 DEF Refresh, Maintenance, Refreshed, Serving, After
  <2>2. Address \in Line /\ MaintenanceStart(Address) \in Nat
    BY <2>1, AtWork, DeadlineIs
  <2> QED BY <2>1, <2>2 DEF MemoryNext, Command
<1>14. CASE RefreshAfterPromotion
  <2>1. /\ fault = "none" /\ error_mode' = error_mode
        /\ RefreshLine(Address, job.start) /\ job.op = "refresh"
    BY <1>14 DEF RefreshAfterPromotion, Refreshed, Serving, After
  <2>2. Address \in Line /\ job.start \in Nat
    BY <2>1, AtWork DEF Job
  <2> QED BY <2>1, <2>2 DEF MemoryNext, Command
<1>15. CASE Exhausted BY <1>15 DEF Exhausted, Throw
<1>16. CASE Migrate
  <2>1. /\ fault = "none" /\ error_mode' = error_mode /\ job.op \in {"hint", "promote"}
        /\ MigrateLine(Allocation.base + job.moved, job.dest, job.at)
    BY <1>16 DEF Migrate, Serving, After
  <2>2. Allocation.base + job.moved \in Line /\ job.dest \in Class /\ job.at \in Nat
    BY <2>1, AtWork DEF Job
  <2> QED BY <2>1, <2>2 DEF MemoryNext, Command
<1> QED BY <1>1, <1>2, <1>3, <1>4, <1>5, <1>6, <1>7, <1>8, <1>9, <1>10, <1>11, <1>12, <1>13,
           <1>14, <1>15, <1>16 DEF Next, Replay

LEMMA SoundStep ==
  ASSUME Typed, Working, Laid, Sound, [Next]_vars
  PROVE  Sound'
<1>1. CASE fault = "none" /\ MemoryNext
  <2>1. IInv' BY <1>1, SoundMemory, NextGood
  <2> QED BY <2>1 DEF Sound, IInv, MemoryTypeOK
<1>2. CASE UNCHANGED <<lines, bankVars, operation, error_mode>>
  BY <1>2 DEF bankVars, Sound, UsageExact, HeldIn, LastChannel,
     Dates, LinesDated, BlankUndated, SingleChannelOrdered, CheckedFrom
<1> QED BY <1>1, <1>2, Calls DEF vars, memoryVars

-----------------------------------------------------------------------------
(* Types.                                                                    *)

Heap == <<allocations, nextBase, liveBytes>>

\* What an event leaves of the right types.
Streams(f) == IsFiniteSet(DOMAIN f) /\ DOMAIN f \subseteq Stream /\ f \in [DOMAIN f -> Nat]
Placements(f) == IsFiniteSet(DOMAIN f) /\ DOMAIN f \subseteq Buffer /\ f \in [DOMAIN f -> Placement]

LEMMA TypedAfter ==
  ASSUME Typed, UNCHANGED traceVars, stage = "replay",
         pos' = pos \/ (pos' = pos + 1 /\ pos <= Len(events)),
         job' \in Job, stats' \in Statistics, Streams(ready'),
         \/ UNCHANGED Heap
         \/ Placements(allocations') /\ nextBase' \in Nat /\ liveBytes' \in [Class -> Int]
  PROVE  Typed'
<1>1. pos' \in 1..(Len(events) + 1)
  BY DEF Typed
<1> QED BY <1>1 DEF Typed, traceVars, Heap, Streams, Placements

LEMMA StreamsAre ==
  ASSUME Typed, pos <= Len(events)
  PROVE  /\ Streams(ready) /\ Streams(Arrived)
         /\ \A t \in Nat : Streams([k \in DOMAIN Arrived |-> t])
         /\ \A t \in Nat : Streams([Arrived EXCEPT ![Current.stream] = Later(@, t)])
<1>1. Streams(ready) /\ Streams(Arrived)
  BY ArrivedIs DEF Streams, Typed
<1>2. ASSUME NEW t \in Nat
      PROVE  Streams([Arrived EXCEPT ![Current.stream] = Later(@, t)])
  <2> DEFINE s == Current.stream
  <2>1. Later(Arrived[s], t) \in Nat
    BY ArrivedIs DEF Later
  <2> QED BY <1>1, <2>1 DEF Streams
<1> QED BY <1>1, <1>2 DEF Streams

LEMMA ReadySet ==
  ASSUME Typed, NEW k \in DOMAIN ready, NEW t \in Nat
  PROVE  Streams([ready EXCEPT ![k] = t])
BY DEF Streams, Typed

LEMMA JobsAre ==
  /\ Idle \in Job
  /\ \A c \in Class, t \in Nat : [Idle EXCEPT !.op = "hint", !.dest = c, !.at = t] \in Job
  /\ \A n, t \in Nat : [Idle EXCEPT !.op = "access", !.line = n, !.completion = t] \in Job
BY DEF Idle, Job, Class, Ephemeral, Epoch, Durable

LEMMA AgainIs ==
  ASSUME job \in Job, NEW t \in Nat
  PROVE  /\ Again(t) \in Job /\ Again(t).op = "access" /\ Again(t).line = job.line
         /\ Again(t).completion = Later(job.completion, t)
<1>1. PICK m \in Nat : m = Later(job.completion, t)
  BY DEF Job, Later
<1>2. PICK n \in Nat : n = job.attempts + 1
  BY DEF Job
<1>3. Again(t) = [job EXCEPT !.op = "access", !.attempts = n, !.completion = m]
  BY <1>1, <1>2 DEF Again
<1> QED BY <1>1, <1>3 DEF Job

\* A failure counts as unsafe, and as what it is.
LEMMA CountedIs ==
  ASSUME stats \in Statistics, NEW failure, NEW maintenance \in BOOLEAN, NEW migration \in BOOLEAN
  PROVE  /\ Counted(failure, maintenance, migration) \in Statistics
         /\ Counted(failure, maintenance, migration).unsafe = stats.unsafe + 1
         /\ Counted(failure, maintenance, migration).migration =
              IF migration THEN stats.migration + 1 ELSE stats.migration
<1>1. PICK u \in Nat : u = stats.unsafe + 1 BY DEF Statistics
<1>2. PICK n \in Nat : n = IF maintenance THEN stats.maintenance + 1 ELSE stats.maintenance
  BY DEF Statistics
<1>3. PICK m \in Nat : m = IF migration THEN stats.migration + 1 ELSE stats.migration
  BY DEF Statistics
<1>4. PICK i \in Nat : i = IF failure = "Missing" THEN stats.missing + 1 ELSE stats.missing
  BY DEF Statistics
<1>5. PICK f \in Nat :
        f = IF failure = "Uninitialized" THEN stats.uninitialized + 1 ELSE stats.uninitialized
  BY DEF Statistics
<1>6. PICK x \in Nat : x = IF failure = "Expired" THEN stats.expired + 1 ELSE stats.expired
  BY DEF Statistics
<1>7. Counted(failure, maintenance, migration) =
        [stats EXCEPT !.unsafe = u, !.maintenance = n, !.migration = m,
                      !.missing = i, !.uninitialized = f, !.expired = x]
  BY <1>1, <1>2, <1>3, <1>4, <1>5, <1>6 DEF Counted
<1>8. /\ Counted(failure, maintenance, migration) \in Statistics
      /\ Counted(failure, maintenance, migration).unsafe = u
      /\ Counted(failure, maintenance, migration).migration = m
  BY <1>7 DEF Statistics
<1> QED BY <1>1, <1>3, <1>8

\* What a job needs of the event it serves.
LEMMA WorkingKept ==
  ASSUME Working, job.op # "idle", UNCHANGED <<traceVars, pos>>, DOMAIN ready' = DOMAIN ready,
         DOMAIN allocations' = DOMAIN allocations,
         allocations'[Current.buffer].resident = Allocation.resident,
         allocations'[Current.buffer].size = Allocation.size,
         job'.op = "hint" => job.op = "hint",
         job'.op \notin {"idle", "hint"} =>
           job.op # "hint" /\ job'.line \in FirstLine(Current)..LastLine(Current),
         job'.op \in {"promote", "refresh"} => policy = "adaptive" /\ ~Current.write,
         job'.op \in {"hint", "promote"} =>
           job'.moved < Allocation.lines /\ job'.dest # Allocation.class /\ allocations' = allocations
  PROVE  Working'
<1>1. /\ stage' = "replay" /\ pos' = pos /\ events' = events /\ policy' = policy
      /\ pos' <= Len(events') /\ Current.buffer \in DOMAIN allocations' /\ Allocation.resident
      /\ Current.stream \in DOMAIN ready' /\ events'[pos'] = Current
  BY DEF Working, traceVars, Current, Known
<1> QED BY <1>1 DEF Working, Known, Allocation, Current, InBounds, FirstLine, LastLine

LEMMA Resting ==
  ASSUME job' = Idle
  PROVE  Working'
BY DEF Working, Idle

LEMMA Untouched ==
  ASSUME Typed, Working, UNCHANGED <<traceVars, replayVars>>
  PROVE  Typed' /\ Working'
BY DEF Typed, Working, traceVars, replayVars, Known, Allocation, Current, InBounds, FirstLine, LastLine

LEMMA TraceStep ==
  ASSUME Typed, Working, Load \/ Reject \/ Start \/ Report
  PROVE  Typed' /\ Working'
<1>1. CASE Load
  <2>1. PICK e \in workload.events : events' = Append(events, e)
    BY <1>1 DEF Load
  <2>2. e \in TraceEvent /\ events \in Seq(TraceEvent)
    BY ReplayAssumption DEF Typed
  <2>3. events' \in Seq(TraceEvent) /\ pos \in 1..(Len(events') + 1)
    <3>1. events' \in Seq(TraceEvent) /\ Len(events') = Len(events) + 1
      BY <2>1, <2>2
    <3>2. Len(events) \in Nat /\ pos \in 1..(Len(events) + 1)
      BY DEF Typed
    <3> QED BY <3>1, <3>2
  <2>4. job' = Idle BY <1>1 DEF Load, Typed, replayVars
  <2> QED BY <1>1, <2>3, <2>4, Resting DEF Load, Typed, replayVars
<1>2. CASE Reject
  <2>1. events' = <<>> /\ pos' = 1 /\ job' = Idle
    BY <1>2 DEF Reject, Typed, replayVars
  <2> QED BY <1>2, <2>1, Resting DEF Reject, Typed, replayVars
<1>3. CASE Start
  <2>1. job' = Idle BY <1>3 DEF Start, Typed, replayVars
  <2> QED BY <1>3, <2>1, Resting DEF Start, Typed, replayVars
<1>4. CASE Report
  <2>1. job' = job /\ job.op = "idle"
    <3>1. pos > Len(events) /\ pos \in 1..(Len(events) + 1) /\ job' = job
      BY <1>4 DEF Report, Typed, replayVars
    <3>2. Len(events) \in Nat BY DEF Typed
    <3> QED BY <3>1, <3>2 DEF Working
  <2>2. Working' BY <2>1 DEF Working
  <2> QED BY <1>4, <2>2 DEF Report, Typed, replayVars
<1> QED BY <1>1, <1>2, <1>3, <1>4

LEMMA StatsAre ==
  ASSUME stats \in Statistics
  PROVE  /\ [stats EXCEPT !.unsafe = @ + 1, !.allocation = @ + 1] \in Statistics
         /\ [stats EXCEPT !.unsafe = @ + 1, !.migration = @ + 1] \in Statistics
         /\ [stats EXCEPT !.unsafe = @ + 1, !.rejected = @ + 1] \in Statistics
         /\ \A n \in Nat : /\ [stats EXCEPT !.writeBytes = @ + n] \in Statistics
                           /\ [stats EXCEPT !.readBytes = @ + n] \in Statistics
<1>1. ASSUME NEW u \in Nat, NEW a \in Nat, NEW m \in Nat, NEW r \in Nat
      PROVE  /\ [stats EXCEPT !.unsafe = u, !.allocation = a] \in Statistics
             /\ [stats EXCEPT !.unsafe = u, !.migration = m] \in Statistics
             /\ [stats EXCEPT !.unsafe = u, !.rejected = r] \in Statistics
  BY DEF Statistics
<1>2. /\ stats.unsafe + 1 \in Nat /\ stats.allocation + 1 \in Nat /\ stats.migration + 1 \in Nat
      /\ stats.rejected + 1 \in Nat
  BY DEF Statistics
<1>3. ASSUME NEW w \in Nat
      PROVE  /\ [stats EXCEPT !.writeBytes = w] \in Statistics
             /\ [stats EXCEPT !.readBytes = w] \in Statistics
  BY DEF Statistics
<1>4. ASSUME NEW n \in Nat PROVE stats.writeBytes + n \in Nat /\ stats.readBytes + n \in Nat
  BY DEF Statistics
<1> QED BY <1>1, <1>2, <1>3, <1>4

LEMMA PlacementsAre ==
  ASSUME Typed
  PROVE  /\ \A b \in Buffer, p \in Placement : Placements(Put(allocations, b, p))
         /\ \A b : Placements([c \in DOMAIN allocations \ {b} |-> allocations[c]])
         /\ \A b \in DOMAIN allocations, d \in Class :
              Placements([allocations EXCEPT ![b].class = d])
<1>1. ASSUME NEW b \in Buffer, NEW p \in Placement PROVE Placements(Put(allocations, b, p))
  <2>1. Put(allocations, b, p) \in [DOMAIN allocations \cup {b} -> Placement]
        /\ IsFiniteSet(DOMAIN allocations \cup {b})
    BY PutIs DEF Typed
  <2> QED BY <2>1 DEF Placements, Typed
<1>2. ASSUME NEW b PROVE Placements([c \in DOMAIN allocations \ {b} |-> allocations[c]])
  <2>1. IsFiniteSet(DOMAIN allocations \ {b})
    BY FS_Subset DEF Typed
  <2> QED BY <2>1 DEF Placements, Typed
<1>3. ASSUME NEW b \in DOMAIN allocations, NEW d \in Class
      PROVE  Placements([allocations EXCEPT ![b].class = d])
  <2>1. [allocations[b] EXCEPT !.class = d] \in Placement
    BY DEF Typed, Placement
  <2> QED BY <2>1 DEF Placements, Typed
<1> QED BY <1>1, <1>2, <1>3

LEMMA Begun1 ==
  ASSUME Typed, NEW kind, Begins(kind)
  PROVE  /\ stage = "replay" /\ fault = "none" /\ job.op = "idle" /\ pos <= Len(events)
         /\ Current.kind = kind /\ Current \in TraceEvent /\ stats \in Statistics
BY CurrentIs DEF Begins, Typed

LEMMA ThrowIs ==
  ASSUME Typed, Working, NEW name, Throw(name)
  PROVE  Typed' /\ Working' /\ UNCHANGED <<lines, operation, traceVars, replayVars>> /\ fault' = name
BY Untouched DEF Throw

LEMMA AllocateStep ==
  ASSUME Typed, Working, Allocate
  PROVE  Typed' /\ Working'
<1>1. CASE Known BY <1>1, ThrowIs DEF Allocate
<1>2. CASE ~Known
  <2>1. PICK base \in Nat, n \in Nat \ {0}, class \in Class, fits \in BOOLEAN :
          Placing(base, n, class, fits)
    BY <1>2, AllocateIs
  <2>2. stage = "replay" /\ pos <= Len(events) /\ Current \in TraceEvent /\ stats \in Statistics
    BY Begun1 DEF Allocate
  <2> DEFINE p == [base |-> base, size |-> Current.size, lines |-> n,
                   class |-> class, resident |-> fits]
  <2>3. p \in Placement /\ Current.buffer \in Buffer /\ Current.size \in Nat
    BY <2>2 DEF Placement, TraceEvent
  <2>4. allocations' = Put(allocations, Current.buffer, p)
    BY <2>1 DEF Placing
  <2> HIDE DEF p
  <2>5. Placements(allocations')
    <3>1. Placements(Put(allocations, Current.buffer, p))
      BY <2>3, PlacementsAre
    <3> QED BY <2>4, <3>1 DEF Placements
  <2>6. nextBase' \in Nat
    BY <2>1 DEF Placing
  <2>7. liveBytes' \in [Class -> Int]
    <3>1. liveBytes[class] \in Int BY DEF Typed
    <3>2. (IF fits THEN liveBytes[class] + Current.size ELSE liveBytes[class]) \in Int
      BY <2>3, <3>1
    <3> QED BY <2>1, <3>2 DEF Placing, Typed
  <2>8. stats' \in Statistics
    BY <2>1, <2>2, StatsAre DEF Placing
  <2>9. Streams(ready') /\ job' = Idle /\ pos' = pos + 1 /\ UNCHANGED traceVars
    BY <2>1, <2>2, StreamsAre DEF Placing, Streams
  <2> QED BY <2>2, <2>5, <2>6, <2>7, <2>8, <2>9, TypedAfter, Resting, JobsAre
<1> QED BY <1>1, <1>2

LEMMA FreeStep ==
  ASSUME Typed, Working, Laid, Sound, Free
  PROVE  Typed' /\ Working'
<1>1. CASE ~Known BY <1>1, ThrowIs DEF Free
<1>2. CASE Known
  <2>1. stage = "replay" /\ pos <= Len(events) /\ Current \in TraceEvent /\ stats \in Statistics
        /\ fault = "none"
    BY Begun1 DEF Free
  <2>2. /\ allocations' = [b \in DOMAIN allocations \ {Current.buffer} |-> allocations[b]]
        /\ pos' = pos + 1 /\ job' = Idle /\ UNCHANGED <<nextBase, stats, traceVars>>
    BY <1>2 DEF Free, Ends
  <2>3. Placements(allocations')
    <3>1. Placements([b \in DOMAIN allocations \ {Current.buffer} |-> allocations[b]])
      BY PlacementsAre
    <3> QED BY <2>2, <3>1 DEF Placements
  <2>4. Streams(ready')
    <3>1. CASE Allocation.resident
      <4>1. PICK t \in Nat : t = Max({AllReady(Arrived), BankReady})
        BY <2>1, StampAllIs
      <4>2. ready' = [k \in DOMAIN Arrived |-> t]
        BY <1>2, <3>1, <4>1 DEF Free, StampAll
      <4> QED BY <2>1, <4>2, StreamsAre DEF Streams
    <3>2. CASE ~Allocation.resident
      <4>1. ready' = Arrived BY <1>2, <3>2 DEF Free
      <4> QED BY <2>1, <4>1, StreamsAre DEF Streams
    <3> QED BY <3>1, <3>2
  <2>5. liveBytes' \in [Class -> Int]
    <3> DEFINE c == Allocation.class
    <3>1. c \in Class /\ liveBytes[c] - Allocation.size \in Int
      BY <1>2, PlacedIs DEF Known, Allocation, Typed
    <3>2. liveBytes' = liveBytes \/ liveBytes' = [liveBytes EXCEPT ![c] = @ - Allocation.size]
      BY <1>2 DEF Free
    <3> HIDE DEF c
    <3> QED BY <3>1, <3>2 DEF Typed
  <2>6. nextBase' \in Nat BY <2>2 DEF Typed
  <2> QED BY <2>1, <2>2, <2>3, <2>4, <2>5, <2>6, TypedAfter, Resting, JobsAre
<1> QED BY <1>1, <1>2

LEMMA HintStep ==
  ASSUME Typed, Working, Laid, Hint
  PROVE  Typed' /\ Working'
<1>1. CASE ~Known BY <1>1, ThrowIs DEF Hint
<1>2. CASE Known
  <2>1. stage = "replay" /\ pos <= Len(events) /\ Current \in TraceEvent /\ stats \in Statistics
        /\ Current.kind = "HINT"
    BY Begun1 DEF Hint
  <2>2. ready' = Arrived /\ UNCHANGED <<allocations, nextBase, liveBytes, traceVars>>
    BY <1>2 DEF Hint
  <2>3. Streams(ready') /\ UNCHANGED Heap /\ Current.stream \in DOMAIN ready'
    BY <2>1, <2>2, StreamsAre, ArrivedIs DEF Streams, Heap
  <2>4. CASE Ends /\ (UNCHANGED stats \/ stats' = [stats EXCEPT !.unsafe = @ + 1, !.migration = @ + 1])
    BY <2>1, <2>2, <2>3, <2>4, TypedAfter, Resting, JobsAre, StatsAre DEF Ends
  <2>5. CASE /\ job' = [Idle EXCEPT !.op = "hint", !.dest = Current.hint, !.at = Clock]
             /\ Allocation.resident /\ Allocation.class # Current.hint /\ UNCHANGED <<pos, stats>>
    <3>1. Current.hint \in Class /\ Clock \in Nat
      BY <2>1, ArrivedIs DEF TraceEvent
    <3>2. job' \in Job /\ job'.op = "hint" /\ job'.dest = Current.hint /\ job'.moved = 0
      BY <2>5, <3>1, JobsAre DEF Idle
    <3>3. Typed'
      BY <2>1, <2>2, <2>3, <2>5, <3>2, TypedAfter
    <3>4. Allocation.lines \in Nat \ {0}
      BY <1>2, PlacedIs DEF Known, Allocation
    <3>5. stage' = stage /\ events' = events /\ pos' = pos /\ allocations' = allocations
      BY <2>2, <2>5 DEF traceVars
    <3> QED BY <1>2, <2>1, <2>3, <2>5, <3>2, <3>3, <3>4, <3>5 DEF Working, Known, Allocation, Current
  <2> QED BY <1>2, <2>4, <2>5 DEF Hint
<1> QED BY <1>1, <1>2

LEMMA AccessStep ==
  ASSUME Typed, Working, Laid, Access
  PROVE  Typed' /\ Working'
<1>1. CASE ~Known \/ ~InBounds(Current, Allocation.size) BY <1>1, ThrowIs DEF Access
<1>2. CASE Known /\ InBounds(Current, Allocation.size)
  <2>1. stage = "replay" /\ pos <= Len(events) /\ Current \in TraceEvent /\ stats \in Statistics
        /\ Current.kind = "ACCESS"
    BY Begun1 DEF Access
  <2>2. ready' = Arrived /\ UNCHANGED <<allocations, nextBase, liveBytes, traceVars>>
    BY <1>2 DEF Access
  <2>3. Streams(ready') /\ UNCHANGED Heap /\ Current.stream \in DOMAIN ready'
    BY <2>1, <2>2, StreamsAre, ArrivedIs DEF Streams, Heap
  <2>4. CASE Ends /\ stats' = [stats EXCEPT !.unsafe = @ + 1, !.rejected = @ + 1]
    BY <2>1, <2>2, <2>3, <2>4, TypedAfter, Resting, JobsAre, StatsAre DEF Ends
  <2>5. CASE /\ job' = [Idle EXCEPT !.op = "access", !.line = FirstLine(Current), !.completion = Clock]
             /\ Allocation.resident /\ UNCHANGED <<pos, stats>>
    <3>1. Allocation.size \in Nat
      BY <1>2, PlacedIs DEF Known, Allocation
    <3>2. FirstLine(Current) \in Nat /\ LastLine(Current) \in Nat
          /\ FirstLine(Current) <= LastLine(Current) /\ Clock \in Nat
      BY <1>2, <2>1, <3>1, AccessLines, ArrivedIs
    <3>3. job' \in Job /\ job'.op = "access" /\ job'.line = FirstLine(Current)
      BY <2>5, <3>2, JobsAre DEF Idle
    <3>4. Typed'
      BY <2>1, <2>2, <2>3, <2>5, <3>3, TypedAfter
    <3>5. job'.line \in FirstLine(Current)..LastLine(Current)
      BY <3>2, <3>3
    <3>6. stage' = stage /\ events' = events /\ pos' = pos /\ allocations' = allocations
      BY <2>2, <2>5 DEF traceVars
    <3> QED BY <1>2, <2>1, <2>3, <2>5, <3>3, <3>4, <3>5, <3>6
         DEF Working, Known, Allocation, Current, InBounds, FirstLine, LastLine
  <2> QED BY <1>2, <2>4, <2>5 DEF Access
<1> QED BY <1>1, <1>2

LEMMA PlainStep ==
  ASSUME Typed, Working, Sound, Compute \/ Phase \/ Barrier
  PROVE  Typed' /\ Working'
<1>1. /\ stage = "replay" /\ fault = "none" /\ pos <= Len(events) /\ Current \in TraceEvent
      /\ stats \in Statistics
  BY Begun1 DEF Compute, Phase, Barrier
<1>2. /\ pos' = pos + 1 /\ job' = Idle /\ UNCHANGED <<allocations, nextBase, stats, liveBytes, traceVars>>
  BY DEF Compute, Phase, Barrier, Ends
<1>3. Streams(ready')
  <2>1. CASE Compute
    <3>1. PICK t \in Nat : t = Clock + Current.cycles
      BY <1>1, ArrivedIs DEF TraceEvent
    <3>2. ready' = [Arrived EXCEPT ![Current.stream] = Later(@, t)]
      BY <2>1, <3>1 DEF Compute, Stamp
    <3> QED BY <1>1, <3>2, StreamsAre DEF Streams
  <2>2. CASE Phase
    <3>1. ready' = Arrived BY <2>2 DEF Phase
    <3> QED BY <1>1, <3>1, StreamsAre DEF Streams
  <2>3. CASE Barrier
    <3>1. PICK t \in Nat : t = Max({AllReady(Arrived), BankReady})
      BY <1>1, StampAllIs
    <3>2. ready' = [k \in DOMAIN Arrived |-> t]
      BY <2>3, <3>1 DEF Barrier, StampAll
    <3> QED BY <1>1, <3>2, StreamsAre DEF Streams
  <2> QED BY <2>1, <2>2, <2>3
<1> QED BY <1>1, <1>2, <1>3, TypedAfter, Resting, JobsAre DEF Heap

\* One line further, or the end of the access.
LEMMA AccessedIs ==
  ASSUME Typed, Working, Laid, job.op = "access", operation' \in Operation, AccessedLine,
         UNCHANGED <<allocations, nextBase, liveBytes, traceVars>>
  PROVE  /\ Typed' /\ Working'
         /\ ready' = [ready EXCEPT ![Current.stream] =
                        IF operation'.ok THEN Later(job.completion, operation'.completion)
                        ELSE job.completion]
         /\ \/ Ends /\ ~operation'.ok /\ stats' = Counted(operation'.failure, FALSE, FALSE)
            \/ /\ Ends /\ operation'.ok
               /\ stats' = IF Current.write THEN [stats EXCEPT !.writeBytes = @ + Current.size]
                           ELSE [stats EXCEPT !.readBytes = @ + Current.size]
            \/ /\ operation'.ok /\ UNCHANGED <<pos, stats>> /\ job'.op = "access"
               /\ job'.completion = Later(job.completion, operation'.completion)
<1> DEFINE k == Current.stream
           completion == Later(job.completion, operation'.completion)
<1>1. /\ k \in DOMAIN ready /\ job.completion \in Nat /\ operation'.completion \in Nat
      /\ Current \in TraceEvent /\ job.line \in Nat /\ job.op # "idle" /\ stage = "replay"
      /\ pos <= Len(events) /\ stats \in Statistics /\ operation'.ok \in BOOLEAN
  BY AtWork DEF Job, Operation, Working, Typed
<1>2. completion \in Nat
  BY <1>1 DEF Later
<1>3. UNCHANGED Heap BY DEF Heap
<1> HIDE DEF completion
<1>4. CASE ~operation'.ok
  <2>1. /\ Ends /\ stats' = Counted(operation'.failure, FALSE, FALSE)
        /\ ready' = [ready EXCEPT ![k] = job.completion]
    BY <1>4 DEF AccessedLine
  <2>2. stats' \in Statistics
    BY <1>1, <2>1, CountedIs
  <2>3. Streams(ready')
    BY <1>1, <2>1, ReadySet DEF Streams
  <2> QED BY <1>1, <1>3, <1>4, <2>1, <2>2, <2>3, TypedAfter, Resting, JobsAre DEF Ends
<1>5. CASE operation'.ok
  <2>1. ready' = [ready EXCEPT ![k] = completion]
    BY <1>5 DEF AccessedLine, completion
  <2>2. Streams(ready')
    BY <1>1, <1>2, <2>1, ReadySet DEF Streams
  <2>3. CASE job.line = LastLine(Current)
    <3>1. /\ Ends
          /\ stats' = IF Current.write THEN [stats EXCEPT !.writeBytes = @ + Current.size]
                      ELSE [stats EXCEPT !.readBytes = @ + Current.size]
      BY <1>5, <2>3 DEF AccessedLine
    <3>2. stats' \in Statistics
      <4>1. PICK n \in Nat : n = Current.size BY <1>1 DEF TraceEvent
      <4>2. /\ [stats EXCEPT !.writeBytes = @ + n] \in Statistics
            /\ [stats EXCEPT !.readBytes = @ + n] \in Statistics
        BY <1>1, StatsAre
      <4> QED BY <3>1, <4>1, <4>2
    <3>3. Typed' /\ Working'
      BY <1>1, <1>3, <2>2, <3>1, <3>2, TypedAfter, Resting, JobsAre DEF Ends
    <3> QED BY <1>5, <2>1, <3>1, <3>3 DEF completion
  <2>4. CASE job.line # LastLine(Current)
    <3>1. /\ job' = [Idle EXCEPT !.op = "access", !.line = job.line + 1, !.completion = completion]
          /\ UNCHANGED <<pos, stats>>
      BY <1>5, <2>4 DEF AccessedLine, completion
    <3>2. /\ job' \in Job /\ job'.op = "access" /\ job'.line = job.line + 1
          /\ job'.completion = completion
      <4>1. PICK n \in Nat : n = job.line + 1 BY <1>1
      <4>2. job' = [Idle EXCEPT !.op = "access", !.line = n, !.completion = completion]
        BY <3>1, <4>1
      <4>3. [Idle EXCEPT !.op = "access", !.line = n, !.completion = completion] \in Job
        BY <1>2, JobsAre
      <4>4. job'.op = "access" /\ job'.line = n /\ job'.completion = completion
        BY <4>2 DEF Idle
      <4> QED BY <4>1, <4>2, <4>3, <4>4
    <3>3. job'.line \in FirstLine(Current)..LastLine(Current)
      <4>1. /\ Allocation.size \in Nat /\ InBounds(Current, Allocation.size)
            /\ job.line \in FirstLine(Current)..LastLine(Current)
        BY <1>1, AtWork DEF Working, Placement
      <4>2. FirstLine(Current) \in Nat /\ LastLine(Current) \in Nat
        BY <1>1, <4>1, AccessLines
      <4> QED BY <2>4, <3>2, <4>1, <4>2
    <3>4. DOMAIN ready' = DOMAIN ready BY <2>1
    <3>5. Working'
      BY <1>1, <3>1, <3>2, <3>3, <3>4, WorkingKept DEF Allocation
    <3>6. Typed'
      BY <1>1, <1>3, <2>2, <3>1, <3>2, TypedAfter
    <3> QED BY <1>5, <2>1, <3>1, <3>2, <3>5, <3>6 DEF completion
  <2> QED BY <2>3, <2>4
<1> QED BY <1>1, <1>4, <1>5

LEMMA ServeStep ==
  ASSUME Typed, Working, Laid, operation' \in Operation, Write \/ Read
  PROVE  Typed' /\ Working'
<1>1. /\ job.op = "access" /\ UNCHANGED <<allocations, nextBase, liveBytes, traceVars>>
  BY DEF Write, Read, Serving, After
<1>2. CASE fault' = "none"
  BY <1>1, <1>2, AccessedIs DEF Write, Read
<1>3. CASE fault' # "none"
  <2>1. UNCHANGED <<traceVars, replayVars>>
    BY <1>1, <1>3 DEF Write, Read, replayVars
  <2> QED BY <2>1, Untouched
<1> QED BY <1>2, <1>3

\* The loop of ensure_retained goes round.
LEMMA GoesRound ==
  ASSUME Typed, Working, job.op \notin {"idle", "hint"}, NEW t \in Nat, job' = Again(t),
         UNCHANGED <<traceVars, pos, stats, ready>>,
         UNCHANGED Heap \/ /\ Placements(allocations') /\ nextBase' \in Nat
                           /\ liveBytes' \in [Class -> Int] /\ DOMAIN allocations' = DOMAIN allocations
                           /\ allocations'[Current.buffer].resident = Allocation.resident
                           /\ allocations'[Current.buffer].size = Allocation.size
  PROVE  Typed' /\ Working'
<1>1. job' \in Job /\ job'.op = "access" /\ job'.line = job.line
  BY AgainIs DEF Typed
<1>2. job.line \in FirstLine(Current)..LastLine(Current) /\ stage = "replay" /\ pos <= Len(events)
  BY DEF Working
<1>3. Streams(ready') /\ stats' \in Statistics
  BY <1>2, StreamsAre DEF Typed, Streams
<1>4. Working'
  BY <1>1, <1>2, WorkingKept DEF Heap, Allocation
<1> QED BY <1>1, <1>2, <1>3, <1>4, TypedAfter

LEMMA RefreshedIs ==
  ASSUME Typed, Working, Laid, job.op \in {"access", "refresh"}, operation' \in Operation,
         NEW start, NEW deadline, Refreshed(start, deadline)
  PROVE  Typed' /\ Working'
<1>1. /\ UNCHANGED <<allocations, ready, liveBytes, nextBase, traceVars>>
      /\ operation'.completion \in Nat /\ stage = "replay" /\ pos <= Len(events)
  BY DEF Refreshed, After, Operation, Working
<1>2. CASE fault' # "none"
  <2>1. UNCHANGED <<traceVars, replayVars>>
    BY <1>1, <1>2 DEF Refreshed, replayVars
  <2> QED BY <2>1, Untouched
<1>3. CASE job' = Again(operation'.completion) /\ UNCHANGED <<pos, stats>>
  BY <1>1, <1>3, GoesRound DEF Heap
<1>4. CASE /\ stats' = Counted(IF operation'.ok THEN "Expired" ELSE operation'.failure, TRUE, FALSE)
           /\ Ends
  <2>1. stats' \in Statistics
    BY <1>4, CountedIs DEF Typed
  <2>2. Streams(ready')
    BY <1>1, StreamsAre DEF Streams
  <2> QED BY <1>1, <1>4, <2>1, <2>2, TypedAfter, Resting, JobsAre DEF Ends, Heap
<1> QED BY <1>2, <1>3, <1>4 DEF Refreshed

LEMMA PromoteStep ==
  ASSUME Typed, Working, Laid, Sound, Promote
  PROVE  Typed' /\ Working'
<1> DEFINE d == NextClass(lines[Address].class)
<1>1. /\ job.op = "access" /\ ~Current.write /\ policy = "adaptive"
      /\ UNCHANGED <<memoryVars, traceVars, pos, allocations, nextBase, ready, stats, liveBytes>>
  BY DEF Promote, Maintenance, Serving, Promotes
<1>2. PICK start \in Nat : start = MaintenanceStart(Address)
  BY <1>1, AtWork, DeadlineIs
<1>3. Deadline(Address) \in Nat /\ d \in Class
  BY <1>1, AtWork, DeadlineIs DEF NextClass, Class, Ephemeral, Epoch, Durable
<1>4. CASE job' = Again(start)
  BY <1>1, <1>4, GoesRound DEF Heap
<1>5. CASE /\ Allocation.class # d
           /\ job' = [job EXCEPT !.op = "promote", !.dest = d, !.moved = 0, !.at = start,
                                 !.start = start, !.deadline = Deadline(Address)]
  <2>1. PICK c \in Class : c = d BY <1>3
  <2>2. PICK t \in Nat : t = Deadline(Address) BY <1>3
  <2>3. job' = [job EXCEPT !.op = "promote", !.dest = c, !.moved = 0, !.at = start,
                           !.start = start, !.deadline = t]
    BY <1>5, <2>1, <2>2
  <2>4. job \in Job BY DEF Typed
  <2>5. job' \in Job /\ job'.op = "promote" /\ job'.dest = c /\ job'.moved = 0 /\ job'.line = job.line
    BY <2>3, <2>4 DEF Job
  <2>6. /\ stage = "replay" /\ pos <= Len(events) /\ Streams(ready') /\ stats' \in Statistics
        /\ job.line \in FirstLine(Current)..LastLine(Current) /\ Allocation.lines \in Nat \ {0}
    BY <1>1, StreamsAre, AtWork DEF Working, Typed, Streams
  <2>7. Working'
    <3>1. job'.moved < Allocation.lines /\ job'.dest # Allocation.class
      BY <1>5, <2>1, <2>5, <2>6
    <3> QED BY <1>1, <2>5, <2>6, <3>1, WorkingKept DEF Allocation
  <2> QED BY <1>1, <2>5, <2>6, <2>7, TypedAfter DEF Heap
<1> QED BY <1>2, <1>4, <1>5 DEF Promote

LEMMA MaintenanceStep ==
  ASSUME Typed, Working, Laid, Sound, operation' \in Operation,
         Promote \/ Refresh \/ RefreshAfterPromotion \/ Exhausted
  PROVE  Typed' /\ Working'
<1>1. CASE Promote BY <1>1, PromoteStep
<1>2. CASE Refresh BY <1>2, RefreshedIs DEF Refresh, Maintenance, Serving
<1>3. CASE RefreshAfterPromotion BY <1>3, RefreshedIs DEF RefreshAfterPromotion, Serving
<1>4. CASE Exhausted BY <1>4, ThrowIs DEF Exhausted
<1> QED BY <1>1, <1>2, <1>3, <1>4

LEMMA MigrateStep ==
  ASSUME Typed, Working, Laid, operation' \in Operation, Migrate
  PROVE  Typed' /\ Working'
<1> DEFINE completion == Later(job.at, operation'.completion)
           k == Current.stream
<1>1. /\ job.op \in {"hint", "promote"} /\ job \in Job /\ UNCHANGED <<nextBase, traceVars>>
      /\ stage = "replay" /\ pos <= Len(events) /\ operation'.completion \in Nat
      /\ stats \in Statistics
  BY DEF Migrate, After, Working, Typed, Operation
<1>2. completion \in Nat /\ job.at \in Nat /\ job.moved \in Nat
  BY <1>1 DEF Later, Job
<1>3. /\ k \in DOMAIN ready /\ ready[k] \in Nat /\ Allocation.lines \in Nat
      /\ Allocation \in Placement /\ Current.buffer \in DOMAIN allocations
  BY <1>1, AtWork
<1>4. Streams(ready)
  BY <1>1, StreamsAre
<1> HIDE DEF completion
<1>5. CASE fault' # "none"
  <2>1. UNCHANGED <<traceVars, replayVars>>
    BY <1>1, <1>5 DEF Migrate, replayVars
  <2> QED BY <2>1, Untouched
<1>6. CASE fault' = "none" /\ ~operation'.ok
  <2>1. /\ stats' = Counted(operation'.failure, job.op = "promote", TRUE)
        /\ IF job.op = "hint" THEN Ends ELSE job' = [job EXCEPT !.op = "refresh"] /\ UNCHANGED pos
        /\ UNCHANGED <<ready, allocations, liveBytes>>
    BY <1>6 DEF Migrate
  <2>2. stats' \in Statistics
    BY <1>1, <2>1, CountedIs
  <2>3. UNCHANGED Heap /\ Streams(ready')
    BY <1>1, <1>4, <2>1 DEF Heap, Streams
  <2>4. CASE job.op = "hint"
    BY <1>1, <2>1, <2>2, <2>3, <2>4, TypedAfter, Resting, JobsAre DEF Ends
  <2>5. CASE job.op = "promote"
    <3>1. job' = [job EXCEPT !.op = "refresh"] /\ pos' = pos
      BY <2>1, <2>5
    <3>2. job' \in Job /\ job'.op = "refresh" /\ job'.line = job.line
      BY <1>1, <3>1 DEF Job
    <3>3. job.line \in FirstLine(Current)..LastLine(Current) /\ policy = "adaptive" /\ ~Current.write
      BY <2>5 DEF Working
    <3>4. Working'
      BY <1>1, <2>1, <2>5, <3>1, <3>2, <3>3, WorkingKept DEF Allocation
    <3> QED BY <1>1, <2>2, <2>3, <3>1, <3>2, <3>4, TypedAfter
  <2> QED BY <1>1, <2>4, <2>5
<1>7. CASE fault' = "none" /\ operation'.ok /\ job.moved + 1 < Allocation.lines
  <2>1. /\ job' = [job EXCEPT !.moved = @ + 1, !.at = completion]
        /\ UNCHANGED <<pos, ready, stats, allocations, liveBytes>>
    BY <1>7 DEF Migrate, completion
  <2>2. PICK m \in Nat : m = job.moved + 1 BY <1>2
  <2>3. job' = [job EXCEPT !.moved = m, !.at = completion]
    BY <2>1, <2>2
  <2>4. job' \in Job /\ job'.op = job.op /\ job'.moved = m /\ job'.dest = job.dest /\ job'.line = job.line
    BY <1>1, <1>2, <2>3 DEF Job
  <2>5. /\ job.op = "promote" => /\ job.line \in FirstLine(Current)..LastLine(Current)
                                 /\ policy = "adaptive" /\ ~Current.write
        /\ job.dest # Allocation.class
    BY <1>1 DEF Working
  <2>6. Working'
    BY <1>1, <1>7, <2>1, <2>2, <2>4, <2>5, WorkingKept DEF Allocation
  <2>7. UNCHANGED Heap /\ Streams(ready')
    BY <1>1, <1>4, <2>1 DEF Heap, Streams
  <2> QED BY <1>1, <2>1, <2>4, <2>6, <2>7, TypedAfter
<1>8. CASE Relocated(completion)
  <2>1. /\ allocations' = [allocations EXCEPT ![Current.buffer].class = job.dest]
        /\ liveBytes' = [liveBytes EXCEPT ![Allocation.class] = @ - Allocation.size,
                                          ![job.dest] = @ + Allocation.size]
        /\ UNCHANGED stats
    BY <1>8 DEF Relocated
  <2>2. job.dest \in Class /\ Allocation.class \in Class /\ Allocation.size \in Nat
    BY <1>1, <1>3 DEF Job, Placement
  <2>3. Placements(allocations')
    <3>1. Placements([allocations EXCEPT ![Current.buffer].class = job.dest])
      BY <1>3, <2>2, PlacementsAre
    <3> QED BY <2>1, <3>1 DEF Placements
  <2>4. liveBytes' \in [Class -> Int]
    BY <2>1, <2>2 DEF Typed
  <2>5. /\ DOMAIN allocations' = DOMAIN allocations
        /\ allocations'[Current.buffer].resident = Allocation.resident
        /\ allocations'[Current.buffer].size = Allocation.size
    BY <1>3, <2>1 DEF Allocation, Placement
  <2>6. nextBase' \in Nat BY <1>1 DEF Typed
  <2>7. CASE job.op = "hint"
    <3>1. ready' = [ready EXCEPT ![k] = Later(@, completion)] /\ Ends
      BY <1>8, <2>7 DEF Relocated
    <3>2. PICK t \in Nat : t = Later(ready[k], completion)
      BY <1>2, <1>3 DEF Later
    <3>3. ready' = [ready EXCEPT ![k] = t] BY <3>1, <3>2
    <3>4. Streams(ready') BY <1>3, <3>3, ReadySet DEF Streams
    <3> QED BY <1>1, <2>1, <2>3, <2>4, <2>6, <3>1, <3>4, TypedAfter, Resting, JobsAre DEF Ends
  <2>8. CASE job.op = "promote"
    <3>1. job' = Again(completion) /\ UNCHANGED <<pos, ready>>
      BY <1>8, <2>8 DEF Relocated
    <3> QED BY <1>1, <1>2, <2>1, <2>3, <2>4, <2>5, <2>6, <2>8, <3>1, GoesRound
  <2> QED BY <1>1, <2>7, <2>8
<1> QED BY <1>5, <1>6, <1>7, <1>8 DEF Migrate, completion

LEMMA ReplayStep ==
  ASSUME Typed, Working, Laid, Sound, [Next]_vars
  PROVE  Typed' /\ Working'
<1>1. operation' \in Operation
  BY SoundStep DEF Sound
<1>2. CASE UNCHANGED vars
  BY <1>2, Untouched DEF vars, replayVars, traceVars
<1>3. CASE Load \/ Reject \/ Start \/ Report
  BY <1>3, TraceStep
<1>4. CASE Replay
  BY <1>1, <1>4, AllocateStep, FreeStep, HintStep, AccessStep, PlainStep, ServeStep,
     MaintenanceStep, MigrateStep DEF Replay
<1> QED BY <1>2, <1>3, <1>4 DEF Next

-----------------------------------------------------------------------------
(* The commands of an access and of a migration.                             *)

LEMMA ReadCommand ==
  ASSUME Typed, Working, Laid, Sound, Read
  PROVE  Commanded(Address, job.completion) /\ lines'[Address].class = lines[Address].class
         /\ fault' # "class"
<1>1. job.op = "access" /\ fault = "none" /\ ReadLine(Address, job.completion)
  BY DEF Read, Serving, After
<1> QED BY <1>1, AtWork, SoundMemory, ReadIs DEF Job

LEMMA WriteCommand ==
  ASSUME Typed, Working, Laid, Sound, Write
  PROVE  Commanded(Address, job.completion) /\ lines'[Address].class = lines[Address].class
         /\ fault' # "early" /\ (fault' = "class" => lines[Address].class # Allocation.class)
<1>1. job.op = "access" /\ fault = "none" /\ WriteLine(Address, Allocation.class, job.completion)
  BY DEF Write, Serving, After
<1> QED BY <1>1, AtWork, SoundMemory, WriteIs DEF Job, Placement

LEMMA RefreshCommand ==
  ASSUME Typed, Working, Laid, Sound, Refresh \/ RefreshAfterPromotion
  PROVE  \E issue \in Nat : Commanded(Address, issue) /\ lines'[Address].class = lines[Address].class
                            /\ fault' # "class"
<1>1. PICK issue : /\ job.op \in {"access", "refresh"} /\ fault = "none"
                   /\ RefreshLine(Address, issue) /\ issue \in {MaintenanceStart(Address), job.start}
  BY DEF Refresh, RefreshAfterPromotion, Maintenance, Serving, Refreshed, After
<1>2. Address \in Line /\ job.start \in Nat
  BY <1>1, AtWork DEF Job
<1>3. issue \in Nat
  BY <1>1, <1>2, DeadlineIs
<1> QED BY <1>1, <1>2, <1>3, SoundMemory, RefreshIs

LEMMA MigrateCommand ==
  ASSUME Typed, Working, Laid, Sound, Migrate
  PROVE  /\ Commanded(Allocation.base + job.moved, job.at) /\ fault' # "class"
         /\ fault' = "none" /\ operation'.ok =>
              lines'[Allocation.base + job.moved].class = job.dest
<1>1. /\ job.op \in {"hint", "promote"} /\ fault = "none"
      /\ MigrateLine(Allocation.base + job.moved, job.dest, job.at)
  BY DEF Migrate, Serving, After
<1> QED BY <1>1, AtWork, SoundMemory, MigrateIs DEF Job

\* A line of the buffer the job is at, and no other, is commanded.
Serves == Write \/ Read \/ Refresh \/ RefreshAfterPromotion

LEMMA ServesOne ==
  ASSUME Typed, Working, Laid, Sound, Serves \/ Migrate
  PROVE  /\ Current.buffer \in DOMAIN allocations /\ Allocation.resident /\ fault = "none"
         /\ \E l \in LinesIn(Current.buffer), issue \in Nat : l \in Line /\ Commanded(l, issue)
<1>1. job.op # "idle" /\ fault = "none"
  BY DEF Serves, Write, Read, Refresh, RefreshAfterPromotion, Maintenance, Serving, Migrate
<1>2. Current.buffer \in DOMAIN allocations /\ Allocation.resident /\ job \in Job
  BY <1>1, AtWork
<1>3. CASE Serves
  <2>1. job.op # "hint"
    BY <1>3 DEF Serves, Write, Read, Refresh, RefreshAfterPromotion, Maintenance, Serving
  <2>2. Address \in LinesIn(Current.buffer) /\ Address \in Line
    BY <1>1, <2>1, AtWork
  <2>3. job.completion \in Nat BY <1>2 DEF Job
  <2> QED BY <1>1, <1>2, <1>3, <2>2, <2>3, ReadCommand, WriteCommand, RefreshCommand DEF Serves
<1>4. CASE Migrate
  <2>1. job.op \in {"hint", "promote"} BY <1>4 DEF Migrate
  <2>2. job.at \in Nat BY <1>2 DEF Job
  <2> QED BY <1>1, <1>2, <1>4, <2>1, <2>2, AtWork, MigrateCommand
<1> QED BY <1>3, <1>4

-----------------------------------------------------------------------------
(* The layout.                                                               *)

\* Nothing is placed, and nothing is given back.
Stays ==
  /\ DOMAIN allocations' = DOMAIN allocations /\ nextBase' = nextBase
  /\ \A b \in DOMAIN allocations :
       /\ allocations'[b].base = allocations[b].base /\ allocations'[b].size = allocations[b].size
       /\ allocations'[b].lines = allocations[b].lines
       /\ allocations'[b].resident = allocations[b].resident
  /\ \A l \in Line : lines'[l].present = lines[l].present

LEMMA StaysLaid ==
  ASSUME Laid, Stays
  PROVE  Laid'
BY DEF Laid, Stays, LinesIn

LEMMA HeapStays ==
  ASSUME UNCHANGED <<allocations, nextBase, lines>>
  PROVE  Stays
BY DEF Stays

LEMMA ServesStays ==
  ASSUME Typed, Working, Laid, Sound, Serves \/ Migrate
  PROVE  Stays
<1>1. \A l \in Line : lines'[l].present = lines[l].present
  BY ServesOne DEF Commanded
<1>2. nextBase' = nextBase
  BY DEF Serves, Write, Read, Refresh, RefreshAfterPromotion, Refreshed, Migrate, After
<1>3. CASE allocations' = allocations
  BY <1>1, <1>2, <1>3 DEF Stays
<1>4. CASE allocations' = [allocations EXCEPT ![Current.buffer].class = job.dest]
  <2>1. \A b \in DOMAIN allocations : allocations[b] \in Placement
    BY DEF Typed
  <2>2. allocations'[Current.buffer] = [allocations[Current.buffer] EXCEPT !.class = job.dest]
    BY <1>4, ServesOne
  <2>3. \A b \in DOMAIN allocations : b # Current.buffer => allocations'[b] = allocations[b]
    BY <1>4
  <2>4. allocations[Current.buffer] \in Placement BY <2>1, ServesOne
  <2>5. LET a == allocations'[Current.buffer] IN
        /\ a.base = allocations[Current.buffer].base /\ a.size = allocations[Current.buffer].size
        /\ a.lines = allocations[Current.buffer].lines
        /\ a.resident = allocations[Current.buffer].resident
    BY <2>2, <2>4 DEF Placement
  <2> QED BY <1>1, <1>2, <1>4, <2>3, <2>5 DEF Stays
<1> QED BY <1>3, <1>4 DEF Serves, Write, Read, Refresh, RefreshAfterPromotion, Refreshed,
           Migrate, Relocated

LEMMA PlacingLaid ==
  ASSUME Typed, Laid, ~Known, NEW base \in Nat, NEW n \in Nat \ {0}, NEW class \in Class,
         NEW fits \in BOOLEAN, base >= nextBase, n = AlignedLines(Current.size),
         Placing(base, n, class, fits)
  PROVE  Laid'
<1> DEFINE b == Current.buffer
           p == [base |-> base, size |-> Current.size, lines |-> n,
                 class |-> class, resident |-> fits]
           new == Lines(base, n)
<1>1. /\ DOMAIN allocations' = DOMAIN allocations \cup {b} /\ allocations'[b] = p
      /\ \A c \in DOMAIN allocations : allocations'[c] = allocations[c] /\ c # b
  BY DEF Placing, Put, Known
<1>2. nextBase' = base + n /\ nextBase \in Nat
  BY DEF Placing, Typed
<1>3. p.base = base /\ p.lines = n /\ p.size = Current.size /\ p.resident = fits
  OBVIOUS
<1> HIDE DEF p
<1>4. /\ fits => /\ new \subseteq Line
                 /\ lines' = [l \in Line |-> IF l \in new THEN Fresh(class) ELSE lines[l]]
      /\ ~fits => lines' = lines
  BY <1>2, ReserveIs DEF Placing, memoryVars
<1>5. \A l \in Line : l >= nextBase' => ~lines'[l].present
  <2>1. SUFFICES ASSUME NEW l \in Line, l >= nextBase' PROVE ~lines'[l].present
    OBVIOUS
  <2>2. l \in Nat BY ProfileAssumption
  <2>3. l >= nextBase /\ l \notin new
    BY <1>2, <2>1, <2>2 DEF Lines
  <2> QED BY <1>4, <2>3 DEF Laid
<1>6. \A c \in DOMAIN allocations : allocations[c].base \in Nat /\ allocations[c].lines \in Nat
  BY PlacedIs
<1>7. ASSUME NEW c \in DOMAIN allocations, allocations[c].resident
      PROVE  LinesIn(c) \cap new = {}
  <2>1. \A l \in LinesIn(c) : l < nextBase
    BY <1>2, <1>6, <1>7 DEF Laid, LinesIn, Lines
  <2>2. \A l \in new : l >= nextBase
    BY <1>2 DEF Lines
  <2>3. \A l \in LinesIn(c) : l \in Int BY DEF LinesIn, Lines
  <2> QED BY <1>2, <2>1, <2>2, <2>3
<1>8. \A c \in DOMAIN allocations :
        Lines(allocations'[c].base, allocations'[c].lines) = LinesIn(c)
  BY <1>1 DEF LinesIn
<1>9. Lines(allocations'[b].base, allocations'[b].lines) = new
  BY <1>1, <1>3
<1>10. \A c \in DOMAIN allocations' :
         /\ allocations'[c].lines = AlignedLines(allocations'[c].size)
         /\ allocations'[c].resident =>
              /\ Lines(allocations'[c].base, allocations'[c].lines) \subseteq Line
              /\ allocations'[c].base + allocations'[c].lines <= nextBase'
  <2>1. SUFFICES ASSUME NEW c \in DOMAIN allocations'
                 PROVE  /\ allocations'[c].lines = AlignedLines(allocations'[c].size)
                        /\ allocations'[c].resident =>
                             /\ Lines(allocations'[c].base, allocations'[c].lines) \subseteq Line
                             /\ allocations'[c].base + allocations'[c].lines <= nextBase'
    OBVIOUS
  <2>2. CASE c = b
    BY <1>1, <1>2, <1>3, <1>4, <1>9, <2>2
  <2>3. CASE c # b
    <3>1. c \in DOMAIN allocations /\ allocations'[c] = allocations[c] BY <1>1, <2>3
    <3>2. allocations[c].resident => LinesIn(c) \subseteq Line
                                     /\ allocations[c].base + allocations[c].lines <= nextBase
      BY <3>1 DEF Laid
    <3>3. allocations[c].lines = AlignedLines(allocations[c].size) BY <3>1 DEF Laid
    <3>4. allocations[c].resident => allocations[c].base + allocations[c].lines <= nextBase'
      BY <1>2, <1>6, <3>1, <3>2
    <3> QED BY <1>8, <3>1, <3>2, <3>3, <3>4
  <2> QED BY <2>2, <2>3
<1>11. \A c, d \in DOMAIN allocations' :
         c # d /\ allocations'[c].resident /\ allocations'[d].resident =>
           Lines(allocations'[c].base, allocations'[c].lines)
             \cap Lines(allocations'[d].base, allocations'[d].lines) = {}
  <2>1. \A c, d \in DOMAIN allocations :
          c # d /\ allocations[c].resident /\ allocations[d].resident => LinesIn(c) \cap LinesIn(d) = {}
    BY DEF Laid
  <2> QED BY <1>1, <1>7, <1>8, <1>9, <2>1
<1> QED BY <1>5, <1>10, <1>11 DEF Laid, LinesIn

\* Free takes the buffer's lines with it.
LEMMA FreeIs ==
  ASSUME Typed, Laid, Sound, Free, Known
  PROVE  /\ fault = "none" /\ fault' = "none"
         /\ allocations' = [b \in DOMAIN allocations \ {Current.buffer} |-> allocations[b]]
         /\ lines' = [l \in Line |-> IF Allocation.resident /\ l \in LinesIn(Current.buffer)
                                     THEN Gone ELSE lines[l]]
         /\ nextBase' = nextBase /\ job' = Idle /\ stats' = stats
<1>1. /\ fault = "none" /\ nextBase' = nextBase /\ job' = Idle /\ stats' = stats
      /\ allocations' = [b \in DOMAIN allocations \ {Current.buffer} |-> allocations[b]]
  BY DEF Free, Begins, Ends
<1>2. CASE ~Allocation.resident
  <2>1. lines' = lines /\ fault' = fault
    BY <1>2 DEF Free, memoryVars
  <2>2. lines = [l \in Line |-> lines[l]] BY DEF Sound
  <2> QED BY <1>1, <1>2, <2>1, <2>2
<1>3. CASE Allocation.resident
  <2>1. Release(Allocation.base, Allocation.lines)
    BY <1>3 DEF Free
  <2>2. Allocation.base \in Nat /\ Allocation.lines \in Nat
        /\ Lines(Allocation.base, Allocation.lines) = LinesIn(Current.buffer)
        /\ LinesIn(Current.buffer) \subseteq Line
    BY <1>3, PlacedIs DEF Known, Allocation, LinesIn, Laid
  <2>3. /\ lines' = [l \in Line |-> IF l \in Lines(Allocation.base, Allocation.lines)
                                    THEN Gone ELSE lines[l]]
        /\ fault' = fault
    BY <1>1, <2>1, <2>2, ReleaseIs
  <2> QED BY <1>1, <1>3, <2>2, <2>3
<1> QED BY <1>2, <1>3

LEMMA FreeLaid ==
  ASSUME Typed, Laid, Sound, Free, Known
  PROVE  Laid'
<1>1. DOMAIN allocations' \subseteq DOMAIN allocations
      /\ \A b \in DOMAIN allocations' : allocations'[b] = allocations[b]
  BY FreeIs
<1>2. \A l \in Line : lines'[l].present => lines[l].present
  BY FreeIs DEF Gone
<1>3. nextBase' = nextBase
  BY FreeIs
<1> QED BY <1>1, <1>2, <1>3 DEF Laid, LinesIn

\* What a step does to the heap, if anything.
LEMMA HeapEffect ==
  ASSUME Typed, Working, Laid, Sound, [Next]_vars
  PROVE  Stays \/ (Allocate /\ ~Known) \/ (Free /\ Known)
<1>1. CASE UNCHANGED vars
  BY <1>1, HeapStays DEF vars, memoryVars, replayVars
<1>2. CASE Load \/ Reject \/ Start \/ Report
  BY <1>2, HeapStays DEF Load, Reject, Start, Report, memoryVars, replayVars
<1>3. CASE Allocate /\ Known
  BY <1>3, HeapStays DEF Allocate, Throw, replayVars
<1>4. CASE Free /\ ~Known
  BY <1>4, HeapStays DEF Free, Throw, replayVars
<1>5. CASE Hint \/ Access \/ Compute \/ Phase \/ Barrier \/ Promote \/ Exhausted
  BY <1>5, HeapStays DEF Hint, Access, Compute, Phase, Barrier, Promote, Exhausted, Throw,
     memoryVars, replayVars
<1>6. CASE Serves \/ Migrate
  BY <1>6, ServesStays
<1> QED BY <1>1, <1>2, <1>3, <1>4, <1>5, <1>6 DEF Next, Replay, Serves

LEMMA LaidStep ==
  ASSUME Typed, Working, Laid, Sound, [Next]_vars
  PROVE  Laid'
<1>1. CASE Stays BY <1>1, StaysLaid
<1>2. CASE Allocate /\ ~Known
  BY <1>2, AllocateIs, PlacingLaid
<1>3. CASE Free /\ Known BY <1>3, FreeLaid
<1> QED BY <1>1, <1>2, <1>3, HeapEffect

-----------------------------------------------------------------------------
(* The live bytes.                                                           *)

Base == Typed /\ Working /\ Laid /\ Sound

\* The buffers of a table that count in a class, and their bytes.
In(table, c) == {b \in DOMAIN table : table[b].resident /\ table[b].class = c}
Exact(table, bytes) == \A c \in Class : bytes[c] = SizeOf(table, In(table, c))

LEMMA TableFinite ==
  ASSUME NEW table, Placements(table), NEW c
  PROVE  /\ IsFiniteSet(In(table, c)) /\ In(table, c) \subseteq DOMAIN table
         /\ \A b \in DOMAIN table : table[b] \in Placement /\ table[b].size \in Nat
         /\ SizeOf(table, In(table, c)) \in Nat
<1>1. IsFiniteSet(In(table, c)) /\ In(table, c) \subseteq DOMAIN table
  BY FS_Subset DEF Placements, In
<1>2. \A b \in DOMAIN table : table[b] \in Placement /\ table[b].size \in Nat
  BY DEF Placements, Placement
<1> QED BY <1>1, <1>2, SizesFinite

\* One more in a class, or none.
LEMMA ExactMore ==
  ASSUME NEW t, NEW u, Placements(t), Placements(u), NEW bytes, Exact(t, bytes), NEW b, b \notin DOMAIN t,
         DOMAIN u = DOMAIN t \cup {b}, \A x \in DOMAIN t : u[x] = t[x], bytes \in [Class -> Int]
  PROVE  Exact(u, [bytes EXCEPT ![u[b].class] = IF u[b].resident THEN @ + u[b].size ELSE @])
<1> DEFINE new == [bytes EXCEPT ![u[b].class] = IF u[b].resident THEN @ + u[b].size ELSE @]
<1> SUFFICES ASSUME NEW c \in Class PROVE new[c] = SizeOf(u, In(u, c))
  BY DEF Exact
<1>1. /\ IsFiniteSet(In(t, c)) /\ IsFiniteSet(In(u, c)) /\ b \notin In(t, c)
      /\ \A x \in In(t, c) : t[x].size = u[x].size
      /\ \A x \in In(u, c) : u[x].size \in Nat /\ u[x].class \in Class
  <2>1. IsFiniteSet(In(t, c)) /\ IsFiniteSet(In(u, c)) BY TableFinite
  <2>2. \A x \in DOMAIN u : u[x] \in Placement /\ u[x].size \in Nat BY TableFinite
  <2>3. \A x \in In(u, c) : u[x].size \in Nat /\ u[x].class \in Class
    BY <2>2 DEF In, Placement
  <2> QED BY <2>1, <2>3 DEF In
<1>2. bytes[c] = SizeOf(t, In(t, c)) BY DEF Exact
<1>3. SizeOf(u, In(t, c)) = SizeOf(t, In(t, c))
  BY <1>1, SizesSame
<1>4. CASE u[b].resident /\ u[b].class = c
  <2>1. In(u, c) = In(t, c) \cup {b} BY <1>4 DEF In
  <2>2. SizeOf(u, In(t, c) \cup {b}) = SizeOf(u, In(t, c)) + u[b].size
    BY <1>1, <2>1, SizesAdd
  <2>3. new[c] = bytes[c] + u[b].size BY <1>4
  <2> QED BY <1>2, <1>3, <2>1, <2>2, <2>3
<1>5. CASE ~(u[b].resident /\ u[b].class = c)
  <2>1. In(u, c) = In(t, c) BY <1>5 DEF In
  <2>2. new[c] = bytes[c] BY <1>5
  <2> QED BY <1>2, <1>3, <2>1, <2>2
<1> QED BY <1>4, <1>5

\* One less.
LEMMA ExactLess ==
  ASSUME NEW t, NEW u, Placements(t), NEW bytes, Exact(t, bytes), NEW b \in DOMAIN t,
         u = [x \in DOMAIN t \ {b} |-> t[x]], bytes \in [Class -> Int]
  PROVE  Exact(u, IF t[b].resident THEN [bytes EXCEPT ![t[b].class] = @ - t[b].size] ELSE bytes)
<1> DEFINE new == IF t[b].resident THEN [bytes EXCEPT ![t[b].class] = @ - t[b].size] ELSE bytes
<1> SUFFICES ASSUME NEW c \in Class PROVE new[c] = SizeOf(u, In(u, c))
  BY DEF Exact
<1>1. /\ IsFiniteSet(In(t, c)) /\ \A x \in In(t, c) : t[x].size \in Nat
      /\ \A x \in In(u, c) : t[x].size = u[x].size
  BY TableFinite DEF In
<1>2. bytes[c] = SizeOf(t, In(t, c)) BY DEF Exact
<1>3. SizeOf(u, In(u, c)) = SizeOf(t, In(u, c))
  <2> HIDE DEF new
  <2>1. PICK S : S = In(u, c) OBVIOUS
  <2>2. \A x \in S : t[x].size = u[x].size BY <1>1, <2>1
  <2>3. SizeOf(t, S) = SizeOf(u, S) BY <2>2, SizesSame
  <2> QED BY <2>1, <2>3
<1>4. CASE t[b].resident /\ t[b].class = c
  <2>1. In(u, c) = In(t, c) \ {b} /\ b \in In(t, c) BY <1>4 DEF In
  <2>2. SizeOf(t, In(t, c) \ {b}) = SizeOf(t, In(t, c)) - t[b].size
    BY <1>1, <2>1, SizesRemove
  <2>3. new[c] = bytes[c] - t[b].size BY <1>4
  <2> QED BY <1>2, <1>3, <2>1, <2>2, <2>3
<1>5. CASE ~(t[b].resident /\ t[b].class = c)
  <2>1. In(u, c) = In(t, c) BY <1>5 DEF In
  <2>2. new[c] = bytes[c] BY <1>5
  <2> QED BY <1>2, <1>3, <2>1, <2>2
<1> QED BY <1>4, <1>5

\* One from a class to another.
LEMMA ExactMoved ==
  ASSUME NEW t, NEW u, Placements(t), NEW bytes, Exact(t, bytes), NEW b \in DOMAIN t,
         NEW d \in Class, d # t[b].class, t[b].resident,
         bytes \in [Class -> Int], DOMAIN u = DOMAIN t, \A x \in DOMAIN t : x # b => u[x] = t[x],
         u[b].class = d, u[b].resident, u[b].size = t[b].size
  PROVE  Exact(u, [bytes EXCEPT ![t[b].class] = @ - t[b].size, ![d] = @ + t[b].size])
<1> DEFINE new == [bytes EXCEPT ![t[b].class] = @ - t[b].size, ![d] = @ + t[b].size]
<1> SUFFICES ASSUME NEW c \in Class PROVE new[c] = SizeOf(u, In(u, c))
  BY DEF Exact
<1>1. /\ IsFiniteSet(In(t, c)) /\ \A x \in DOMAIN t : t[x] \in Placement /\ t[x].size \in Nat
      /\ In(t, c) \subseteq DOMAIN t /\ t[b].class \in Class
  BY TableFinite DEF Placement
<1>3. bytes[c] = SizeOf(t, In(t, c)) BY DEF Exact
<1>4. SizeOf(u, In(u, c)) = SizeOf(t, In(u, c))
  <2>1. \A x \in In(u, c) : u[x].size = t[x].size BY DEF In
  <2>2. \A S : (\A x \in S : u[x].size = t[x].size) => SizeOf(u, S) = SizeOf(t, S)
    BY SizesSame
  <2> QED BY <2>1, <2>2, Zenon
<1>5. CASE c = t[b].class
  <2>1. In(u, c) = In(t, c) \ {b} /\ b \in In(t, c) BY <1>5 DEF In
  <2>2. SizeOf(t, In(t, c) \ {b}) = SizeOf(t, In(t, c)) - t[b].size
    BY <1>1, <2>1, SizesRemove
  <2>3. new[c] = bytes[c] - t[b].size BY <1>5
  <2> QED BY <1>3, <1>4, <2>1, <2>2, <2>3
<1>6. CASE c = d
  <2>1. In(u, c) = In(t, c) \cup {b} /\ b \notin In(t, c) BY <1>6 DEF In
  <2>2. SizeOf(t, In(t, c) \cup {b}) = SizeOf(t, In(t, c)) + t[b].size
    BY <1>1, <2>1, SizesAdd
  <2>3. new[c] = bytes[c] + t[b].size BY <1>1, <1>6
  <2> QED BY <1>3, <1>4, <2>1, <2>2, <2>3
<1>7. CASE c # d /\ c # t[b].class
  <2>1. In(u, c) = In(t, c) BY <1>7 DEF In
  <2>2. new[c] = bytes[c] BY <1>7
  <2> QED BY <1>3, <1>4, <2>1, <2>2
<1> QED BY <1>5, <1>6, <1>7

LEMMA BytesEffect ==
  ASSUME Typed, [Next]_vars
  PROVE  \/ UNCHANGED <<allocations, liveBytes>>
         \/ (Allocate /\ ~Known) \/ (Free /\ Known)
         \/ Migrate /\ allocations' = [allocations EXCEPT ![Current.buffer].class = job.dest]
            /\ liveBytes' = [liveBytes EXCEPT ![Allocation.class] = @ - Allocation.size,
                                              ![job.dest] = @ + Allocation.size]
<1>1. CASE UNCHANGED vars BY <1>1 DEF vars, replayVars
<1>2. CASE Load \/ Reject \/ Start \/ Report
  BY <1>2 DEF Load, Reject, Start, Report, replayVars
<1>3. CASE Allocate /\ Known BY <1>3 DEF Allocate, Throw, replayVars
<1>4. CASE Free /\ ~Known BY <1>4 DEF Free, Throw, replayVars
<1>5. CASE Hint \/ Access \/ Compute \/ Phase \/ Barrier \/ Promote \/ Exhausted
  BY <1>5 DEF Hint, Access, Compute, Phase, Barrier, Promote, Exhausted, Throw, replayVars
<1>6. CASE Write \/ Read \/ Refresh \/ RefreshAfterPromotion
  BY <1>6 DEF Write, Read, Refresh, RefreshAfterPromotion, Refreshed
<1>7. CASE Migrate BY <1>7 DEF Migrate, Relocated
<1> QED BY <1>1, <1>2, <1>3, <1>4, <1>5, <1>6, <1>7 DEF Next, Replay

LEMMA ExactStep ==
  ASSUME Base, Exact(allocations, liveBytes), [Next]_vars
  PROVE  Exact(allocations, liveBytes)'
<1> USE DEF Base
<1>1. Placements(allocations) /\ liveBytes \in [Class -> Int]
  BY DEF Placements, Typed
<1>2. Placements(allocations')
  BY ReplayStep DEF Placements, Typed
<1> SUFFICES Exact(allocations', liveBytes') OBVIOUS
<1>3. CASE UNCHANGED <<allocations, liveBytes>>
  BY <1>3
<1>4. CASE Allocate /\ ~Known
  <2>1. PICK base \in Nat, n \in Nat \ {0}, class \in Class, fits \in BOOLEAN :
          Placing(base, n, class, fits)
    BY <1>4, AllocateIs
  <2>2. /\ DOMAIN allocations' = DOMAIN allocations \cup {Current.buffer}
        /\ Current.buffer \notin DOMAIN allocations
        /\ \A x \in DOMAIN allocations : allocations'[x] = allocations[x]
        /\ allocations'[Current.buffer].class = class
        /\ allocations'[Current.buffer].resident = fits
        /\ allocations'[Current.buffer].size = Current.size
    BY <1>4, <2>1 DEF Placing, Put, Known
  <2>3. liveBytes' = [liveBytes EXCEPT ![class] = IF fits THEN @ + Current.size ELSE @]
    BY <2>1 DEF Placing
  <2> QED BY <1>1, <1>2, <2>2, <2>3, ExactMore
<1>5. CASE Free /\ Known
  <2>1. allocations' = [b \in DOMAIN allocations \ {Current.buffer} |-> allocations[b]]
    BY <1>5, FreeIs
  <2>2. liveBytes' = IF allocations[Current.buffer].resident
                     THEN [liveBytes EXCEPT ![allocations[Current.buffer].class] =
                             @ - allocations[Current.buffer].size]
                     ELSE liveBytes
    BY <1>5 DEF Free, Allocation
  <2> QED BY <1>1, <1>5, <2>1, <2>2, ExactLess DEF Known
<1>6. CASE Migrate /\ allocations' = [allocations EXCEPT ![Current.buffer].class = job.dest]
           /\ liveBytes' = [liveBytes EXCEPT ![Allocation.class] = @ - Allocation.size,
                                             ![job.dest] = @ + Allocation.size]
  <2>1. job.op \in {"hint", "promote"} BY <1>6 DEF Migrate
  <2>2. job.dest \in Class /\ job.dest # allocations[Current.buffer].class
        /\ Current.buffer \in DOMAIN allocations /\ allocations[Current.buffer].resident
    BY <2>1, AtWork DEF Working, Allocation, Job
  <2> DEFINE b == Current.buffer
  <2>3. /\ DOMAIN allocations' = DOMAIN allocations
        /\ \A x \in DOMAIN allocations : x # b => allocations'[x] = allocations[x]
        /\ allocations'[b] = [allocations[b] EXCEPT !.class = job.dest]
    BY <1>6, <2>2
  <2>4. allocations[b] \in Placement BY <1>1, <2>2 DEF Placements
  <2>5. /\ allocations'[b].class = job.dest /\ allocations'[b].resident
        /\ allocations'[b].size = allocations[b].size
    BY <2>2, <2>3, <2>4 DEF Placement
  <2>6. liveBytes' = [liveBytes EXCEPT ![allocations[b].class] = @ - allocations[b].size,
                                       ![job.dest] = @ + allocations[b].size]
    BY <1>6 DEF Allocation
  <2> HIDE DEF b
  <2> QED BY <1>1, <2>2, <2>3, <2>5, <2>6, ExactMoved DEF b
<1> QED BY <1>3, <1>4, <1>5, <1>6, BytesEffect

-----------------------------------------------------------------------------
(* The base of every further invariant.                                      *)

LEMMA InitBase == Init => Base /\ Exact(allocations, liveBytes)
<1> SUFFICES ASSUME Init PROVE Base /\ Exact(allocations, liveBytes)
  OBVIOUS
<1>1. Sound
  BY InitGood, MemorySound DEF Init
<1>2. events \in Seq(TraceEvent) /\ pos \in 1..(Len(events) + 1)
  BY DEF Init
<1>3. IsFiniteSet({}) /\ Cardinality({}) = 0
  BY FS_EmptySet
<1>4. DOMAIN allocations = {} /\ DOMAIN ready = {} /\ liveBytes = [c \in Class |-> 0] /\ job = Idle
  BY DEF Init
<1>5. stats \in Statistics BY DEF Init, NoFailures, Statistics
<1>6. Typed
  <2>1. allocations \in [{} -> Placement] /\ ready \in [{} -> Nat] /\ liveBytes \in [Class -> Int]
    BY DEF Init
  <2>2. /\ stage = "load" /\ policy \in Policy /\ workload \in Workloads /\ pos = 1
        /\ nextBase \in Nat
    BY DEF Init
  <2>3. job \in Job BY <1>4, JobsAre
  <2> QED BY <1>2, <1>3, <1>4, <1>5, <2>1, <2>2, <2>3 DEF Typed
<1>7. Working BY <1>4 DEF Working, Idle
<1>8. Laid
  BY <1>4 DEF Laid, Init, MemoryInit, Gone
<1>9. \A c \in Class : In(allocations, c) = {} BY <1>4 DEF In
<1>10. SizeOf(allocations, {}) = 0
  <2>1. UNION {{x} \X (1..allocations[x].size) : x \in {}} = {} OBVIOUS
  <2> QED BY <1>3, <2>1 DEF SizeOf
<1> QED BY <1>1, <1>4, <1>6, <1>7, <1>8, <1>9, <1>10 DEF Base, Exact

LEMMA BaseStep == Base /\ [Next]_vars => Base'
BY ReplayStep, LaidStep, SoundStep DEF Base

LEMMA BaseInvariant == Spec => [](Base /\ Exact(allocations, liveBytes))
<1>1. Base /\ Exact(allocations, liveBytes) /\ [Next]_vars => (Base /\ Exact(allocations, liveBytes))'
  BY BaseStep, ExactStep
<1> QED BY <1>1, InitBase, PTL DEF Spec

LEMMA ExactTyped ==
  ASSUME Base, Exact(allocations, liveBytes)
  PROVE  LiveBytesExact /\ ReplayTypeOK
<1>1. Placements(allocations) BY DEF Base, Typed, Placements
<1>2. \A c \in Class : Placed(c) = In(allocations, c) BY DEF Placed, In
<1>3. LiveBytesExact BY <1>2 DEF Exact, LiveBytesExact
<1>4. liveBytes \in [Class -> Nat]
  <2>1. \A c \in Class : liveBytes[c] \in Nat
    BY <1>1, TableFinite DEF Exact
  <2> QED BY <2>1 DEF Base, Typed
<1>5. \A f \in DOMAIN stats : stats[f] \in Nat
  <2>1. stats \in Statistics BY DEF Base, Typed
  <2> QED BY <2>1 DEF Statistics
<1>6. \A b \in DOMAIN allocations : allocations[b].class \in Class
  BY <1>1 DEF Placements, Placement
<1> QED BY <1>3, <1>4, <1>5, <1>6 DEF ReplayTypeOK, Base, Typed

\* Every counter and cycle of a replay is a natural number, whatever the trace.
THEOREM ReplayTypeCorrect == Spec => []ReplayTypeOK
BY BaseInvariant, ExactTyped, PTL

\* remove_live_bytes and add_live_bytes keep the live bytes of a class those of the
\* buffers placed in it, for every trace and every policy.
THEOREM LiveBytesCorrect == Spec => []LiveBytesExact
BY BaseInvariant, ExactTyped, PTL

-----------------------------------------------------------------------------
(* What becomes of the event at hand: the replay stays at it, leaves it      *)
(* behind, counts a failure, or counts the bytes of an access.               *)

Waits == pos' = pos /\ stats' = stats /\ (events' = events \/ pos = 1)
Leaves == Ends /\ stats' = stats /\ UNCHANGED traceVars /\ pos <= Len(events) /\ Current.kind # "ACCESS"
Unsafe == stats' \in Statistics /\ stats'.unsafe = stats.unsafe + 1
          /\ stats'.migration \in {stats.migration, stats.migration + 1}
Accesses ==
  /\ Ends /\ UNCHANGED traceVars /\ pos <= Len(events) /\ Current.kind = "ACCESS"
  /\ stats' = IF Current.write THEN [stats EXCEPT !.writeBytes = @ + Current.size]
              ELSE [stats EXCEPT !.readBytes = @ + Current.size]

LEMMA UnsafeIs ==
  ASSUME stats \in Statistics,
         \/ stats' = [stats EXCEPT !.unsafe = @ + 1, !.allocation = @ + 1]
         \/ stats' = [stats EXCEPT !.unsafe = @ + 1, !.migration = @ + 1]
         \/ stats' = [stats EXCEPT !.unsafe = @ + 1, !.rejected = @ + 1]
         \/ \E failure, maintenance, migration :
              /\ maintenance \in BOOLEAN /\ migration \in BOOLEAN
              /\ stats' = Counted(failure, maintenance, migration)
  PROVE  Unsafe
<1>1. CASE \E failure, maintenance, migration :
              /\ maintenance \in BOOLEAN /\ migration \in BOOLEAN
              /\ stats' = Counted(failure, maintenance, migration)
  BY <1>1, CountedIs DEF Unsafe
<1>2. CASE \/ stats' = [stats EXCEPT !.unsafe = @ + 1, !.allocation = @ + 1]
           \/ stats' = [stats EXCEPT !.unsafe = @ + 1, !.migration = @ + 1]
           \/ stats' = [stats EXCEPT !.unsafe = @ + 1, !.rejected = @ + 1]
  <2>1. stats' \in Statistics BY <1>2, StatsAre
  <2>2. stats'.unsafe = stats.unsafe + 1 /\ stats'.migration \in {stats.migration, stats.migration + 1}
    BY <1>2 DEF Statistics
  <2> QED BY <2>1, <2>2 DEF Unsafe
<1> QED BY <1>1, <1>2

LEMMA StopWaits ==
  ASSUME UNCHANGED <<pos, stats, events>>
  PROVE  Waits
BY DEF Waits

LEMMA BeginProgress ==
  ASSUME Base, Allocate \/ Free \/ Hint \/ Access \/ Compute \/ Phase \/ Barrier
  PROVE  Waits \/ Leaves \/ Unsafe
<1> USE DEF Base
<1>0. stats \in Statistics BY DEF Typed
<1>1. CASE Allocate
  <2>1. CASE Known BY <1>1, <2>1, StopWaits DEF Allocate, Throw, replayVars, traceVars
  <2>2. CASE ~Known
    <3>1. PICK base \in Nat, n \in Nat \ {0}, class \in Class, fits \in BOOLEAN :
            Placing(base, n, class, fits)
      BY <1>1, <2>2, AllocateIs
    <3>2. pos <= Len(events) /\ Current.kind = "ALLOC" BY <1>1 DEF Allocate, Begins
    <3>3. CASE fits BY <3>1, <3>2, <3>3 DEF Placing, Leaves, Ends
    <3>4. CASE ~fits
      <4>1. stats' = [stats EXCEPT !.unsafe = @ + 1, !.allocation = @ + 1]
        BY <3>1, <3>4 DEF Placing
      <4> QED BY <1>0, <4>1, UnsafeIs
    <3> QED BY <3>3, <3>4
  <2> QED BY <2>1, <2>2
<1>2. CASE Free
  <2>1. CASE ~Known BY <1>2, <2>1, StopWaits DEF Free, Throw, replayVars, traceVars
  <2>2. CASE Known BY <1>2, <2>2 DEF Free, Begins, Leaves
  <2> QED BY <2>1, <2>2
<1>3. CASE Hint
  <2>1. CASE ~Known BY <1>3, <2>1, StopWaits DEF Hint, Throw, replayVars, traceVars
  <2>2. CASE Known /\ Ends /\ stats' = stats
    BY <1>3, <2>2 DEF Hint, Begins, Leaves
  <2>3. CASE stats' = [stats EXCEPT !.unsafe = @ + 1, !.migration = @ + 1]
    BY <1>0, <2>3, UnsafeIs
  <2>4. CASE UNCHANGED <<pos, stats>> /\ UNCHANGED traceVars
    BY <2>4, StopWaits DEF traceVars
  <2> QED BY <1>3, <2>1, <2>2, <2>3, <2>4 DEF Hint
<1>4. CASE Access
  <2>1. CASE ~Known \/ ~InBounds(Current, Allocation.size)
    BY <1>4, <2>1, StopWaits DEF Access, Throw, replayVars, traceVars
  <2>2. CASE stats' = [stats EXCEPT !.unsafe = @ + 1, !.rejected = @ + 1]
    BY <1>0, <2>2, UnsafeIs
  <2>3. CASE UNCHANGED <<pos, stats>> /\ UNCHANGED traceVars
    BY <2>3, StopWaits DEF traceVars
  <2> QED BY <1>4, <2>1, <2>2, <2>3 DEF Access
<1>5. CASE Compute \/ Phase \/ Barrier
  BY <1>5 DEF Compute, Phase, Barrier, Begins, Leaves
<1> QED BY <1>1, <1>2, <1>3, <1>4, <1>5

LEMMA ServeProgress ==
  ASSUME Base, Base', Write \/ Read
  PROVE  Waits \/ Accesses \/ Unsafe
<1> USE DEF Base
<1>1. /\ job.op = "access" /\ UNCHANGED <<allocations, nextBase, liveBytes, traceVars>>
      /\ operation' \in Operation /\ stats \in Statistics
  BY DEF Write, Read, Serving, After, Sound, Typed
<1>2. CASE fault' = "none"
  <2>1. AccessedLine BY <1>2 DEF Write, Read
  <2>2. \/ stats' = Counted(operation'.failure, FALSE, FALSE)
        \/ /\ Ends
           /\ stats' = IF Current.write THEN [stats EXCEPT !.writeBytes = @ + Current.size]
                       ELSE [stats EXCEPT !.readBytes = @ + Current.size]
        \/ UNCHANGED <<pos, stats>>
    BY <1>1, <2>1, AccessedIs
  <2>3. pos <= Len(events) /\ Current.kind = "ACCESS"
    BY <1>1 DEF Working
  <2>4. CASE stats' = Counted(operation'.failure, FALSE, FALSE)
    BY <1>1, <2>4, UnsafeIs
  <2> QED BY <1>1, <2>2, <2>3, <2>4 DEF Waits, Accesses, traceVars
<1>3. CASE fault' # "none"
  BY <1>1, <1>3 DEF Write, Read, Waits, traceVars
<1> QED BY <1>2, <1>3

LEMMA MaintenanceProgress ==
  ASSUME Base, Promote \/ Refresh \/ RefreshAfterPromotion \/ Exhausted
  PROVE  Waits \/ Unsafe
<1> USE DEF Base
<1>1. CASE Promote \/ Exhausted
  BY <1>1 DEF Promote, Exhausted, Throw, Waits, traceVars, replayVars
<1>2. CASE Refresh \/ RefreshAfterPromotion
  <2>1. PICK start, deadline : Refreshed(start, deadline)
    BY <1>2 DEF Refresh, RefreshAfterPromotion
  <2>2. CASE UNCHANGED <<pos, stats>>
    BY <2>1, <2>2 DEF Refreshed, After, Waits, traceVars
  <2>3. CASE stats' = Counted(IF operation'.ok THEN "Expired" ELSE operation'.failure, TRUE, FALSE)
    BY <2>3, UnsafeIs DEF Typed
  <2> QED BY <2>1, <2>2, <2>3 DEF Refreshed
<1> QED BY <1>1, <1>2

LEMMA MigrateProgress ==
  ASSUME Base, Migrate
  PROVE  Waits \/ Leaves \/ Unsafe
<1> USE DEF Base
<1>1. UNCHANGED traceVars /\ job.op \in {"hint", "promote"} /\ stats \in Statistics
      /\ pos <= Len(events) /\ (job.op = "hint" => Current.kind = "HINT")
  BY DEF Migrate, After, Working, Typed
<1>2. CASE UNCHANGED <<pos, stats>>
  BY <1>1, <1>2 DEF Waits, traceVars
<1>3. CASE stats' = Counted(operation'.failure, job.op = "promote", TRUE)
  BY <1>1, <1>3, UnsafeIs
<1>4. CASE job.op = "hint" /\ Ends /\ stats' = stats
  BY <1>1, <1>4 DEF Leaves
<1> QED BY <1>1, <1>2, <1>3, <1>4 DEF Migrate, Relocated

LEMMA Progress ==
  ASSUME Base, [Next]_vars
  PROVE  Waits \/ Leaves \/ Unsafe \/ Accesses
<1>1. CASE UNCHANGED vars BY <1>1 DEF vars, traceVars, replayVars, Waits
<1>2. CASE Load \/ Reject \/ Start \/ Report
  BY <1>2 DEF Load, Reject, Start, Report, replayVars, Waits, Base, Typed
<1>3. CASE Replay
  BY <1>3, BaseStep, BeginProgress, ServeProgress, MaintenanceProgress, MigrateProgress DEF Replay
<1> QED BY <1>1, <1>2, <1>3 DEF Next

-----------------------------------------------------------------------------
(* A report that says SAFE is complete.                                      *)

\* The accesses of a trace before its n-th event.
Replayed(trace, write, n) ==
  {i \in DOMAIN trace : i < n /\ trace[i].kind = "ACCESS" /\ trace[i].write = write}

Complete ==
  /\ stage = "done" => pos > Len(events)
  /\ stats.unsafe = 0 =>
       /\ stats.allocation = 0 /\ stats.expired = 0 /\ stats.uninitialized = 0 /\ stats.missing = 0
       /\ stats.migration = 0 /\ stats.maintenance = 0 /\ stats.rejected = 0
       /\ stats.readBytes = SizeOf(events, Replayed(events, FALSE, pos))
       /\ stats.writeBytes = SizeOf(events, Replayed(events, TRUE, pos))

LEMMA ServedIs ==
  ASSUME NEW trace \in Seq(TraceEvent), NEW write, NEW n \in 1..Len(trace)
  PROVE  /\ IsFiniteSet(Replayed(trace, write, n))
         /\ \A i \in DOMAIN trace : trace[i].size \in Nat
         /\ Replayed(trace, write, n + 1) =
              IF trace[n].kind = "ACCESS" /\ trace[n].write = write
              THEN Replayed(trace, write, n) \cup {n} ELSE Replayed(trace, write, n)
         /\ n \notin Replayed(trace, write, n)
<1>1. DOMAIN trace = 1..Len(trace) /\ IsFiniteSet(1..Len(trace)) /\ Len(trace) \in Nat
  BY FS_Interval
<1>2. IsFiniteSet(Replayed(trace, write, n))
  BY <1>1, FS_Subset DEF Replayed
<1>3. \A i \in DOMAIN trace : trace[i] \in TraceEvent /\ trace[i].size \in Nat
  <2>1. \A e \in TraceEvent : e.size \in Nat BY DEF TraceEvent
  <2>2. \A i \in DOMAIN trace : trace[i] \in TraceEvent OBVIOUS
  <2> QED BY <2>1, <2>2
<1> QED BY <1>1, <1>2, <1>3 DEF Replayed

\* The bytes of an event come with it.
LEMMA ServedBytes ==
  ASSUME NEW trace \in Seq(TraceEvent), NEW write, NEW n \in 1..Len(trace)
  PROVE  SizeOf(trace, Replayed(trace, write, n + 1)) =
           IF trace[n].kind = "ACCESS" /\ trace[n].write = write
           THEN SizeOf(trace, Replayed(trace, write, n)) + trace[n].size
           ELSE SizeOf(trace, Replayed(trace, write, n))
<1>1. PICK S : S = Replayed(trace, write, n) OBVIOUS
<1>2. IsFiniteSet(S) /\ n \notin S /\ n \in DOMAIN trace /\ S \subseteq DOMAIN trace
      /\ \A i \in DOMAIN trace : trace[i].size \in Nat
  <2>1. IsFiniteSet(S) /\ n \notin S /\ \A i \in DOMAIN trace : trace[i].size \in Nat
    BY <1>1, ServedIs
  <2>2. n \in DOMAIN trace /\ S \subseteq DOMAIN trace BY <1>1 DEF Replayed
  <2> QED BY <2>1, <2>2
<1>3. CASE trace[n].kind = "ACCESS" /\ trace[n].write = write
  <2>1. Replayed(trace, write, n + 1) = S \cup {n} BY <1>1, <1>3, ServedIs
  <2>2. \A y \in S \cup {n} : trace[y].size \in Nat BY <1>2
  <2>3. SizeOf(trace, S \cup {n}) = SizeOf(trace, S) + trace[n].size
    BY <1>2, <2>2, SizesAdd
  <2> QED BY <1>1, <1>3, <2>1, <2>3
<1>4. CASE ~(trace[n].kind = "ACCESS" /\ trace[n].write = write)
  <2>1. Replayed(trace, write, n + 1) = S BY <1>1, <1>4, ServedIs
  <2> QED BY <1>1, <1>4, <2>1
<1> QED BY <1>3, <1>4

LEMMA CompleteStep ==
  ASSUME Base, Complete, [Next]_vars
  PROVE  Complete'
<1> DEFINE Bytes(trace, n) ==
             /\ stats'.unsafe = 0 =>
                  /\ stats'.allocation = 0 /\ stats'.expired = 0 /\ stats'.uninitialized = 0
                  /\ stats'.missing = 0 /\ stats'.migration = 0 /\ stats'.maintenance = 0
                  /\ stats'.rejected = 0
                  /\ stats'.readBytes = SizeOf(trace, Replayed(trace, FALSE, n))
                  /\ stats'.writeBytes = SizeOf(trace, Replayed(trace, TRUE, n))
<1>0. /\ events \in Seq(TraceEvent) /\ pos \in 1..(Len(events) + 1) /\ stats \in Statistics
      /\ Len(events) \in Nat
  BY DEF Base, Typed
<1>1. Bytes(events', pos')
  <2>1. CASE Waits
    <3>1. CASE events' = events BY <2>1, <3>1 DEF Waits, Complete
    <3>2. CASE pos = 1
      <4>1. \A w : Replayed(events, w, 1) = {} BY <1>0 DEF Replayed
      <4>2. events' \in Seq(TraceEvent) BY BaseStep DEF Base, Typed
      <4>3. \A w : Replayed(events', w, 1) = {} BY <4>2 DEF Replayed
      <4>4. \A t : SizeOf(t, {}) = 0
        <5>1. \A t : UNION {{x} \X (1..t[x].size) : x \in {}} = {} OBVIOUS
        <5> QED BY <5>1, FS_EmptySet DEF SizeOf
      <4> QED BY <2>1, <3>2, <4>1, <4>3, <4>4 DEF Waits, Complete
    <3> QED BY <2>1, <3>1, <3>2 DEF Waits
  <2>2. CASE Leaves
    <3>1. pos \in 1..Len(events) /\ pos' = pos + 1 /\ events' = events /\ stats' = stats
          /\ events[pos].kind # "ACCESS"
      BY <1>0, <2>2 DEF Leaves, Ends, traceVars, Current
    <3>2. \A w : SizeOf(events, Replayed(events, w, pos + 1)) = SizeOf(events, Replayed(events, w, pos))
      BY <1>0, <3>1, ServedBytes
    <3> QED BY <3>1, <3>2 DEF Complete
  <2>3. CASE Unsafe
    <3>1. stats'.unsafe # 0
      <4>1. stats.unsafe \in Nat BY <1>0 DEF Statistics
      <4> QED BY <2>3, <4>1 DEF Unsafe
    <3> QED BY <3>1
  <2>4. CASE Accesses
    <3>1. pos \in 1..Len(events) /\ pos' = pos + 1 /\ events' = events /\ events[pos].kind = "ACCESS"
          /\ events[pos] \in TraceEvent
      BY <1>0, <2>4 DEF Accesses, Ends, traceVars, Current
    <3>2. events[pos].write \in BOOLEAN /\ events[pos].size \in Nat
      BY <3>1 DEF TraceEvent
    <3>3. PICK n \in Nat : n = events[pos].size BY <3>2
    <3>4. \A w : SizeOf(events, Replayed(events, w, pos + 1)) =
                   IF events[pos].write = w THEN SizeOf(events, Replayed(events, w, pos)) + n
                   ELSE SizeOf(events, Replayed(events, w, pos))
      BY <1>0, <3>1, <3>3, ServedBytes
    <3>5. stats' = IF events[pos].write THEN [stats EXCEPT !.writeBytes = @ + n]
                   ELSE [stats EXCEPT !.readBytes = @ + n]
      BY <2>4, <3>3 DEF Accesses, Current
    <3>6. /\ \A f \in {"unsafe", "allocation", "expired", "uninitialized", "missing", "migration",
                       "maintenance", "rejected"} : stats'[f] = stats[f]
          /\ stats'.writeBytes = IF events[pos].write THEN stats.writeBytes + n ELSE stats.writeBytes
          /\ stats'.readBytes = IF events[pos].write THEN stats.readBytes ELSE stats.readBytes + n
      BY <1>0, <3>2, <3>5 DEF Statistics
    <3> QED BY <3>1, <3>2, <3>4, <3>6 DEF Complete
  <2> QED BY <2>1, <2>2, <2>3, <2>4, Progress
<1>2. stage' = "done" => pos' > Len(events')
  <2>1. CASE stage = "done"
    <3>1. UNCHANGED <<stage, events, pos>>
      BY <2>1 DEF Next, Replay, Load, Reject, Start, Report, Allocate, Free, Hint, Access, Compute,
         Phase, Barrier, Begins, Write, Read, Promote, Refresh, RefreshAfterPromotion, Exhausted,
         Maintenance, Migrate, Serving, vars, traceVars, replayVars
    <3> QED BY <2>1, <3>1 DEF Complete
  <2>2. CASE Report BY <2>2 DEF Report, replayVars
  <2>3. CASE stage # "done" /\ ~Report
    <3>1. CASE Load \/ Reject \/ Start BY <2>3, <3>1 DEF Load, Reject, Start
    <3>2. CASE UNCHANGED vars BY <2>3, <3>2 DEF vars, traceVars
    <3>3. CASE Replay
      <4>1. stage' = stage
        BY <3>3 DEF Replay, Allocate, Placing, Free, Hint, Access, Compute, Phase, Barrier, Throw, Write,
           Read, Promote, Refresh, RefreshAfterPromotion, Refreshed, Exhausted, Migrate, After,
           traceVars
      <4> QED BY <2>3, <4>1
    <3> QED BY <2>3, <3>1, <3>2, <3>3 DEF Next
  <2> QED BY <2>1, <2>2, <2>3
<1> QED BY <1>1, <1>2 DEF Complete

LEMMA InitComplete == Init => Complete
<1> SUFFICES ASSUME Init PROVE Complete OBVIOUS
<1>1. \A w : Replayed(events, w, pos) = {} BY DEF Init, Replayed
<1>2. SizeOf(events, {}) = 0
  <2>1. UNION {{x} \X (1..events[x].size) : x \in {}} = {} OBVIOUS
  <2> QED BY <2>1, FS_EmptySet DEF SizeOf
<1> QED BY <1>1, <1>2 DEF Init, Complete, NoFailures

LEMMA CompleteIs ==
  ASSUME Base, Complete
  PROVE  SafeIsComplete
<1> SUFFICES ASSUME stage = "done", stats.unsafe = 0
             PROVE  stats = [NoFailures EXCEPT !.readBytes = TraceBytes(FALSE),
                                               !.writeBytes = TraceBytes(TRUE)]
  BY DEF SafeIsComplete
<1>1. \A w : Replayed(events, w, pos) = {i \in DOMAIN events : events[i].kind = "ACCESS"
                                                             /\ events[i].write = w}
  <2>1. DOMAIN events = 1..Len(events) /\ Len(events) \in Nat /\ pos \in Nat /\ pos > Len(events)
    BY DEF Base, Typed, Complete
  <2> QED BY <2>1 DEF Replayed
<1>2. stats.readBytes = TraceBytes(FALSE) /\ stats.writeBytes = TraceBytes(TRUE)
  BY <1>1 DEF Complete, TraceBytes
<1>3. stats \in Statistics BY DEF Base, Typed
<1>4. PICK r, w : r = TraceBytes(FALSE) /\ w = TraceBytes(TRUE) OBVIOUS
<1>5. stats = [NoFailures EXCEPT !.readBytes = r, !.writeBytes = w]
  <2> DEFINE report == [unsafe |-> 0, allocation |-> 0, expired |-> 0, uninitialized |-> 0,
                        missing |-> 0, migration |-> 0, maintenance |-> 0, rejected |-> 0,
                        readBytes |-> r, writeBytes |-> w]
  <2>1. /\ stats.unsafe = 0 /\ stats.allocation = 0 /\ stats.expired = 0 /\ stats.uninitialized = 0
        /\ stats.missing = 0 /\ stats.migration = 0 /\ stats.maintenance = 0 /\ stats.rejected = 0
        /\ stats.readBytes = r /\ stats.writeBytes = w
    BY <1>2, <1>4 DEF Complete
  <2>2. stats = report BY <1>3, <2>1 DEF Statistics
  <2>3. r \in Nat /\ w \in Nat BY <1>3, <2>1 DEF Statistics
  <2>4. NoFailures \in Statistics BY DEF NoFailures, Statistics
  <2>5. PICK x : x = [NoFailures EXCEPT !.readBytes = r, !.writeBytes = w] OBVIOUS
  <2>6. x \in Statistics /\ x.readBytes = r /\ x.writeBytes = w
    BY <2>3, <2>4, <2>5 DEF Statistics
  <2>7. /\ x.unsafe = 0 /\ x.allocation = 0 /\ x.expired = 0 /\ x.uninitialized = 0
        /\ x.missing = 0 /\ x.migration = 0 /\ x.maintenance = 0 /\ x.rejected = 0
    BY <2>5 DEF NoFailures
  <2>8. x = report BY <2>6, <2>7 DEF Statistics
  <2> QED BY <2>2, <2>5, <2>8
<1> QED BY <1>4, <1>5

\* A report that says SAFE has counted no failure of any kind, and all bytes the trace
\* moves, whatever the trace, the policy and the device.
THEOREM SafeCompleteCorrect == Spec => []SafeIsComplete
<1>1. Base /\ Complete /\ [Next]_vars => Complete'
  BY CompleteStep
<1> QED BY <1>1, InitComplete, BaseInvariant, CompleteIs, PTL DEF Spec

-----------------------------------------------------------------------------
(* As long as no migration has failed, a buffer's lines are where they are   *)
(* accounted to; in the middle of a migration, the first of them have moved. *)

Moving == job.op \in {"hint", "promote"}
ClassOf(b, l) == IF Moving /\ b = Current.buffer /\ l < allocations[b].base + job.moved
                 THEN job.dest ELSE allocations[b].class
AllPlaced ==
  \A b \in DOMAIN allocations :
    allocations[b].resident => \A l \in LinesIn(b) : lines[l].present /\ lines[l].class = ClassOf(b, l)
Whole ==
  /\ fault \notin {"overlap", "underflow"}
  /\ stats.migration = 0 => fault # "class" /\ AllPlaced

LEMMA FailedStays ==
  ASSUME Base, [Next]_vars, stats'.migration = 0
  PROVE  stats.migration = 0
<1>1. stats \in Statistics /\ stats.migration \in Nat BY DEF Base, Typed, Statistics
<1>2. CASE Unsafe BY <1>1, <1>2 DEF Unsafe
<1>3. CASE Accesses
  <2>1. PICK n : n = Current.size OBVIOUS
  <2>2. \/ stats' = [stats EXCEPT !.writeBytes = @ + n]
        \/ stats' = [stats EXCEPT !.readBytes = @ + n]
    BY <1>3, <2>1 DEF Accesses
  <2>3. stats'.migration = stats.migration BY <1>1, <2>2 DEF Statistics
  <2> QED BY <2>3
<1> QED BY <1>2, <1>3, Progress DEF Waits, Leaves

\* Nothing is moved, and no migration goes on unless it stands where it stood.
LEMMA PlacedKept ==
  ASSUME Base, AllPlaced, allocations' = allocations,
         \A l \in Line : lines'[l].present = lines[l].present /\ lines'[l].class = lines[l].class,
         \/ ~Moving /\ (job'.op \in {"hint", "promote"} => job'.moved = 0)
         \/ job' = job /\ pos' = pos /\ events' = events
  PROVE  AllPlaced'
<1> SUFFICES ASSUME NEW b \in DOMAIN allocations, allocations[b].resident, NEW l \in LinesIn(b)
             PROVE  lines'[l].present /\ lines'[l].class = ClassOf(b, l)'
  BY DEF AllPlaced, LinesIn
<1>1. l \in Line /\ allocations[b].base \in Nat /\ ~(l < allocations[b].base)
  BY PlacedIs DEF Base, Laid, LinesIn, Lines
<1>2. lines[l].present /\ lines[l].class = ClassOf(b, l)
  BY DEF AllPlaced
<1>3. CASE ~Moving /\ (job'.op \in {"hint", "promote"} => job'.moved = 0)
  <2>1. ClassOf(b, l) = allocations[b].class BY <1>3 DEF ClassOf
  <2>2. ClassOf(b, l)' = allocations[b].class
    BY <1>1, <1>3 DEF ClassOf, Moving
  <2> QED BY <1>1, <1>2, <2>1, <2>2
<1>4. CASE job' = job /\ pos' = pos /\ events' = events
  BY <1>1, <1>2, <1>4 DEF ClassOf, Moving, Current
<1> QED BY <1>3, <1>4

LEMMA PlacingWhole ==
  ASSUME Base, AllPlaced, ~Known, NEW base \in Nat, NEW n \in Nat \ {0}, NEW class \in Class,
         NEW fits \in BOOLEAN, base >= nextBase, Placing(base, n, class, fits), job.op = "idle"
  PROVE  AllPlaced' /\ fault' = fault
<1> DEFINE b == Current.buffer
           new == Lines(base, n)
<1>1. /\ DOMAIN allocations' = DOMAIN allocations \cup {b}
      /\ allocations'[b].base = base /\ allocations'[b].lines = n
      /\ allocations'[b].class = class /\ allocations'[b].resident = fits
      /\ \A c \in DOMAIN allocations : allocations'[c] = allocations[c]
      /\ job' = Idle
  BY DEF Placing, Put, Known
<1>2. nextBase \in Nat BY DEF Base, Typed
<1>3. /\ fits => /\ new \subseteq Line
                 /\ lines' = [l \in Line |-> IF l \in new THEN Fresh(class) ELSE lines[l]]
      /\ ~fits => lines' = lines
      /\ fault' = fault
  BY <1>2, ReserveIs DEF Placing, memoryVars, Base
<1>4. ~Moving' /\ ~Moving BY <1>1 DEF Moving, Idle
<1>5. ASSUME NEW c \in DOMAIN allocations, allocations[c].resident, NEW l \in LinesIn(c)
      PROVE  lines'[l].present /\ lines'[l].class = allocations[c].class
  <2>1. lines[l].present /\ lines[l].class = allocations[c].class
    BY <1>4, <1>5 DEF AllPlaced, ClassOf
  <2>2. allocations[c].base \in Nat /\ allocations[c].lines \in Nat /\ l \in Line
        /\ allocations[c].base + allocations[c].lines <= nextBase
    BY <1>5, PlacedIs DEF Base, Laid
  <2>3. l \notin new BY <1>2, <2>2 DEF LinesIn, Lines
  <2> QED BY <1>3, <2>1, <2>2, <2>3
<1>6. ASSUME fits, NEW l \in new PROVE lines'[l].present /\ lines'[l].class = class
  BY <1>3, <1>6 DEF Fresh, Gone
<1>7. \A c \in DOMAIN allocations' : allocations'[c].resident =>
        \A l \in Lines(allocations'[c].base, allocations'[c].lines) :
          lines'[l].present /\ lines'[l].class = allocations'[c].class
  BY <1>1, <1>5, <1>6 DEF LinesIn
<1> QED BY <1>3, <1>4, <1>7 DEF AllPlaced, ClassOf, LinesIn

LEMMA FreeWhole ==
  ASSUME Base, AllPlaced, Free, Known
  PROVE  AllPlaced' /\ fault' = "none"
<1> DEFINE b == Current.buffer
<1>1. /\ allocations' = [c \in DOMAIN allocations \ {b} |-> allocations[c]] /\ job' = Idle
      /\ lines' = [l \in Line |-> IF Allocation.resident /\ l \in LinesIn(b) THEN Gone ELSE lines[l]]
      /\ fault' = "none"
  BY FreeIs DEF Base
<1>2. ~Moving' /\ ~Moving BY <1>1 DEF Moving, Idle, Free, Begins
<1>3. ASSUME NEW c \in DOMAIN allocations \ {b}, allocations[c].resident, NEW l \in LinesIn(c)
      PROVE  lines'[l].present /\ lines'[l].class = allocations[c].class
  <2>1. lines[l].present /\ lines[l].class = allocations[c].class
    BY <1>2, <1>3 DEF AllPlaced, ClassOf
  <2>2. l \in Line /\ (Allocation.resident => l \notin LinesIn(b))
    BY <1>3 DEF Base, Laid, Known, Allocation
  <2> QED BY <1>1, <2>1, <2>2
<1>4. \A c \in DOMAIN allocations' : allocations'[c].resident =>
        \A l \in Lines(allocations'[c].base, allocations'[c].lines) :
          lines'[l].present /\ lines'[l].class = allocations'[c].class
  BY <1>1, <1>3 DEF LinesIn
<1>5. fault' = "none" BY <1>1
<1>6. AllPlaced' BY <1>2, <1>4 DEF AllPlaced, ClassOf, LinesIn
<1> QED BY <1>5, <1>6

\* One line of the buffer has moved, the last one perhaps.
LEMMA MovedWhole ==
  ASSUME Base, AllPlaced, Migrate, fault' = "none", operation'.ok
  PROVE  AllPlaced'
<1> DEFINE b == Current.buffer
           here == Allocation.base + job.moved
<1>1. /\ job.op \in {"hint", "promote"} /\ job \in Job /\ Moving /\ UNCHANGED traceVars
      /\ b \in DOMAIN allocations /\ Allocation.resident /\ here \in Line /\ here \in LinesIn(b)
      /\ Allocation \in Placement /\ Allocation.base \in Nat /\ Allocation.lines \in Nat
      /\ job.moved \in Nat /\ job.moved < Allocation.lines
  <2>1. job.op \in {"hint", "promote"} /\ Moving /\ UNCHANGED traceVars /\ job \in Job
    BY DEF Migrate, Moving, After, Base, Typed
  <2>2. /\ b \in DOMAIN allocations /\ Allocation.resident /\ here \in Line /\ here \in LinesIn(b)
        /\ Allocation \in Placement
    BY <2>1, AtWork DEF Base
  <2> QED BY <2>1, <2>2 DEF Base, Working, Job, Placement
<1>2. /\ lines'[here].class = job.dest /\ lines'[here].present = lines[here].present
      /\ \A l \in Line : l # here => lines'[l] = lines[l]
  BY MigrateCommand DEF Base, Commanded
<1>3. ASSUME NEW c \in DOMAIN allocations, allocations[c].resident, NEW l \in LinesIn(c)
      PROVE  /\ lines'[l].present
             /\ lines'[l].class = IF c = b /\ l < Allocation.base + (job.moved + 1)
                                  THEN job.dest ELSE allocations[c].class
  <2>1. l \in Line /\ l \in Int /\ lines[l].present /\ lines[l].class = ClassOf(c, l)
    <3>1. l \in Line BY <1>3 DEF Base, Laid
    <3>2. lines[l].present /\ lines[l].class = ClassOf(c, l) BY <1>3 DEF AllPlaced
    <3> QED BY <3>1, <3>2, ProfileAssumption
  <2>2. CASE c = b
    <3>1. CASE l = here
      BY <1>1, <1>2, <2>1, <2>2, <3>1
    <3>2. CASE l # here
      <4>1. lines'[l].present /\ lines'[l].class = ClassOf(c, l)
        BY <1>2, <2>1, <3>2
      <4>2. l < Allocation.base + job.moved <=> l < Allocation.base + (job.moved + 1)
        BY <1>1, <2>1, <3>2
      <4> QED BY <1>1, <2>2, <4>1, <4>2 DEF ClassOf, Allocation
    <3> QED BY <3>1, <3>2
  <2>3. CASE c # b
    <3>1. l # here
      BY <1>1, <1>3, <2>3 DEF Base, Laid, Allocation
    <3> QED BY <1>2, <2>1, <2>3, <3>1 DEF ClassOf
  <2> QED BY <2>2, <2>3
<1>4. CASE job.moved + 1 < Allocation.lines
  <2>1. PICK m, t : job' = [job EXCEPT !.moved = m, !.at = t] /\ m = job.moved + 1
    BY <1>4 DEF Migrate
  <2>2. job'.op = job.op /\ job'.moved = job.moved + 1 /\ job'.dest = job.dest
    BY <1>1, <2>1 DEF Job
  <2>3. allocations' = allocations /\ pos' = pos /\ events' = events
    BY <1>1, <1>4 DEF Migrate, traceVars
  <2>4. \A c, l : ClassOf(c, l)' = IF c = b /\ l < allocations[c].base + (job.moved + 1)
                                   THEN job.dest ELSE allocations[c].class
    BY <1>1, <2>2, <2>3 DEF ClassOf, Moving, Current
  <2>5. \A c \in DOMAIN allocations : \A l : (c = b /\ l < allocations[c].base + (job.moved + 1))
          <=> (c = b /\ l < Allocation.base + (job.moved + 1))
    BY DEF Allocation
  <2>6. \A c \in DOMAIN allocations : allocations[c].resident => \A l \in LinesIn(c) :
          lines'[l].present /\ lines'[l].class = ClassOf(c, l)'
    BY <1>3, <2>4, <2>5
  <2> QED BY <2>3, <2>6 DEF AllPlaced, LinesIn
<1>5. CASE ~(job.moved + 1 < Allocation.lines)
  <2>1. /\ allocations' = [allocations EXCEPT ![b].class = job.dest]
        /\ job' = Idle \/ \E t : job' = Again(t)
    BY <1>5, <1>1 DEF Migrate, Relocated, Ends
  <2>2. job'.op \in {"idle", "access"}
    <3>1. ASSUME NEW t PROVE Again(t).op = "access" BY <1>1 DEF Again, Job
    <3> QED BY <2>1, <3>1 DEF Idle
  <2>3. /\ DOMAIN allocations' = DOMAIN allocations
        /\ \A c \in DOMAIN allocations : c # b => allocations'[c] = allocations[c]
        /\ allocations'[b] = [allocations[b] EXCEPT !.class = job.dest]
    BY <1>1, <2>1
  <2>4. /\ allocations'[b].class = job.dest /\ allocations'[b].resident
        /\ allocations'[b].base = allocations[b].base /\ allocations'[b].lines = allocations[b].lines
    BY <1>1, <2>3 DEF Allocation, Placement
  <2>5. \A l \in LinesIn(b) : l < Allocation.base + (job.moved + 1)
    BY <1>1, <1>5 DEF LinesIn, Lines, Allocation
  <2>6. \A c \in DOMAIN allocations : allocations'[c].resident => \A l \in LinesIn(c) :
          lines'[l].present /\ lines'[l].class = allocations'[c].class
    <3>1. ASSUME NEW c \in DOMAIN allocations, allocations'[c].resident, NEW l \in LinesIn(c)
          PROVE  lines'[l].present /\ lines'[l].class = allocations'[c].class
      <4>1. allocations[c].resident BY <1>1, <2>3, <3>1 DEF Allocation
      <4>2. CASE c = b
        <5>1. l < Allocation.base + (job.moved + 1) BY <2>5, <3>1, <4>2
        <5> QED BY <1>3, <2>4, <3>1, <4>1, <4>2, <5>1
      <4>3. CASE c # b
        <5>1. allocations'[c].class = allocations[c].class BY <2>3, <4>3
        <5> QED BY <1>3, <3>1, <4>1, <4>3, <5>1
      <4> QED BY <4>2, <4>3
    <3> QED BY <3>1
  <2>7. \A c \in DOMAIN allocations :
          Lines(allocations'[c].base, allocations'[c].lines) = LinesIn(c)
    BY <2>3, <2>4 DEF LinesIn
  <2> QED BY <2>2, <2>3, <2>6, <2>7 DEF AllPlaced, ClassOf, Moving, LinesIn
<1> QED BY <1>4, <1>5

LEMMA QuietWhole ==
  ASSUME Base, Whole, [Next]_vars, UNCHANGED <<lines, allocations>>,
         fault' \in {fault, "access", "duplicate", "unknown", "limit"},
         \/ ~Moving /\ (job'.op \in {"hint", "promote"} => job'.moved = 0)
         \/ job' = job /\ pos' = pos /\ events' = events
  PROVE  Whole'
<1>1. CASE stats'.migration = 0
  <2>1. AllPlaced /\ fault # "class" BY <1>1, FailedStays DEF Whole
  <2>2. AllPlaced' BY <2>1, PlacedKept
  <2> QED BY <2>1, <2>2 DEF Whole
<1>2. CASE stats'.migration # 0
  BY <1>2 DEF Whole
<1> QED BY <1>1, <1>2

LEMMA ServesWhole ==
  ASSUME Base, Base', Whole, [Next]_vars, Serves
  PROVE  Whole'
<1>1. /\ ~Moving /\ allocations' = allocations /\ fault = "none" /\ UNCHANGED traceVars /\ job \in Job
      /\ operation'.completion \in Nat
  BY DEF Serves, Write, Read, Refresh, RefreshAfterPromotion, Maintenance, Refreshed, Serving, Moving,
     After, Base, Typed, Sound, Operation
<1>2. /\ \A l \in Line : lines'[l].present = lines[l].present /\ lines'[l].class = lines[l].class
      /\ fault' \in {"none", "early", "class"}
      /\ fault' = "class" => lines[Address].class # Allocation.class
  BY ReadCommand, WriteCommand, RefreshCommand DEF Serves, Base, Commanded
<1>3. job'.op \in {"hint", "promote"} => job'.moved = 0
  <2>1. Again(operation'.completion).op = "access"
    BY <1>1, AgainIs
  <2>2. job' = job \/ job'.op \in {"idle", "access"}
    <3>1. CASE UNCHANGED job BY <3>1
    <3>2. CASE job' = Idle BY <3>2 DEF Idle
    <3>3. CASE job' = Again(operation'.completion) BY <2>1, <3>3
    <3>4. CASE fault' = "none" /\ (Write \/ Read)
      <4>1. job.op = "access" /\ operation' \in Operation /\ AccessedLine
            /\ UNCHANGED <<allocations, nextBase, liveBytes, traceVars>>
        BY <3>4 DEF Write, Read, Serving, After, Base, Sound
      <4>2. Ends \/ job'.op = "access"
        BY <4>1, AccessedIs DEF Base
      <4> QED BY <4>2, <3>2 DEF Ends
    <3>5. CASE Refresh \/ RefreshAfterPromotion
      <4>1. PICK start, deadline : Refreshed(start, deadline)
        BY <3>5 DEF Refresh, RefreshAfterPromotion
      <4> QED BY <4>1, <3>1, <3>2, <3>3 DEF Refreshed, Ends
    <3>6. CASE fault' # "none" /\ (Write \/ Read)
      BY <3>1, <3>6 DEF Write, Read
    <3> QED BY <3>4, <3>5, <3>6 DEF Serves
  <2> QED BY <1>1, <2>2 DEF Moving
<1>4. fault' = "class" => Address \in LinesIn(Current.buffer) /\ Current.buffer \in DOMAIN allocations
                          /\ Allocation.resident
  <2>1. job.op \notin {"idle", "hint"}
    BY DEF Serves, Write, Read, Refresh, RefreshAfterPromotion, Maintenance, Serving
  <2> QED BY <2>1, AtWork DEF Base
<1>5. CASE stats'.migration = 0
  <2>1. AllPlaced BY <1>5, FailedStays DEF Whole
  <2>2. AllPlaced' BY <1>1, <1>2, <1>3, <2>1, PlacedKept
  <2>3. fault' # "class"
    BY <1>1, <1>2, <1>4, <2>1 DEF AllPlaced, ClassOf, Allocation
  <2> QED BY <1>2, <2>2, <2>3 DEF Whole
<1>6. CASE stats'.migration # 0
  BY <1>2, <1>6 DEF Whole
<1> QED BY <1>5, <1>6

LEMMA MigrateWhole ==
  ASSUME Base, Whole, [Next]_vars, Migrate
  PROVE  Whole'
<1>1. fault' \in {"none", "early"} /\ (fault' # "none" => lines' = lines)
  BY MigrateCommand DEF Base, Commanded
<1>2. CASE stats'.migration = 0
  <2>1. AllPlaced BY <1>2, FailedStays DEF Whole
  <2>2. CASE fault' # "none"
    <3>1. UNCHANGED <<lines, pos, job, allocations, events>>
      BY <1>1, <2>2 DEF Migrate, After, traceVars
    <3>2. AllPlaced' BY <2>1, <3>1, PlacedKept
    <3> QED BY <1>1, <3>2 DEF Whole
  <2>3. CASE fault' = "none" /\ operation'.ok
    BY <2>1, <2>3, MovedWhole DEF Whole
  <2>4. CASE fault' = "none" /\ ~operation'.ok
    <3>1. stats' = Counted(operation'.failure, job.op = "promote", TRUE) /\ stats \in Statistics
      BY <2>4 DEF Migrate, Base, Typed
    <3>2. stats'.migration = stats.migration + 1 BY <3>1, CountedIs
    <3>3. stats.migration \in Nat BY <3>1 DEF Statistics
    <3> QED BY <1>2, <3>2, <3>3
  <2> QED BY <2>2, <2>3, <2>4
<1>3. CASE stats'.migration # 0
  BY <1>1, <1>3 DEF Whole
<1> QED BY <1>2, <1>3

LEMMA WholeStep ==
  ASSUME Base, Whole, [Next]_vars
  PROVE  Whole'
<1>0. Base' BY BaseStep
<1>1. CASE UNCHANGED vars
  BY <1>1, QuietWhole DEF vars, memoryVars, replayVars, traceVars
<1>2. CASE Load \/ Reject \/ Start \/ Report
  <2>1. UNCHANGED <<lines, allocations, job, pos>> /\ fault' \in {fault, "access"}
    BY <1>2 DEF Load, Reject, Start, Report, memoryVars, replayVars
  <2>2. events' = events \/ job = Idle
    BY <1>2 DEF Load, Reject, Start, Report, Base, Typed
  <2>3. job = Idle => ~Moving /\ job'.op \notin {"hint", "promote"}
    BY <2>1 DEF Moving, Idle
  <2> QED BY <2>1, <2>2, <2>3, QuietWhole
<1>3. CASE \/ Allocate /\ Known
           \/ Free /\ ~Known
  <2>1. UNCHANGED <<lines, allocations, job, pos, events>> /\ fault' \in {"duplicate", "unknown"}
    BY <1>3 DEF Allocate, Free, Throw, replayVars, traceVars
  <2> QED BY <2>1, QuietWhole
<1>4. CASE Hint \/ Access \/ Compute \/ Phase \/ Barrier
  <2>1. /\ UNCHANGED <<lines, allocations>> /\ fault' \in {fault, "unknown", "access"} /\ ~Moving
        /\ job.op = "idle"
    BY <1>4 DEF Hint, Access, Compute, Phase, Barrier, Begins, Throw, memoryVars, replayVars, Moving
  <2>2. job'.op \in {"hint", "promote"} => job'.moved = 0
    <3>1. CASE UNCHANGED job BY <2>1, <3>1
    <3>2. CASE job' = Idle BY <3>2 DEF Idle
    <3>3. CASE Hint
      <4>1. ASSUME NEW c, NEW t PROVE [Idle EXCEPT !.op = "hint", !.dest = c, !.at = t].moved = 0
        BY DEF Idle
      <4>2. PICK c, t : \/ UNCHANGED job
                        \/ job' = Idle
                        \/ job' = [Idle EXCEPT !.op = "hint", !.dest = c, !.at = t]
        BY <3>3 DEF Hint, Ends, Throw, replayVars
      <4>3. CASE job' = [Idle EXCEPT !.op = "hint", !.dest = c, !.at = t] BY <4>1, <4>3
      <4> QED BY <3>1, <3>2, <4>2, <4>3
    <3>4. CASE Access
      <4>1. ASSUME NEW n, NEW t
            PROVE  [Idle EXCEPT !.op = "access", !.line = n, !.completion = t].op = "access"
        BY DEF Idle
      <4> QED BY <3>1, <3>2, <3>4, <4>1 DEF Access, Ends, Throw, replayVars
    <3>5. CASE Compute \/ Phase \/ Barrier
      BY <3>2, <3>5 DEF Compute, Phase, Barrier, Ends
    <3> QED BY <1>4, <3>3, <3>4, <3>5
  <2> QED BY <2>1, <2>2, QuietWhole
<1>5. CASE Promote \/ Exhausted
  <2>1. /\ UNCHANGED <<lines, allocations>> /\ fault' \in {fault, "limit"} /\ job.op = "access"
        /\ job \in Job
    BY <1>5 DEF Promote, Exhausted, Maintenance, Serving, Throw, memoryVars, replayVars, Base, Typed
  <2>2. ~Moving BY <2>1 DEF Moving
  <2>3. job'.op \in {"hint", "promote"} => job'.moved = 0
    <3>1. ASSUME NEW t PROVE Again(t).op = "access" BY <2>1 DEF Again, Job
    <3>2. ASSUME NEW d, NEW s, NEW t
          PROVE  [job EXCEPT !.op = "promote", !.dest = d, !.moved = 0, !.at = s,
                             !.start = s, !.deadline = t].moved = 0
      BY <2>1 DEF Job
    <3>3. CASE Exhausted BY <2>1, <3>3 DEF Exhausted, Throw, replayVars
    <3>4. CASE Promote
      <4>1. PICK d, s, t : \/ job' = Again(s)
                           \/ job' = [job EXCEPT !.op = "promote", !.dest = d, !.moved = 0, !.at = s,
                                                 !.start = s, !.deadline = t]
        BY <3>4 DEF Promote
      <4>2. CASE job' = Again(s) BY <3>1, <4>2
      <4>3. CASE job' = [job EXCEPT !.op = "promote", !.dest = d, !.moved = 0, !.at = s,
                                    !.start = s, !.deadline = t]
        BY <3>2, <4>3
      <4> QED BY <4>1, <4>2, <4>3
    <3> QED BY <1>5, <3>3, <3>4
  <2> QED BY <2>1, <2>2, <2>3, QuietWhole
<1>6. CASE Allocate /\ ~Known
  <2>1. PICK base \in Nat, n \in Nat \ {0}, class \in Class, fits \in BOOLEAN :
          base >= nextBase /\ Placing(base, n, class, fits)
    BY <1>6, AllocateIs DEF Base
  <2>2. job.op = "idle" BY <1>6 DEF Allocate, Begins
  <2>3. CASE stats'.migration = 0
    <3>1. AllPlaced /\ stats.migration = 0 BY <2>3, FailedStays DEF Whole
    <3>2. AllPlaced' /\ fault' = fault BY <1>6, <2>1, <2>2, <3>1, PlacingWhole
    <3> QED BY <3>1, <3>2 DEF Whole
  <2>4. CASE stats'.migration # 0
    <3>1. fault' = fault
      <4>1. nextBase \in Nat BY DEF Base, Typed
      <4> QED BY <2>1, <4>1, ReserveIs DEF Placing, memoryVars, Base
    <3> QED BY <2>4, <3>1 DEF Whole
  <2> QED BY <2>3, <2>4
<1>7. CASE Free /\ Known
  <2>1. CASE stats'.migration = 0
    <3>1. AllPlaced BY <2>1, FailedStays DEF Whole
    <3>2. AllPlaced' /\ fault' = "none" BY <1>7, <3>1, FreeWhole
    <3> QED BY <3>2 DEF Whole
  <2>2. CASE stats'.migration # 0
    <3>1. fault' = "none" BY <1>7, FreeIs DEF Base
    <3> QED BY <2>2, <3>1 DEF Whole
  <2> QED BY <2>1, <2>2
<1>8. CASE Serves BY <1>0, <1>8, ServesWhole
<1>9. CASE Migrate BY <1>9, MigrateWhole
<1> QED BY <1>1, <1>2, <1>3, <1>4, <1>5, <1>6, <1>7, <1>8, <1>9 DEF Next, Replay, Serves

LEMMA InitWhole == Init => Whole
BY DEF Init, MemoryInit, Whole, AllPlaced

LEMMA WholeIs == Whole => AllocationsWhole
BY DEF Whole, AllPlaced, ClassOf, Moving, AllocationsWhole, LinesIn

\* Until a migration fails, a buffer's lines are all in the class it is accounted to, and
\* the memory throws at no class, no overlap and no underflow, for every trace.
THEOREM AllocationsWholeCorrect == Spec => []AllocationsWhole
<1>1. Base /\ Whole /\ [Next]_vars => Whole'
  BY WholeStep
<1> QED BY <1>1, InitWhole, BaseInvariant, WholeIs, PTL DEF Spec

-----------------------------------------------------------------------------
(* Without maintenance and failed migrations, a stream is ready after every  *)
(* line of a buffer was written, or another stream has used the buffer since *)
(* the last barrier that this one was known at.                              *)

\* Event i may write buffer b, and up to event h nothing orders stream k after it.
Clash(trace, b, k, i, h) ==
  /\ i \in 1..(h - 1) /\ trace[i].buffer = b /\ trace[i].stream # k
  /\ trace[i].kind = "HINT" \/ trace[i].write
  /\ \A m \in (i + 1)..(h - 1) :
       trace[m].kind = "BARRIER" => \A n \in 1..m : trace[n].stream # k
Clashes(trace, b, k, h) == \E i \in 1..(h - 1) : Clash(trace, b, k, i, h)

\* The events begun so far are those before this one.
Horizon == IF job.op = "idle" THEN pos ELSE pos + 1
Time(f, k) == IF k \in DOMAIN f THEN f[k] ELSE 0
Knows(k) == IF job.op = "hint" /\ k = Current.stream THEN job.at ELSE Time(ready, k)

Reached(b, k, l) == lines[l].lastWrite <= Knows(k) \/ Clashes(events, b, k, Horizon)

Timed ==
  /\ \A n \in 1..(Horizon - 1) : events[n].stream \in DOMAIN ready
  /\ job.op = "access" => ready[Current.stream] = job.completion
  /\ \A b \in DOMAIN allocations : allocations[b].resident =>
       \A k \in Stream : \A l \in LinesIn(b) : Reached(b, k, l)
  /\ fault = "early" => job.op # "idle" /\ Clashes(events, Current.buffer, Current.stream, Horizon)

Synchronized == policy \notin Maintains /\ stats.migration = 0 => Timed

\* A clash lasts until a barrier.
LEMMA ClashLasts ==
  ASSUME NEW trace, NEW b, NEW k, NEW h \in Nat, Clashes(trace, b, k, h),
         trace[h].kind = "BARRIER" => \A n \in 1..h : trace[n].stream # k
  PROVE  Clashes(trace, b, k, h + 1)
<1>1. PICK i \in 1..(h - 1) : Clash(trace, b, k, i, h) BY DEF Clashes
<1>2. i \in 1..((h + 1) - 1) OBVIOUS
<1>3. ASSUME NEW m \in (i + 1)..((h + 1) - 1), trace[m].kind = "BARRIER"
      PROVE  \A n \in 1..m : trace[n].stream # k
  <2>1. CASE m = h BY <1>3, <2>1
  <2>2. CASE m # h
    <3>1. m \in (i + 1)..(h - 1) BY <1>1, <2>2
    <3> QED BY <1>1, <1>3, <3>1 DEF Clash
  <2> QED BY <2>1, <2>2
<1>4. Clash(trace, b, k, i, h + 1) BY <1>1, <1>2, <1>3 DEF Clash
<1> QED BY <1>2, <1>4 DEF Clashes

\* The event just begun clashes with every other stream.
LEMMA ClashNow ==
  ASSUME NEW trace, NEW k, NEW h \in Nat \ {0}, trace[h].stream # k,
         trace[h].kind = "HINT" \/ trace[h].write
  PROVE  Clashes(trace, trace[h].buffer, k, h + 1)
<1>1. h \in 1..((h + 1) - 1) /\ \A m \in (h + 1)..((h + 1) - 1) : FALSE OBVIOUS
<1>2. Clash(trace, trace[h].buffer, k, h, h + 1) BY <1>1 DEF Clash
<1> QED BY <1>1, <1>2 DEF Clashes

LEMMA KnowsIs ==
  ASSUME Typed
  PROVE  /\ \A k : Time(ready, k) \in Nat /\ Knows(k) \in Nat
         /\ Horizon \in Nat \ {0} /\ job.op \in {"idle", "hint", "access", "promote", "refresh"}
<1>1. job \in Job /\ job.at \in Nat /\ job.op \in {"idle", "hint", "access", "promote", "refresh"}
  BY DEF Typed, Job
<1>2. \A k : Time(ready, k) \in Nat BY DEF Time, Typed
<1> QED BY <1>1, <1>2 DEF Knows, Horizon, Typed

LEMMA KnowsNext ==
  ASSUME Base'
  PROVE  \A k : Knows(k)' \in Nat
<1>1. job' \in Job BY DEF Base, Typed
<1>2. \A k : Time(ready', k) \in Nat /\ job'.at \in Nat
  BY <1>1 DEF Time, Base, Typed, Job
<1> QED BY <1>2 DEF Knows

\* What a step must do for every line of every buffer.
LEMMA TimedLines ==
  ASSUME Base, Base', Timed, events' = events,
         \A k \in Stream : Knows(k) <= Knows(k)',
         \/ Horizon' = Horizon
         \/ Horizon' = Horizon + 1 /\ events[Horizon].kind # "BARRIER",
         \A b \in DOMAIN allocations' : allocations'[b].resident =>
           \A l \in Lines(allocations'[b].base, allocations'[b].lines) :
             \/ /\ b \in DOMAIN allocations /\ allocations[b].resident /\ l \in LinesIn(b)
                /\ lines'[l].lastWrite = lines[l].lastWrite
             \/ lines'[l].lastWrite = 0
             \/ \A k \in Stream : \/ lines'[l].lastWrite <= Knows(k)'
                                  \/ Clashes(events, b, k, Horizon')
  PROVE  \A b \in DOMAIN allocations' : allocations'[b].resident =>
           \A k \in Stream : \A l \in Lines(allocations'[b].base, allocations'[b].lines) :
             Reached(b, k, l)'
<1> SUFFICES ASSUME NEW b \in DOMAIN allocations', allocations'[b].resident, NEW k \in Stream,
                    NEW l \in Lines(allocations'[b].base, allocations'[b].lines)
             PROVE  lines'[l].lastWrite <= Knows(k)' \/ Clashes(events, b, k, Horizon')
  BY DEF Reached
<1>1. Knows(k) \in Nat /\ Horizon \in Nat BY KnowsIs DEF Base
<1>2. Knows(k)' \in Nat BY KnowsNext
<1>3. CASE /\ b \in DOMAIN allocations /\ allocations[b].resident /\ l \in LinesIn(b)
           /\ lines'[l].lastWrite = lines[l].lastWrite
  <2>1. lines[l].lastWrite <= Knows(k) \/ Clashes(events, b, k, Horizon)
    BY <1>3 DEF Timed, Reached
  <2>2. l \in Line /\ lines[l].lastWrite \in Nat
    BY <1>3 DEF Base, Laid, Sound, LineState
  <2>3. CASE lines[l].lastWrite <= Knows(k)
    <3>1. Knows(k) <= Knows(k)' OBVIOUS
    <3>2. PICK x \in Nat : x = Knows(k) BY <1>1
    <3>3. PICK y \in Nat : y = Knows(k)' BY <1>2
    <3> QED BY <1>3, <2>2, <2>3, <3>1, <3>2, <3>3
  <2>4. CASE Clashes(events, b, k, Horizon)
    BY <1>1, <2>4, ClashLasts
  <2> QED BY <2>1, <2>3, <2>4
<1>4. CASE lines'[l].lastWrite = 0 BY <1>2, <1>4
<1> QED BY <1>3, <1>4

\* An event begins.
Begin ==
  /\ job.op = "idle" /\ pos <= Len(events) /\ UNCHANGED traceVars /\ fault' # "early"
  /\ \/ job' = Idle /\ pos' = pos + 1
     \/ job'.op \in {"hint", "access"} /\ pos' = pos
  /\ DOMAIN Arrived \subseteq DOMAIN ready'
  /\ \A k \in Stream : Time(Arrived, k) <= Knows(k)'
  /\ job'.op = "access" => ready'[Current.stream] = job'.completion

LEMMA BeginIs ==
  ASSUME Base, Base', Timed, Begin
  PROVE  /\ Horizon = pos /\ Horizon' = Horizon + 1 /\ events' = events
         /\ \A k \in Stream : Knows(k) <= Knows(k)'
         /\ \A n \in 1..(Horizon' - 1) : events[n].stream \in DOMAIN ready'
<1>1. Horizon = pos /\ Horizon' = Horizon + 1 /\ events' = events
  BY DEF Begin, Horizon, Idle, traceVars
<1>2. ASSUME NEW k \in Stream PROVE Knows(k) <= Knows(k)'
  <2>1. Knows(k) = Time(ready, k) BY DEF Begin, Knows
  <2>2. \A x \in DOMAIN ready : x \in DOMAIN Arrived /\ ready[x] \in Nat /\ Arrived[x] >= ready[x]
        /\ Arrived[x] \in Nat
    BY ArrivedIs DEF Begin, Base, Typed
  <2>3. Time(Arrived, k) \in Nat BY ArrivedIs DEF Time, Begin, Base
  <2>4. Time(ready, k) <= Time(Arrived, k) /\ Time(ready, k) \in Nat
    BY <2>2, <2>3 DEF Time
  <2>5. Time(Arrived, k) <= Knows(k)' BY DEF Begin
  <2>6. PICK y \in Nat : y = Knows(k)' BY KnowsNext
  <2> QED BY <2>1, <2>3, <2>4, <2>5, <2>6
<1>3. ASSUME NEW n \in 1..(Horizon' - 1) PROVE events[n].stream \in DOMAIN ready'
  <2>1. pos \in Nat BY DEF Base, Typed
  <2>2. DOMAIN Arrived = DOMAIN ready \cup {Current.stream}
    BY ArrivedIs DEF Begin, Base
  <2>3. CASE n = pos BY <2>2, <2>3 DEF Begin, Current
  <2>4. CASE n # pos
    <3>1. n \in 1..(Horizon - 1) BY <1>1, <1>3, <2>1, <2>4
    <3> QED BY <2>2, <3>1 DEF Timed, Begin
  <2> QED BY <2>3, <2>4
<1> QED BY <1>1, <1>2, <1>3

LEMMA BeginTimed ==
  ASSUME Base, Base', Timed, Begin, Current.kind # "BARRIER",
         \A b \in DOMAIN allocations' : allocations'[b].resident =>
           \A l \in Lines(allocations'[b].base, allocations'[b].lines) :
             \/ /\ b \in DOMAIN allocations /\ allocations[b].resident /\ l \in LinesIn(b)
                /\ lines'[l].lastWrite = lines[l].lastWrite
             \/ lines'[l].lastWrite = 0
  PROVE  Timed'
<1>1. events[Horizon].kind # "BARRIER" BY BeginIs DEF Current
<1>2. \A b \in DOMAIN allocations' : allocations'[b].resident =>
         \A k \in Stream : \A l \in Lines(allocations'[b].base, allocations'[b].lines) :
           Reached(b, k, l)'
  BY <1>1, BeginIs, TimedLines
<1>3. job'.op = "access" => ready'[Current.stream] = job'.completion /\ events'[pos'] = Current
  BY DEF Begin, Idle, traceVars, Current
<1>4. fault' # "early" BY DEF Begin
<1>5. \A n \in 1..(Horizon' - 1) : events'[n].stream \in DOMAIN ready'
  BY BeginIs
<1> QED BY <1>2, <1>3, <1>4, <1>5 DEF Timed, LinesIn, Current

\* After a barrier no line is ahead of any stream seen so far.
LEMMA BarrierTimed ==
  ASSUME Base, Base', Timed, Barrier
  PROVE  Timed'
<1> DEFINE t == Max({AllReady(Arrived), BankReady})
<1>1. /\ job.op = "idle" /\ pos <= Len(events) /\ fault = "none" /\ UNCHANGED <<lines, fault, allocations>>
      /\ UNCHANGED traceVars /\ job' = Idle /\ pos' = pos + 1 /\ Current.kind = "BARRIER"
      /\ ready' = [k \in DOMAIN Arrived |-> t]
  BY DEF Barrier, Begins, Ends, StampAll, memoryVars
<1>2. t \in Nat /\ t >= makespan /\ \A k \in DOMAIN Arrived : t >= Arrived[k]
  BY <1>1, StampAllIs DEF Base
<1>3. \A k \in DOMAIN Arrived : Arrived[k] \in Nat BY <1>1, ArrivedIs DEF Base
<1> HIDE DEF t
<1>4. job'.op = "idle" BY <1>1 DEF Idle
<1>5. \A k \in Stream : Knows(k)' = Time(ready', k) BY <1>4 DEF Knows
<1>6. \A k \in DOMAIN Arrived : Time(ready', k) = t BY <1>1 DEF Time
<1>7. \A k : k \notin DOMAIN Arrived => Time(ready', k) = 0 /\ Time(Arrived, k) = 0
  BY <1>1 DEF Time
<1>8. Begin
  <2>1. \A k \in Stream : Time(Arrived, k) <= Time(ready', k)
    <3>1. \A k \in DOMAIN Arrived : Time(Arrived, k) <= t BY <1>2, <1>3 DEF Time
    <3> QED BY <1>6, <1>7, <3>1
  <2>2. DOMAIN Arrived \subseteq DOMAIN ready' BY <1>1
  <2> QED BY <1>1, <1>4, <1>5, <2>1, <2>2 DEF Begin
<1>9. ASSUME NEW b \in DOMAIN allocations, allocations[b].resident, NEW k \in Stream, NEW l \in LinesIn(b)
      PROVE  lines[l].lastWrite <= Knows(k)' \/ Clashes(events, b, k, Horizon')
  <2>1. l \in Line /\ lines[l].lastWrite \in Nat /\ lines[l].lastWrite <= makespan /\ makespan \in Nat
    BY <1>9 DEF Base, Laid, Sound, LineState, Dates, LinesDated
  <2>2. CASE k \in DOMAIN Arrived
    <3>1. lines[l].lastWrite <= t BY <1>2, <2>1
    <3> QED BY <1>5, <1>6, <2>2, <3>1
  <2>3. CASE k \notin DOMAIN Arrived
    <3>1. Horizon = pos /\ Horizon' = Horizon + 1 /\ pos \in Nat
      BY <1>8, BeginIs DEF Base, Typed
    <3>2. lines[l].lastWrite <= Knows(k) \/ Clashes(events, b, k, Horizon)
      BY <1>9 DEF Timed, Reached
    <3>3. DOMAIN Arrived = DOMAIN ready \cup {Current.stream}
      BY <1>1, ArrivedIs DEF Base
    <3>4. Knows(k) = 0 BY <1>1, <2>3, <3>3 DEF Knows, Time
    <3>5. CASE lines[l].lastWrite <= Knows(k)
      BY <1>5, <1>7, <2>3, <3>4, <3>5
    <3>6. CASE Clashes(events, b, k, Horizon)
      <4>1. \A n \in 1..Horizon : events[n].stream # k
        <5>1. \A n \in 1..Horizon : n = pos \/ n \in 1..(Horizon - 1) BY <3>1
        <5> QED BY <2>3, <3>1, <3>3, <5>1 DEF Timed, Current
      <4> QED BY <3>1, <3>6, <4>1, ClashLasts
    <3> QED BY <3>2, <3>5, <3>6
  <2> QED BY <2>2, <2>3
<1>10. \A b \in DOMAIN allocations' : allocations'[b].resident =>
         \A k \in Stream : \A l \in Lines(allocations'[b].base, allocations'[b].lines) :
           Reached(b, k, l)'
  <2>1. events' = events BY <1>1 DEF traceVars
  <2> QED BY <1>1, <1>9, <2>1 DEF Reached, LinesIn
<1>11. \A n \in 1..(Horizon' - 1) : events'[n].stream \in DOMAIN ready'
  BY <1>8, BeginIs
<1> QED BY <1>1, <1>4, <1>10, <1>11 DEF Timed, LinesIn

\* The streams after an event that ends at once.
LEMMA AtOnce ==
  ASSUME Base, job.op = "idle", pos <= Len(events), UNCHANGED traceVars, fault' # "early",
         job' = Idle, pos' = pos + 1, DOMAIN ready' = DOMAIN Arrived,
         \A k \in DOMAIN Arrived : ready'[k] >= Arrived[k] /\ ready'[k] \in Nat
  PROVE  Begin
<1>1. job'.op = "idle" BY DEF Idle
<1>2. \A k : Knows(k)' = Time(ready', k) BY <1>1 DEF Knows
<1>3. \A k \in DOMAIN Arrived : Arrived[k] \in Nat BY ArrivedIs DEF Base
<1>4. \A k : Time(Arrived, k) <= Time(ready', k)
  BY <1>3 DEF Time
<1> QED BY <1>1, <1>2, <1>4 DEF Begin

LEMMA Reflexive ==
  ASSUME Typed, pos <= Len(events)
  PROVE  \A k \in DOMAIN Arrived : Arrived[k] >= Arrived[k] /\ Arrived[k] \in Nat
<1>1. \A k \in DOMAIN Arrived : Arrived[k] \in Nat BY ArrivedIs
<1> QED BY <1>1

LEMMA AllocateTimed ==
  ASSUME Base, Base', Timed, Allocate, ~Known
  PROVE  Timed'
<1>1. PICK base \in Nat, n \in Nat \ {0}, class \in Class, fits \in BOOLEAN :
        base >= nextBase /\ Placing(base, n, class, fits)
  BY AllocateIs DEF Base
<1>2. /\ job.op = "idle" /\ pos <= Len(events) /\ Current.kind = "ALLOC" /\ fault = "none"
  BY DEF Allocate, Begins
<1> DEFINE b == Current.buffer
           new == Lines(base, n)
<1>3. /\ DOMAIN allocations' = DOMAIN allocations \cup {b}
      /\ allocations'[b].base = base /\ allocations'[b].lines = n /\ allocations'[b].resident = fits
      /\ \A c \in DOMAIN allocations : allocations'[c] = allocations[c]
      /\ job' = Idle /\ pos' = pos + 1 /\ UNCHANGED traceVars /\ ready' = Arrived
  BY <1>1 DEF Placing, Put, Known
<1>4. nextBase \in Nat BY DEF Base, Typed
<1>5. /\ fits => /\ new \subseteq Line
                 /\ lines' = [l \in Line |-> IF l \in new THEN Fresh(class) ELSE lines[l]]
      /\ ~fits => lines' = lines
      /\ fault' = fault
  BY <1>1, <1>4, ReserveIs DEF Placing, memoryVars, Base
<1>6. Begin
  BY <1>2, <1>3, <1>5, AtOnce, Reflexive DEF Base
<1>7. ASSUME NEW c \in DOMAIN allocations, allocations[c].resident, NEW l \in LinesIn(c)
      PROVE  lines'[l].lastWrite = lines[l].lastWrite
  <2>1. allocations[c].base \in Nat /\ allocations[c].lines \in Nat /\ l \in Line
        /\ allocations[c].base + allocations[c].lines <= nextBase
    BY <1>7, PlacedIs DEF Base, Laid
  <2>2. l \notin new BY <1>1, <1>4, <2>1 DEF LinesIn, Lines
  <2> QED BY <1>5, <2>1, <2>2
<1>8. ASSUME fits, NEW l \in new PROVE lines'[l].lastWrite = 0
  BY <1>5, <1>8 DEF Fresh, Gone
<1>9. \A c \in DOMAIN allocations' : allocations'[c].resident =>
        \A l \in Lines(allocations'[c].base, allocations'[c].lines) :
          \/ /\ c \in DOMAIN allocations /\ allocations[c].resident /\ l \in LinesIn(c)
             /\ lines'[l].lastWrite = lines[l].lastWrite
          \/ lines'[l].lastWrite = 0
  BY <1>3, <1>7, <1>8 DEF LinesIn
<1> QED BY <1>2, <1>6, <1>9, BeginTimed

LEMMA FreeTimed ==
  ASSUME Base, Base', Timed, Free, Known
  PROVE  Timed'
<1> DEFINE b == Current.buffer
<1>1. /\ DOMAIN allocations' = DOMAIN allocations \ {b}
      /\ \A c \in DOMAIN allocations' : allocations'[c] = allocations[c]
      /\ \A l \in Line : lines'[l] = IF Allocation.resident /\ l \in LinesIn(b) THEN Gone ELSE lines[l]
      /\ job' = Idle /\ fault' = "none"
  BY FreeIs DEF Base
<1>2. /\ job.op = "idle" /\ pos <= Len(events) /\ Current.kind = "FREE" /\ fault = "none"
      /\ UNCHANGED traceVars /\ pos' = pos + 1
  BY DEF Free, Begins, Ends
<1>3. /\ DOMAIN ready' = DOMAIN Arrived
      /\ \A k \in DOMAIN Arrived : ready'[k] >= Arrived[k] /\ ready'[k] \in Nat
  <2>1. CASE Allocation.resident
    <3> DEFINE t == Max({AllReady(Arrived), BankReady})
    <3>1. t \in Nat /\ \A k \in DOMAIN Arrived : t >= Arrived[k]
      BY <1>2, StampAllIs DEF Base
    <3>2. ready' = [k \in DOMAIN Arrived |-> t] BY <2>1 DEF Free, StampAll
    <3> HIDE DEF t
    <3> QED BY <3>1, <3>2
  <2>2. CASE ~Allocation.resident
    <3>1. ready' = Arrived BY <2>2 DEF Free
    <3> QED BY <1>2, <3>1, Reflexive DEF Base
  <2> QED BY <2>1, <2>2
<1>4. Begin BY <1>1, <1>2, <1>3, AtOnce
<1>5. \A c \in DOMAIN allocations' : allocations'[c].resident =>
        \A l \in Lines(allocations'[c].base, allocations'[c].lines) :
          \/ /\ c \in DOMAIN allocations /\ allocations[c].resident /\ l \in LinesIn(c)
             /\ lines'[l].lastWrite = lines[l].lastWrite
          \/ lines'[l].lastWrite = 0
  <2>1. ASSUME NEW c \in DOMAIN allocations', allocations'[c].resident,
               NEW l \in Lines(allocations'[c].base, allocations'[c].lines)
        PROVE  /\ c \in DOMAIN allocations /\ allocations[c].resident /\ l \in LinesIn(c)
               /\ lines'[l].lastWrite = lines[l].lastWrite
    <3>1. c \in DOMAIN allocations /\ c # b /\ allocations[c].resident /\ l \in LinesIn(c)
      BY <1>1, <2>1 DEF LinesIn
    <3>2. l \in Line /\ (Allocation.resident => l \notin LinesIn(b))
      BY <3>1 DEF Base, Laid, Known, Allocation
    <3> QED BY <1>1, <3>1, <3>2
  <2> QED BY <2>1
<1> QED BY <1>2, <1>4, <1>5, BeginTimed

LEMMA SameLines ==
  ASSUME UNCHANGED <<lines, allocations>>
  PROVE  \A b \in DOMAIN allocations' : allocations'[b].resident =>
           \A l \in Lines(allocations'[b].base, allocations'[b].lines) :
             \/ /\ b \in DOMAIN allocations /\ allocations[b].resident /\ l \in LinesIn(b)
                /\ lines'[l].lastWrite = lines[l].lastWrite
             \/ lines'[l].lastWrite = 0
BY DEF LinesIn

LEMMA PlainTimed ==
  ASSUME Base, Base', Timed, Compute \/ Phase
  PROVE  Timed'
<1>1. /\ job.op = "idle" /\ pos <= Len(events) /\ Current.kind # "BARRIER" /\ fault = "none"
      /\ UNCHANGED traceVars /\ pos' = pos + 1 /\ job' = Idle /\ fault' = fault
      /\ UNCHANGED <<lines, allocations>>
  BY DEF Compute, Phase, Begins, Ends, memoryVars
<1>2. /\ DOMAIN ready' = DOMAIN Arrived
      /\ \A k \in DOMAIN Arrived : ready'[k] >= Arrived[k] /\ ready'[k] \in Nat
  <2>1. CASE Phase
    <3>1. ready' = Arrived BY <2>1 DEF Phase
    <3> QED BY <1>1, <3>1, Reflexive DEF Base
  <2>2. CASE Compute
    <3>1. Current \in TraceEvent BY <1>1, CurrentIs DEF Base
    <3>2. PICK t \in Nat : t = Clock + Current.cycles
      BY <1>1, <3>1, ArrivedIs DEF TraceEvent, Base
    <3>3. ready' = [Arrived EXCEPT ![Current.stream] = Later(@, t)]
      BY <2>2, <3>2 DEF Compute, Stamp
    <3>4. \A k \in DOMAIN Arrived : Arrived[k] \in Nat BY <1>1, ArrivedIs DEF Base
    <3> QED BY <3>2, <3>3, <3>4 DEF Later
  <2> QED BY <2>1, <2>2
<1>3. Begin BY <1>1, <1>2, AtOnce
<1> QED BY <1>1, <1>3, SameLines, BeginTimed

LEMMA HintTimed ==
  ASSUME Base, Base', Timed, Hint, Known
  PROVE  Timed'
<1>1. /\ job.op = "idle" /\ pos <= Len(events) /\ Current.kind = "HINT" /\ fault = "none"
      /\ UNCHANGED traceVars /\ fault' = fault /\ UNCHANGED <<lines, allocations>> /\ ready' = Arrived
  BY DEF Hint, Begins, memoryVars
<1>2. Begin
  <2>1. CASE Ends
    BY <1>1, <2>1, AtOnce, Reflexive DEF Ends, Base
  <2>2. CASE job' = [Idle EXCEPT !.op = "hint", !.dest = Current.hint, !.at = Clock] /\ pos' = pos
    <3>1. job'.op = "hint" /\ job'.at = Clock BY <2>2 DEF Idle
    <3>2. Clock \in Nat /\ Clock = Arrived[Current.stream] BY <1>1, ArrivedIs DEF Base
    <3>3. \A k : Time(Arrived, k) \in Nat
      <4>1. \A k \in DOMAIN Arrived : Arrived[k] \in Nat BY <1>1, ArrivedIs DEF Base
      <4> QED BY <4>1 DEF Time
    <3>4. Current.stream \in DOMAIN Arrived BY <1>1, ArrivedIs DEF Base
    <3>5. events'[pos'] = Current BY <1>1, <2>2 DEF traceVars, Current
    <3>6. \A k : Knows(k)' = Time(Arrived, k)
      BY <1>1, <3>1, <3>2, <3>4, <3>5 DEF Knows, Time, Current
    <3>7. \A k : Time(Arrived, k) <= Knows(k)' BY <3>3, <3>6
    <3> QED BY <1>1, <2>2, <3>1, <3>7 DEF Begin
  <2> QED BY <2>1, <2>2 DEF Hint
<1> QED BY <1>1, <1>2, SameLines, BeginTimed

LEMMA AccessTimed ==
  ASSUME Base, Base', Timed, Access, Known, InBounds(Current, Allocation.size)
  PROVE  Timed'
<1>1. /\ job.op = "idle" /\ pos <= Len(events) /\ Current.kind = "ACCESS" /\ fault = "none"
      /\ UNCHANGED traceVars /\ fault' = fault /\ UNCHANGED <<lines, allocations>> /\ ready' = Arrived
  BY DEF Access, Begins, memoryVars
<1>2. Begin
  <2>1. CASE Ends
    BY <1>1, <2>1, AtOnce, Reflexive DEF Ends, Base
  <2>2. CASE /\ job' = [Idle EXCEPT !.op = "access", !.line = FirstLine(Current), !.completion = Clock]
             /\ pos' = pos
    <3>1. job'.op = "access" /\ job'.completion = Clock BY <2>2 DEF Idle
    <3>2. Clock = Arrived[Current.stream] BY <1>1, ArrivedIs DEF Base
    <3>3. \A k : Time(Arrived, k) \in Nat
      <4>1. \A k \in DOMAIN Arrived : Arrived[k] \in Nat BY <1>1, ArrivedIs DEF Base
      <4> QED BY <4>1 DEF Time
    <3>4. \A k : Knows(k)' = Time(Arrived, k) BY <1>1, <3>1 DEF Knows
    <3>5. \A k : Time(Arrived, k) <= Knows(k)' BY <3>3, <3>4
    <3> QED BY <1>1, <2>2, <3>1, <3>2, <3>5 DEF Begin
  <2> QED BY <2>1, <2>2 DEF Access
<1> QED BY <1>1, <1>2, SameLines, BeginTimed

LEMMA ReadKeeps ==
  ASSUME IInv, fault = "none", NEW l \in Line, NEW issue \in Nat, ReadLine(l, issue)
  PROVE  \A k \in Line : lines'[k].lastWrite = lines[k].lastWrite
<1>1. lines \in [Line -> LineState] BY DEF IInv, MemoryTypeOK
<1>2. ASSUME NEW t, NEW f, lines' = [lines EXCEPT ![l] = Checked(l, t, f)]
      PROVE  \A k \in Line : lines'[k].lastWrite = lines[k].lastWrite
  <2>1. lines'[l] = Checked(l, t, f) /\ \A k \in Line : k # l => lines'[k] = lines[k]
    BY <1>1, <1>2
  <2>2. lines[l] \in LineState BY <1>1
  <2>3. Checked(l, t, f).lastWrite = lines[l].lastWrite BY <2>2 DEF Checked, LineState
  <2> QED BY <2>1, <2>3
<1>3. \/ lines' = lines
      \/ \E t, f : lines' = [lines EXCEPT ![l] = Checked(l, t, f)]
  BY DEF ReadLine, Missing, Fails
<1> QED BY <1>2, <1>3

\* A job that goes on, or ends, after a command for one line of its buffer.
LEMMA JobTimed ==
  ASSUME Base, Base', Timed, Stays, job.op # "idle", UNCHANGED traceVars, fault' # "early",
         Horizon' = Horizon, DOMAIN ready' = DOMAIN ready, \A k \in Stream : Knows(k) <= Knows(k)',
         NEW l0 \in LinesIn(Current.buffer), NEW k0 \in Stream, k0 = Current.stream,
         \A l \in Line : l # l0 => lines'[l] = lines[l],
         \/ lines'[l0].lastWrite = lines[l0].lastWrite
         \/ /\ lines'[l0].lastWrite <= Knows(k0)'
            /\ Current.kind = "HINT" \/ Current.write,
         job'.op = "access" => pos' = pos /\ ready'[k0] = job'.completion
  PROVE  Timed'
<1>1. /\ Horizon = pos + 1 /\ pos \in Nat \ {0} /\ events' = events /\ pos <= Len(events)
      /\ Current.buffer \in DOMAIN allocations /\ Allocation.resident
  BY DEF Horizon, Base, Typed, Working, traceVars, Known
<1>2. ASSUME NEW b \in DOMAIN allocations', allocations'[b].resident,
             NEW l \in Lines(allocations'[b].base, allocations'[b].lines)
      PROVE  \/ /\ b \in DOMAIN allocations /\ allocations[b].resident /\ l \in LinesIn(b)
                /\ lines'[l].lastWrite = lines[l].lastWrite
             \/ \A k \in Stream : \/ lines'[l].lastWrite <= Knows(k)'
                                  \/ Clashes(events, b, k, Horizon')
  <2>1. b \in DOMAIN allocations /\ allocations[b].resident /\ l \in LinesIn(b)
    BY <1>2 DEF Stays, LinesIn
  <2>2. l \in Line BY <2>1 DEF Base, Laid
  <2>3. CASE l # l0 \/ lines'[l0].lastWrite = lines[l0].lastWrite
    BY <2>1, <2>2, <2>3
  <2>4. CASE /\ l = l0 /\ lines'[l0].lastWrite <= Knows(k0)'
             /\ Current.kind = "HINT" \/ Current.write
    <3>1. b = Current.buffer
      BY <1>1, <2>1, <2>4 DEF Base, Laid, Allocation
    <3>2. ASSUME NEW k \in Stream PROVE lines'[l].lastWrite <= Knows(k)' \/ Clashes(events, b, k, Horizon')
      <4>1. CASE k = k0 BY <2>4, <4>1
      <4>2. CASE k # k0
        <5>1. events[pos].stream # k /\ (events[pos].kind = "HINT" \/ events[pos].write)
              /\ events[pos].buffer = b
          BY <2>4, <3>1, <4>2 DEF Current
        <5> QED BY <1>1, <5>1, ClashNow
      <4> QED BY <4>1, <4>2
    <3> QED BY <3>2
  <2> QED BY <2>3, <2>4
<1>3. \A b \in DOMAIN allocations' : allocations'[b].resident =>
         \A k \in Stream : \A l \in Lines(allocations'[b].base, allocations'[b].lines) :
           Reached(b, k, l)'
  BY <1>1, <1>2, TimedLines
<1>4. \A n \in 1..(Horizon' - 1) : events'[n].stream \in DOMAIN ready'
  BY <1>1 DEF Timed
<1>5. job'.op = "access" => ready'[events'[pos'].stream] = job'.completion
  BY <1>1 DEF Current
<1> QED BY <1>3, <1>4, <1>5 DEF Timed, LinesIn, Current

\* A command that threw leaves the job as it was.
LEMMA StopTimed ==
  ASSUME Base, Timed, job.op # "idle", fault' # "none", UNCHANGED <<traceVars, replayVars, lines>>,
         fault' = "early" => Clashes(events, Current.buffer, Current.stream, Horizon)
  PROVE  Timed'
<1>1. /\ Horizon' = Horizon /\ events' = events /\ job' = job /\ ready' = ready /\ lines' = lines
      /\ allocations' = allocations /\ pos' = pos
  BY DEF Horizon, traceVars, replayVars
<1>2. events'[pos'] = Current BY <1>1 DEF Current
<1> QED BY <1>1, <1>2 DEF Timed, Reached, Knows, LinesIn, Current

LEMMA ServeTimed ==
  ASSUME Base, Base', Timed, Write \/ Read
  PROVE  Timed'
<1>1. /\ job.op = "access" /\ UNCHANGED <<allocations, nextBase, liveBytes, traceVars>>
      /\ operation' \in Operation /\ operation'.completion \in Nat /\ operation'.ok \in BOOLEAN
  BY DEF Write, Read, Serving, After, Base, Sound, Operation
<1>2. /\ Commanded(Address, job.completion)
      /\ Write => fault' # "early"
      /\ Read => lines'[Address].lastWrite = lines[Address].lastWrite
  <2>1. CASE Write BY <2>1, WriteCommand DEF Base, Write, Read
  <2>2. CASE Read
    <3>1. fault = "none" /\ ReadLine(Address, job.completion) BY <2>2 DEF Read, Serving, After
    <3>2. Address \in Line /\ job.completion \in Nat BY <1>1, AtWork DEF Base, Job
    <3>3. lines'[Address].lastWrite = lines[Address].lastWrite
      BY <3>1, <3>2, ReadKeeps, SoundMemory DEF Base
    <3> QED BY <2>2, <3>3, ReadCommand DEF Base, Write, Read
  <2> QED BY <2>1, <2>2
<1>0. /\ Address \in LinesIn(Current.buffer) /\ Address \in Line
      /\ Current.stream \in DOMAIN ready /\ job \in Job
      /\ Current.buffer \in DOMAIN allocations /\ Allocation.resident /\ Current \in TraceEvent
  BY <1>1, AtWork DEF Base
<1>00. Current.stream \in Stream BY <1>0 DEF TraceEvent
<1> PICK k0 \in Stream : k0 = Current.stream BY <1>00
<1>3. /\ Address \in LinesIn(Current.buffer) /\ Address \in Line /\ k0 \in DOMAIN ready
      /\ Current.buffer \in DOMAIN allocations /\ Allocation.resident
      /\ job.completion \in Nat /\ pos \in Nat
  <2>1. job.completion \in Nat BY <1>0 DEF Job
  <2>2. pos \in Nat BY DEF Base, Typed
  <2> QED BY <1>0, <2>1, <2>2
<1>4. ready[k0] = job.completion BY <1>1 DEF Timed
<1>5. \A k : Knows(k) = Time(ready, k) BY <1>1 DEF Knows
<1>6. CASE fault' # "none"
  <2>1. UNCHANGED <<traceVars, replayVars, lines>>
    BY <1>1, <1>2, <1>6 DEF Write, Read, replayVars, Commanded
  <2>2. ASSUME fault' = "early" PROVE Clashes(events, Current.buffer, k0, Horizon)
    <3>1. job.completion < lines[Address].lastWrite BY <1>2, <2>2 DEF Commanded
    <3>2. lines[Address].lastWrite \in Nat BY <1>3 DEF Base, Sound, LineState
    <3>3. lines[Address].lastWrite <= Knows(k0) \/ Clashes(events, Current.buffer, k0, Horizon)
      BY <1>3 DEF Timed, Reached, Allocation
    <3>4. Knows(k0) = job.completion BY <1>3, <1>4, <1>5 DEF Time
    <3> QED BY <1>3, <3>1, <3>2, <3>3, <3>4
  <2> QED BY <1>1, <1>6, <2>1, <2>2, StopTimed
<1>7. CASE fault' = "none"
  <2> DEFINE t == IF operation'.ok THEN Later(job.completion, operation'.completion)
                  ELSE job.completion
  <2>1. AccessedLine BY <1>7 DEF Write, Read
  <2>2. /\ ready' = [ready EXCEPT ![k0] = t]
        /\ \/ Ends
           \/ /\ operation'.ok /\ UNCHANGED <<pos, stats>> /\ job'.op = "access"
              /\ job'.completion = Later(job.completion, operation'.completion)
    BY <1>1, <2>1, AccessedIs DEF Base
  <2>3. t \in Nat /\ t >= job.completion /\ (operation'.ok => t >= operation'.completion)
        /\ (operation'.ok => t = Later(job.completion, operation'.completion))
    BY <1>1, <1>3 DEF Later
  <2> HIDE DEF t
  <2>4. /\ job'.op \in {"idle", "access"} /\ Horizon' = Horizon
        /\ job'.op = "access" => pos' = pos /\ job'.completion = t
    BY <1>1, <2>2, <2>3 DEF Ends, Idle, Horizon
  <2>5. DOMAIN ready' = DOMAIN ready /\ ready'[k0] = t /\ \A k : k # k0 => Time(ready', k) = Time(ready, k)
    BY <1>3, <2>2 DEF Time
  <2>6. \A k : Knows(k)' = Time(ready', k) BY <2>4 DEF Knows
  <2>7. ASSUME NEW k \in Stream PROVE Knows(k) <= Knows(k)'
    <3>1. CASE k = k0
      <4>1. Time(ready, k) = job.completion /\ Time(ready', k) = t
        BY <1>3, <1>4, <2>5, <3>1 DEF Time
      <4> QED BY <1>3, <1>5, <2>3, <2>6, <4>1
    <3>2. CASE k # k0
      <4>1. Time(ready, k) \in Nat BY KnowsIs DEF Base
      <4> QED BY <1>5, <2>5, <2>6, <3>2, <4>1
    <3> QED BY <3>1, <3>2
  <2>8. \/ lines'[Address].lastWrite = lines[Address].lastWrite
        \/ lines'[Address].lastWrite <= Knows(k0)' /\ Current.write
    <3>1. CASE Read BY <1>2, <3>1
    <3>2. CASE Write /\ operation'.ok /\ lines'[Address].lastWrite = operation'.completion
      <4>1. Knows(k0)' = t BY <1>3, <2>5, <2>6 DEF Time
      <4> QED BY <1>1, <2>3, <3>2, <4>1 DEF Write
    <3> QED BY <1>2, <3>1, <3>2 DEF Commanded
  <2>9. Stays BY ServesStays DEF Base, Serves
  <2>10. \A l \in Line : l # Address => lines'[l] = lines[l] BY <1>2 DEF Commanded
  <2>11. job'.op = "access" => pos' = pos /\ ready'[k0] = job'.completion
    BY <2>4, <2>5
  <2> QED BY <1>1, <1>3, <1>7, <2>4, <2>5, <2>7, <2>8, <2>9, <2>10, <2>11, JobTimed
<1> QED BY <1>6, <1>7

LEMMA MigrateTimed ==
  ASSUME Base, Base', Timed, Migrate, job.op = "hint", fault' = "none" => operation'.ok
  PROVE  Timed'
<1> DEFINE here == Allocation.base + job.moved
           t == Later(job.at, operation'.completion)
<1>1. /\ UNCHANGED traceVars /\ operation'.completion \in Nat /\ job.at \in Nat
      /\ Current.kind = "HINT" /\ job \in Job
  BY DEF Migrate, After, Base, Working, Sound, Operation, Typed, Job
<1>2. Commanded(here, job.at) BY MigrateCommand DEF Base
<1>0. /\ here \in LinesIn(Current.buffer) /\ here \in Line
      /\ Current.stream \in DOMAIN ready /\ ready[Current.stream] \in Nat
      /\ Current.buffer \in DOMAIN allocations /\ Allocation.resident /\ Current \in TraceEvent
  BY AtWork DEF Base
<1>00. Current.stream \in Stream BY <1>0 DEF TraceEvent
<1> PICK k0 \in Stream : k0 = Current.stream BY <1>00
<1>3. /\ here \in LinesIn(Current.buffer) /\ here \in Line /\ k0 \in DOMAIN ready
      /\ Current.buffer \in DOMAIN allocations /\ Allocation.resident
      /\ ready[k0] \in Nat
  BY <1>0
<1>4. Knows(k0) = job.at /\ \A k : k # k0 => Knows(k) = Time(ready, k)
  BY DEF Knows
<1>5. t \in Nat /\ t >= job.at /\ t >= operation'.completion BY <1>1 DEF Later
<1>6. CASE fault' # "none"
  <2>1. UNCHANGED <<traceVars, replayVars, lines>>
    BY <1>1, <1>2, <1>6 DEF Migrate, After, replayVars, Commanded
  <2>2. ASSUME fault' = "early" PROVE Clashes(events, Current.buffer, k0, Horizon)
    <3>1. job.at < lines[here].lastWrite BY <1>2, <2>2 DEF Commanded
    <3>2. lines[here].lastWrite \in Nat BY <1>3 DEF Base, Sound, LineState
    <3>3. lines[here].lastWrite <= Knows(k0) \/ Clashes(events, Current.buffer, k0, Horizon)
      BY <1>3 DEF Timed, Reached, Allocation
    <3> QED BY <1>1, <1>4, <3>1, <3>2, <3>3
  <2> QED BY <1>6, <2>1, <2>2, StopTimed
<1>7. CASE fault' = "none" /\ operation'.ok
  <2> HIDE DEF here
  <2>1. \/ /\ job' = [job EXCEPT !.moved = @ + 1, !.at = t] /\ UNCHANGED <<pos, ready>>
        \/ ready' = [ready EXCEPT ![k0] = Later(@, t)] /\ Ends
    BY <1>7 DEF Migrate, Relocated
  <2> HIDE DEF t
  <2>2. /\ Horizon' = Horizon /\ DOMAIN ready' = DOMAIN ready
        /\ job'.op # "access" /\ events' = events
        /\ Knows(k0)' \in Nat /\ Knows(k0)' >= t
        /\ \A k : k # k0 => Knows(k)' = Time(ready, k)
    <3>1. CASE job' = [job EXCEPT !.moved = @ + 1, !.at = t] /\ UNCHANGED <<pos, ready>>
      <4>1. PICK m : m = job.moved + 1 OBVIOUS
      <4>2. job' = [job EXCEPT !.moved = m, !.at = t] BY <3>1, <4>1
      <4>3. job'.op = "hint" /\ job'.at = t BY <1>1, <4>2 DEF Job
      <4>4. events'[pos'].stream = k0 /\ events' = events BY <1>1, <3>1 DEF traceVars, Current
      <4>5. Knows(k0)' = t /\ \A k : k # k0 => Knows(k)' = Time(ready, k)
        BY <3>1, <4>3, <4>4 DEF Knows, Current
      <4>6. Horizon' = Horizon BY <3>1, <4>3 DEF Horizon
      <4> QED BY <1>5, <3>1, <4>3, <4>4, <4>5, <4>6
    <3>2. CASE ready' = [ready EXCEPT ![k0] = Later(@, t)] /\ Ends
      <4>1. job'.op = "idle" /\ pos' = pos + 1 BY <3>2 DEF Ends, Idle
      <4>2. \A k : Knows(k)' = Time(ready', k) BY <4>1 DEF Knows
      <4>3. ready'[k0] = Later(ready[k0], t) /\ k0 \in DOMAIN ready' /\ DOMAIN ready' = DOMAIN ready
            /\ \A k : k # k0 => Time(ready', k) = Time(ready, k)
        BY <1>3, <3>2 DEF Time
      <4>4. Later(ready[k0], t) \in Nat /\ Later(ready[k0], t) >= t
        BY <1>3, <1>5 DEF Later
      <4>5. Knows(k0)' = Later(ready[k0], t) BY <4>2, <4>3 DEF Time
      <4>6. Horizon' = Horizon /\ events' = events BY <1>1, <4>1 DEF Horizon, traceVars
      <4> QED BY <4>1, <4>2, <4>3, <4>4, <4>5, <4>6
    <3> QED BY <2>1, <3>1, <3>2
  <2>3. ASSUME NEW k \in Stream PROVE Knows(k) <= Knows(k)'
    <3>1. CASE k = k0 BY <1>1, <1>4, <1>5, <2>2, <3>1
    <3>2. CASE k # k0
      <4>1. Time(ready, k) \in Nat BY KnowsIs DEF Base
      <4> QED BY <1>4, <2>2, <3>2, <4>1
    <3> QED BY <3>1, <3>2
  <2>4. \/ lines'[here].lastWrite = lines[here].lastWrite
        \/ lines'[here].lastWrite <= Knows(k0)'
    BY <1>1, <1>2, <1>5, <2>2 DEF Commanded
  <2>5. Stays BY ServesStays DEF Base
  <2>6. \A l \in Line : l # here => lines'[l] = lines[l] BY <1>2 DEF Commanded
  <2>7. fault' # "early" BY <1>7
  <2> QED BY <1>1, <1>3, <2>2, <2>3, <2>4, <2>5, <2>6, <2>7, JobTimed
<1> QED BY <1>6, <1>7

LEMMA StillTimed ==
  ASSUME Timed, UNCHANGED <<events, replayVars, lines>>, fault' = fault \/ fault' # "early"
  PROVE  Timed'
<1>1. /\ Horizon' = Horizon /\ events' = events /\ job' = job /\ ready' = ready /\ lines' = lines
      /\ allocations' = allocations /\ pos' = pos
  BY DEF Horizon, replayVars
<1>2. events'[pos'] = Current BY <1>1 DEF Current
<1>3. \A k : Knows(k)' = Knows(k) BY <1>1, <1>2 DEF Knows, Current
<1>4. fault' = "early" => job'.op # "idle" /\ Clashes(events, Current.buffer, Current.stream, Horizon)
  BY <1>1 DEF Timed
<1>5. \A b \in DOMAIN allocations : allocations[b].resident =>
        \A k \in Stream : \A l \in LinesIn(b) : Reached(b, k, l)'
  BY <1>1, <1>3 DEF Timed, Reached
<1> QED BY <1>1, <1>2, <1>4, <1>5 DEF Timed, LinesIn, Current

LEMMA LoadTimed ==
  ASSUME Base, Timed, Load \/ Reject \/ Start
  PROVE  Timed'
<1>1. /\ UNCHANGED <<lines, replayVars>> /\ fault' \in {fault, "access"} /\ pos = 1 /\ job = Idle
  BY DEF Load, Reject, Start, memoryVars, Base, Typed
<1>2. /\ job' = job /\ ready' = ready /\ lines' = lines /\ allocations' = allocations /\ pos' = pos
      /\ job.op = "idle" /\ job'.op = "idle"
  BY <1>1 DEF replayVars, Idle
<1>3. Horizon = 1 /\ Horizon' = 1 BY <1>1, <1>2 DEF Horizon
<1>4. \A k : Knows(k)' = Knows(k) BY <1>2 DEF Knows
<1>5. \A n \in 1..(Horizon' - 1) : FALSE BY <1>3
<1>6. \A b, k : ~Clashes(events, b, k, Horizon)
  <2>1. \A i \in 1..(1 - 1) : FALSE OBVIOUS
  <2> QED BY <1>3, <2>1 DEF Clashes
<1>7. \A b \in DOMAIN allocations : allocations[b].resident =>
        \A k \in Stream : \A l \in LinesIn(b) : Reached(b, k, l)'
  BY <1>2, <1>4, <1>6 DEF Timed, Reached
<1>8. fault # "early" /\ fault' # "early" BY <1>1, <1>2 DEF Timed
<1> QED BY <1>2, <1>5, <1>7, <1>8 DEF Timed, LinesIn

LEMMA SynchronizedStep ==
  ASSUME Base, Synchronized, [Next]_vars
  PROVE  Synchronized'
<1> SUFFICES ASSUME policy' \notin Maintains, stats'.migration = 0 PROVE Timed'
  BY DEF Synchronized
<1>0. Base' BY BaseStep
<1>1. policy' = policy
  <2>1. CASE Replay
    <3>1. CASE Allocate \/ Free \/ Hint \/ Access \/ Compute \/ Phase \/ Barrier \/ Promote \/ Exhausted
      BY <3>1 DEF Allocate, Free, Hint, Access, Compute, Phase, Barrier, Promote, Exhausted, Throw, traceVars
    <3>2. CASE Write \/ Read \/ Refresh \/ RefreshAfterPromotion \/ Migrate
      BY <3>2 DEF Write, Read, Refresh, RefreshAfterPromotion, Refreshed, Migrate, After, traceVars
    <3> QED BY <2>1, <3>1, <3>2 DEF Replay
  <2> QED BY <2>1 DEF Next, vars, traceVars, Load, Reject, Start, Report
<1>2. Timed BY <1>1, FailedStays DEF Synchronized
<1>3. CASE UNCHANGED vars
  BY <1>2, <1>3, StillTimed DEF vars, memoryVars, traceVars
<1>4. CASE Report
  BY <1>2, <1>4, StillTimed DEF Report, memoryVars
<1>5. CASE Load \/ Reject \/ Start
  BY <1>2, <1>5, LoadTimed
<1>6. CASE \/ Allocate /\ Known
           \/ (Free \/ Hint) /\ ~Known
           \/ Access /\ ~(Known /\ InBounds(Current, Allocation.size))
           \/ Exhausted
  <2>1. UNCHANGED <<events, replayVars, lines>> /\ fault' \in {"duplicate", "unknown", "access", "limit"}
    BY <1>6 DEF Allocate, Free, Hint, Access, Exhausted, Throw, traceVars
  <2> QED BY <1>2, <2>1, StillTimed
<1>7. ~Promote /\ ~Refresh BY <1>1 DEF Promote, Refresh, Maintenance, Due
<1>8. job.op \notin {"promote", "refresh"} BY <1>1 DEF Base, Working, Maintains
<1>9. ~RefreshAfterPromotion BY <1>8 DEF RefreshAfterPromotion, Serving
<1>10. CASE Migrate
  <2>1. job.op = "hint" BY <1>8, <1>10 DEF Migrate
  <2>2. fault' = "none" => operation'.ok
    <3>1. ASSUME fault' = "none", ~operation'.ok PROVE FALSE
      <4>1. stats' = Counted(operation'.failure, job.op = "promote", TRUE) /\ stats \in Statistics
        BY <1>10, <3>1 DEF Migrate, Base, Typed
      <4>2. stats'.migration = stats.migration + 1 BY <4>1, CountedIs
      <4>3. stats.migration \in Nat BY <4>1 DEF Statistics
      <4> QED BY <4>2, <4>3
    <3> QED BY <3>1
  <2> QED BY <1>0, <1>2, <1>10, <2>1, <2>2, MigrateTimed
<1>11. CASE Allocate /\ ~Known BY <1>0, <1>2, <1>11, AllocateTimed
<1>12. CASE Free /\ Known BY <1>0, <1>2, <1>12, FreeTimed
<1>13. CASE Hint /\ Known BY <1>0, <1>2, <1>13, HintTimed
<1>14. CASE Access /\ Known /\ InBounds(Current, Allocation.size)
  BY <1>0, <1>2, <1>14, AccessTimed
<1>15. CASE Compute \/ Phase BY <1>0, <1>2, <1>15, PlainTimed
<1>16. CASE Barrier BY <1>0, <1>2, <1>16, BarrierTimed
<1>17. CASE Write \/ Read BY <1>0, <1>2, <1>17, ServeTimed
<1> QED BY <1>3, <1>4, <1>5, <1>6, <1>7, <1>9, <1>10, <1>11, <1>12, <1>13, <1>14, <1>15, <1>16, <1>17
        DEF Next, Replay

LEMMA InitSynchronized == Init => Synchronized
<1> SUFFICES ASSUME Init PROVE Timed BY DEF Synchronized
<1>1. job.op = "idle" /\ pos = 1 /\ fault = "none" /\ DOMAIN allocations = {}
  BY DEF Init, MemoryInit, Idle
<1>2. \A n \in 1..(Horizon - 1) : FALSE BY <1>1 DEF Horizon
<1> QED BY <1>1, <1>2 DEF Timed

LEMMA EarlyIs ==
  ASSUME Base, Synchronized
  PROVE  SynchronizedNeverEarly
<1> SUFFICES ASSUME fault = "early", policy \notin Maintains, stats.migration = 0
             PROVE  \E i, j \in 1..pos :
                      /\ i < j /\ events[i].buffer = events[j].buffer /\ ~Ordered(i, j)
                      /\ events[i].kind = "HINT" \/ events[i].write
  BY DEF SynchronizedNeverEarly
<1>1. job.op # "idle" /\ Clashes(events, Current.buffer, Current.stream, Horizon)
  BY DEF Synchronized, Timed
<1>2. Horizon = pos + 1 /\ pos \in Nat \ {0} BY <1>1 DEF Horizon, Base, Typed
<1>3. PICK i \in 1..((pos + 1) - 1) : Clash(events, Current.buffer, Current.stream, i, pos + 1)
  BY <1>1, <1>2 DEF Clashes
<1>4. /\ events[i].buffer = events[pos].buffer /\ events[i].stream # events[pos].stream
      /\ events[i].kind = "HINT" \/ events[i].write
  BY <1>3 DEF Clash, Current
<1>5. i \in 1..pos /\ pos \in 1..pos /\ i < pos BY <1>2, <1>3, <1>4
<1>6. ~Ordered(i, pos)
  <2>1. \A m \in (i + 1)..(pos - 1) : m \in (i + 1)..((pos + 1) - 1) BY <1>2, <1>5
  <2> QED BY <1>3, <1>4, <2>1 DEF Ordered, Clash, Current
<1> QED BY <1>4, <1>5, <1>6

\* Without maintenance and failed migrations, the replay meets a line before it was
\* written only if two streams that no barrier orders use its buffer, for every trace.
THEOREM SynchronizedCorrect == Spec => []SynchronizedNeverEarly
<1>1. Base /\ Synchronized /\ [Next]_vars => Synchronized'
  BY SynchronizedStep
<1> QED BY <1>1, InitSynchronized, BaseInvariant, EarlyIs, PTL DEF Spec

-----------------------------------------------------------------------------
(* Until a migration fails, a line is found decayed in a refresh and nowhere *)
(* else: by then every channel of its bank is busy until after the deadline, *)
(* and a later read, of whatever stream, finds the line due.                 *)

\* Time goes forward.
Grows ==
  /\ makespan <= makespan'
  /\ \A c \in Class : \A i \in 1..Channels[c] : channelReady[c][i] <= channelReady'[c][i]

LEMMA StandsStill ==
  ASSUME UNCHANGED <<channelReady, makespan>>, makespan \in Nat,
         \A c \in Class : channelReady[c] \in [1..Channels[c] -> Nat]
  PROVE  Grows
<1>1. \A c \in Class : \A i \in 1..Channels[c] : channelReady[c][i] \in Nat OBVIOUS
<1>2. \A n \in Nat : n <= n OBVIOUS
<1> QED BY <1>1, <1>2 DEF Grows

LEMMA EffectGrows ==
  ASSUME IInv, NEW l \in Line, Effect(l)
  PROVE  Grows
<1>1. /\ MemoryTypeOK /\ LastChannel /\ lines[l].class \in Class
      /\ \A c \in Class : Soonest(c) \in 1..Channels[c] /\ channelReady[c][Soonest(c)] \in Nat
  <2>1. MemoryTypeOK BY DEF IInv
  <2>2. \A c \in Class : Soonest(c) \in 1..Channels[c] BY <2>1, SoonestIsFirst
  <2> QED BY <2>1, <2>2 DEF IInv, MemoryTypeOK, LineState
<1>2. CASE UNCHANGED <<channelReady, makespan>>
  BY <1>1, <1>2, StandsStill DEF MemoryTypeOK
<1>3. CASE Served(l)
  <2>1. PICK completion \in Nat : /\ completion >= channelReady[lines[l].class][Soonest(lines[l].class)]
                                  /\ Scheduled(lines[l].class, completion)
    BY <1>3 DEF Served
  <2>2. channelReady[lines[l].class][Soonest(lines[l].class)] <= completion BY <1>1, <2>1
  <2>3. Advances BY <1>1, <2>1, <2>2, OneCommand
  <2> QED BY <2>3 DEF Advances, Grows
<1>4. ASSUME NEW d \in Class, lines[l].class # d, MovedData(l, d) PROVE Grows
  <2>1. Advances BY <1>1, <1>4, TwoCommands DEF MovedData
  <2> QED BY <2>1 DEF Advances, Grows
<1> QED BY <1>2, <1>3, <1>4 DEF Effect, Nothing, bankVars, MovedTo, MovedBlank

LEMMA StepGrows ==
  ASSUME Base, [Next]_vars
  PROVE  Grows
<1>1. CASE UNCHANGED <<channelReady, makespan>>
  BY <1>1, StandsStill DEF Base, Sound
<1>2. CASE fault = "none" /\ MemoryNext
  <2>1. IInv /\ MemoryTypeOK BY <1>2, SoundMemory DEF Base, IInv
  <2>2. CASE Command
    BY <2>1, <2>2, EffectGrows, ReadServes, WriteServes, RefreshServes, MigrateMoves DEF Command
  <2>3. CASE \/ \E first, n \in Nat : Release(first, n)
             \/ \E first, n \in Nat, c \in Class : Reserve(first, n, c)
    BY <1>1, <2>3 DEF Release, Reserve, memoryVars, bankVars
  <2> QED BY <1>2, <2>2, <2>3 DEF MemoryNext
<1> QED BY <1>1, <1>2, Calls DEF Base, vars, memoryVars, bankVars

\* The line stays failed, or is not.
Steady(l) ==
  lines'[l].failed =>
    /\ lines[l].failed /\ lines'[l].initialized = lines[l].initialized
    /\ lines'[l].class = lines[l].class /\ lines'[l].lastWrite = lines[l].lastWrite

\* The line is found decayed at the cycle its check starts.
Expires(l, issue) ==
  LET start == EarliestStart(lines[l].class, issue) IN
  /\ lines[l].initialized /\ MayFail(l, start) /\ start <= makespan'
  /\ lines'[l].initialized /\ lines'[l].class = lines[l].class
  /\ lines'[l].lastWrite = lines[l].lastWrite

\* How a command ends that did not throw.
Ended(l, issue) ==
  \/ Steady(l) /\ (operation'.ok \/ operation'.failure # "Expired")
  \/ Expires(l, issue) /\ ~operation'.ok

LEMMA FailsEnds ==
  ASSUME IInv, NEW l \in Line, Live(l), NEW issue \in Nat, fault = "none", fault' = "none",
         NEW completion \in Nat, EarliestStart(lines[l].class, issue) <= completion,
         makespan' = Later(makespan, completion),
         Fails(l, EarliestStart(lines[l].class, issue))
  PROVE  Ended(l, issue)
<1> DEFINE t == EarliestStart(lines[l].class, issue)
<1>1. lines \in [Line -> LineState] /\ lines[l] \in LineState /\ makespan \in Nat
  BY DEF IInv, MemoryTypeOK
<1>2. t \in Nat BY StartIs
<1> HIDE DEF t
<1>3. /\ MayFail(l, t) /\ lines' = [lines EXCEPT ![l] = Checked(l, t, TRUE)]
      /\ operation' = Refused("Expired", t)
  BY DEF Fails, t
<1>4. lines'[l] = Checked(l, t, TRUE) BY <1>1, <1>3
<1>5. /\ Checked(l, t, TRUE).initialized /\ Checked(l, t, TRUE).class = lines[l].class
      /\ Checked(l, t, TRUE).lastWrite = lines[l].lastWrite
  BY <1>1 DEF Checked, LineState, Live
<1>6. t <= makespan' BY <1>1, <1>2 DEF Later, t
<1> QED BY <1>3, <1>4, <1>5, <1>6 DEF Ended, Expires, Refused, Live, t

LEMMA RewriteEnds ==
  ASSUME IInv, NEW l \in Line, NEW issue, NEW c, NEW t, NEW start,
         lines' = [lines EXCEPT ![l] = Rewritten(l, c, t)], operation' = Done(start, t)
  PROVE  Ended(l, issue)
<1>1. lines \in [Line -> LineState] /\ lines[l] \in LineState
  BY DEF IInv, MemoryTypeOK
<1>2. lines'[l] = Rewritten(l, c, t) /\ ~Rewritten(l, c, t).failed
  BY <1>1 DEF Rewritten, LineState
<1> QED BY <1>2 DEF Ended, Steady, Done

LEMMA ReadEnds ==
  ASSUME IInv, NEW l \in Line, NEW issue \in Nat, fault = "none", fault' = "none", ReadLine(l, issue)
  PROVE  Ended(l, issue)
<1> DEFINE c == lines[l].class
           start == EarliestStart(c, issue)
           completion == start + ReadCycles[c]
<1>1. /\ lines \in [Line -> LineState] /\ lines[l] \in LineState /\ start \in Nat /\ ReadCycles[c] \in Nat
  BY StartIs DEF IInv, MemoryTypeOK
<1>2. CASE lines' = lines /\ operation' \in {Refused("Missing", issue), Refused("Uninitialized", issue)}
  BY <1>2 DEF Ended, Steady, Refused
<1>3. CASE Live(l) /\ Scheduled(c, completion) /\ Fails(l, start)
  <2>1. completion \in Nat /\ start <= completion
    <3> HIDE DEF start
    <3> QED BY <1>1
  <2> HIDE DEF completion
  <2> QED BY <1>3, <2>1, FailsEnds DEF Scheduled
<1>4. CASE /\ lines' = [lines EXCEPT ![l] = Checked(l, start, FALSE)]
           /\ operation' = Done(start, completion)
  <2> HIDE DEF start, completion
  <2>1. lines'[l] = Checked(l, start, FALSE) /\ ~Checked(l, start, FALSE).failed
    BY <1>1, <1>4 DEF Checked, LineState
  <2> QED BY <1>4, <2>1 DEF Ended, Steady, Done
<1> QED BY <1>2, <1>3, <1>4 DEF ReadLine, Missing

LEMMA WriteEnds ==
  ASSUME IInv, NEW l \in Line, NEW d \in Class, NEW issue \in Nat, fault = "none", fault' = "none",
         WriteLine(l, d, issue)
  PROVE  Steady(l) /\ (operation'.ok \/ operation'.failure # "Expired")
<1>1. CASE Missing(l, issue) BY <1>1 DEF Missing, Steady, Refused
<1>2. ASSUME NEW start, NEW t, lines' = [lines EXCEPT ![l] = Rewritten(l, d, t)],
             operation' = Done(start, t)
      PROVE  Steady(l) /\ operation'.ok
  <2>1. lines \in [Line -> LineState] /\ lines[l] \in LineState BY DEF IInv, MemoryTypeOK
  <2>2. lines'[l] = Rewritten(l, d, t) /\ ~Rewritten(l, d, t).failed
    BY <1>2, <2>1 DEF Rewritten, LineState
  <2> QED BY <1>2, <2>2 DEF Steady, Done
<1> QED BY <1>1, <1>2 DEF WriteLine

LEMMA RefreshEnds ==
  ASSUME IInv, NEW l \in Line, NEW issue \in Nat, fault = "none", fault' = "none", RefreshLine(l, issue)
  PROVE  Ended(l, issue)
<1> DEFINE c == lines[l].class
           start == EarliestStart(c, issue)
           completion == start + ReadCycles[c] + WriteCycles[c]
<1>1. start \in Nat /\ ReadCycles[c] \in Nat /\ WriteCycles[c] \in Nat BY StartIs
<1>2. CASE lines' = lines /\ operation' \in {Refused("Missing", issue), Done(issue, issue)}
  BY <1>2 DEF Ended, Steady, Refused, Done
<1>3. CASE Live(l) /\ Scheduled(c, completion) /\ Fails(l, start)
  <2>1. completion \in Nat /\ start <= completion
    <3> HIDE DEF start
    <3> QED BY <1>1
  <2> HIDE DEF completion
  <2> QED BY <1>3, <2>1, FailsEnds DEF Scheduled
<1>4. CASE /\ lines' = [lines EXCEPT ![l] = Rewritten(l, c, completion)]
           /\ operation' = Done(start, completion)
  <2> HIDE DEF start, completion
  <2> QED BY <1>4, RewriteEnds
<1> QED BY <1>2, <1>3, <1>4 DEF RefreshLine, Missing

\* A migration that succeeds leaves no failed line behind.
LEMMA MigrateEnds ==
  ASSUME IInv, NEW l \in Line, NEW d \in Class, NEW issue \in Nat, fault = "none", fault' = "none",
         MigrateLine(l, d, issue), operation'.ok
  PROVE  Steady(l)
<1>1. lines \in [Line -> LineState] /\ lines[l] \in LineState
  BY DEF IInv, MemoryTypeOK
<1>2. CASE Missing(l, issue) BY <1>2 DEF Missing, Refused
<1>3. CASE RefreshLine(l, issue) BY <1>3, RefreshEnds DEF Ended
<1>4. CASE operation' = Refused("Capacity", issue) BY <1>4 DEF Refused
<1>5. CASE lines' = [lines EXCEPT ![l] = [@ EXCEPT !.class = d, !.failed = FALSE]]
  BY <1>1, <1>5 DEF Steady, LineState
<1>6. CASE Transfer(l, d, issue)
  <2>1. PICK t, u, start : \/ Fails(l, start)
                           \/ /\ lines' = [lines EXCEPT ![l] = Rewritten(l, d, t)]
                              /\ operation' = Done(u, t)
    BY <1>6 DEF Transfer
  <2>2. CASE Fails(l, start) BY <2>2 DEF Fails, Refused
  <2> QED BY <2>1, <2>2, RewriteEnds DEF Ended
<1> QED BY <1>2, <1>3, <1>4, <1>5, <1>6 DEF MigrateLine

\* Every channel of the line's bank is busy until after the line's deadline.
Late(l) ==
  LET c == lines[l].class IN
  /\ lines[l].initialized /\ RetentionCycles[c] # kInfinite
  /\ \A i \in 1..Channels[c] : channelReady[c][i] >= lines[l].lastWrite + RetentionCycles[c]

Unspoilt ==
  /\ policy \in Maintains /\ error_mode = "Deterministic" /\ Guard > 0
  /\ stats.migration = 0 /\ makespan < kInfinite

Kept ==
  /\ job.op # "refresh" /\ stats.expired <= stats.maintenance
  /\ \A l \in Line : lines[l].failed => Late(l)

Maintained == Unspoilt => Kept

LEMMA LineIs ==
  ASSUME Sound, NEW l \in Line
  PROVE  /\ lines[l] \in LineState /\ lines[l].class \in Class /\ lines[l].lastWrite \in Nat
         /\ RetentionCycles[lines[l].class] \in Nat \ {0}
         /\ \A i \in 1..Channels[lines[l].class] : channelReady[lines[l].class][i] \in Nat
<1>1. lines[l] \in LineState /\ lines[l].class \in Class /\ lines[l].lastWrite \in Nat
  BY DEF Sound, LineState
<1> QED BY <1>1, ProfileAssumption DEF Sound

LEMMA LateLasts ==
  ASSUME Base, Base', Grows, NEW l \in Line, Late(l),
         lines'[l].initialized = lines[l].initialized, lines'[l].class = lines[l].class,
         lines'[l].lastWrite = lines[l].lastWrite
  PROVE  Late(l)'
<1> DEFINE c == lines[l].class
           t == lines[l].lastWrite + RetentionCycles[c]
<1>1. c \in Class /\ t \in Nat
  BY LineIs DEF Base
<1>2. \A i \in 1..Channels[c] : /\ channelReady[c][i] \in Nat /\ channelReady'[c][i] \in Nat
                                /\ channelReady[c][i] >= t /\ channelReady[c][i] <= channelReady'[c][i]
  BY <1>1 DEF Base, Sound, Late, Grows
<1>3. \A i \in 1..Channels[c] : channelReady'[c][i] >= t
  <2> HIDE DEF t
  <2> QED BY <1>1, <1>2
<1> QED BY <1>3 DEF Late

LEMMA ExpiresLate ==
  ASSUME Base, fault = "none", error_mode = "Deterministic", NEW l \in Line, NEW issue \in Nat,
         lines[l].failed => Late(l), Expires(l, issue)
  PROVE  /\ RetentionCycles[lines[l].class] # kInfinite
         /\ EarliestStart(lines[l].class, issue) >= lines[l].lastWrite + RetentionCycles[lines[l].class]
<1> DEFINE c == lines[l].class
           start == EarliestStart(c, issue)
           t == lines[l].lastWrite + RetentionCycles[c]
<1>1. MemoryTypeOK BY SoundMemory DEF Base, IInv
<1>2. c \in Class /\ t \in Nat /\ lines[l].lastWrite \in Nat /\ RetentionCycles[c] \in Nat
  BY LineIs DEF Base
<1>3. /\ start \in Nat /\ start >= channelReady[c][Soonest(c)] /\ Soonest(c) \in 1..Channels[c]
      /\ channelReady[c][Soonest(c)] \in Nat
  BY <1>1, <1>2, StartsLate, SoonestIsFirst DEF MemoryTypeOK
<1> HIDE DEF start
<1>4. MayFail(l, start) BY DEF Expires, start
<1>5. CASE lines[l].failed
  <2>1. RetentionCycles[c] # kInfinite /\ channelReady[c][Soonest(c)] >= t
    BY <1>3, <1>5 DEF Late
  <2>2. start >= t
    <3> HIDE DEF t, c
    <3> QED BY <1>2, <1>3, <2>1
  <2> QED BY <2>1, <2>2 DEF start
<1>6. CASE ~lines[l].failed
  <2>1. RetentionCycles[c] # kInfinite /\ start - lines[l].lastWrite >= RetentionCycles[c]
    BY <1>4, <1>6 DEF MayFail, Decaying
  <2>2. start >= t
    <3> HIDE DEF c
    <3> QED BY <1>2, <1>3, <2>1
  <2> QED BY <2>1, <2>2 DEF start
<1> QED BY <1>5, <1>6

LEMMA KeptAfter ==
  ASSUME Base, Base', Grows, Kept, job'.op # "refresh", stats'.expired <= stats'.maintenance,
         \A l \in Line : Steady(l) \/ Late(l)'
  PROVE  Kept'
<1>1. ASSUME NEW l \in Line, lines'[l].failed PROVE Late(l)'
  <2>1. CASE Steady(l)
    <3>1. /\ lines[l].failed /\ lines'[l].initialized = lines[l].initialized
          /\ lines'[l].class = lines[l].class /\ lines'[l].lastWrite = lines[l].lastWrite
      BY <1>1, <2>1 DEF Steady
    <3>2. Late(l) BY <3>1 DEF Kept
    <3> QED BY <3>1, <3>2, LateLasts
  <2> QED BY <1>1, <2>1
<1> QED BY <1>1 DEF Kept

\* A command for one line: the others are as steady as lines that do not change.
LEMMA OneSteady ==
  ASSUME NEW l0 \in Line, NEW issue, Commanded(l0, issue), Steady(l0) \/ Late(l0)'
  PROVE  \A l \in Line : Steady(l) \/ Late(l)'
<1>1. \A l \in Line : l # l0 => Steady(l) BY DEF Commanded, Steady
<1> QED BY <1>1

\* Neither an expired access nor maintenance is counted.
Uncounted == stats'.expired = stats.expired /\ stats'.maintenance = stats.maintenance

LEMMA UncountedIs ==
  ASSUME Kept, Uncounted
  PROVE  stats'.expired <= stats'.maintenance
BY DEF Kept, Uncounted

LEMMA CountedExpired ==
  ASSUME stats \in Statistics, NEW failure, NEW maintenance \in BOOLEAN, NEW migration \in BOOLEAN
  PROVE  /\ Counted(failure, maintenance, migration).expired =
              IF failure = "Expired" THEN stats.expired + 1 ELSE stats.expired
         /\ Counted(failure, maintenance, migration).maintenance =
              IF maintenance THEN stats.maintenance + 1 ELSE stats.maintenance
<1>1. PICK u, m, i, f : Counted(failure, maintenance, migration) =
        [stats EXCEPT !.unsafe = u,
                      !.maintenance = IF maintenance THEN @ + 1 ELSE @,
                      !.migration = m, !.missing = i, !.uninitialized = f,
                      !.expired = IF failure = "Expired" THEN @ + 1 ELSE @]
  BY DEF Counted
<1> QED BY <1>1 DEF Statistics

LEMMA ThrownKept ==
  ASSUME Base, Base', Grows, Kept, UNCHANGED <<lines, job, stats>>
  PROVE  Kept'
<1>1. \A l \in Line : Steady(l) BY DEF Steady
<1>2. Uncounted /\ job'.op # "refresh" BY DEF Uncounted, Kept
<1> QED BY <1>1, <1>2, UncountedIs, KeptAfter

\* After the read or write of one line, when nothing has expired.
LEMMA AccessedKept ==
  ASSUME Base, Base', Grows, Kept, job.op = "access", AccessedLine, operation' \in Operation,
         UNCHANGED <<allocations, nextBase, liveBytes, traceVars>>,
         operation'.ok \/ operation'.failure # "Expired",
         \A l \in Line : Steady(l) \/ Late(l)'
  PROVE  Kept'
<1>1. stats \in Statistics /\ operation'.ok \in BOOLEAN BY DEF Base, Typed, Operation
<1>2. \/ Ends /\ ~operation'.ok /\ stats' = Counted(operation'.failure, FALSE, FALSE)
      \/ /\ Ends
         /\ stats' = IF Current.write THEN [stats EXCEPT !.writeBytes = @ + Current.size]
                     ELSE [stats EXCEPT !.readBytes = @ + Current.size]
      \/ UNCHANGED stats /\ job'.op = "access"
  BY AccessedIs DEF Base
<1>3. job'.op # "refresh"
  <2>1. CASE Ends BY <2>1 DEF Ends, Idle
  <2>2. CASE job'.op = "access" BY <2>2
  <2> QED BY <1>2, <2>1, <2>2
<1>4. Uncounted
  <2>1. CASE ~operation'.ok /\ stats' = Counted(operation'.failure, FALSE, FALSE)
    BY <1>1, <2>1, CountedExpired DEF Uncounted
  <2>2. CASE stats' = IF Current.write THEN [stats EXCEPT !.writeBytes = @ + Current.size]
                      ELSE [stats EXCEPT !.readBytes = @ + Current.size]
    <3>1. PICK n : n = Current.size OBVIOUS
    <3>2. \/ stats' = [stats EXCEPT !.writeBytes = @ + n]
          \/ stats' = [stats EXCEPT !.readBytes = @ + n]
      BY <2>2, <3>1
    <3> QED BY <1>1, <3>2 DEF Statistics, Uncounted
  <2>3. CASE UNCHANGED stats BY <2>3 DEF Uncounted
  <2> QED BY <1>2, <2>1, <2>2, <2>3
<1> QED BY <1>3, <1>4, UncountedIs, KeptAfter

LEMMA WriteKept ==
  ASSUME Base, Base', Grows, Kept, Write
  PROVE  Kept'
<1>1. /\ job.op = "access" /\ UNCHANGED <<allocations, nextBase, liveBytes, traceVars>>
      /\ operation' \in Operation /\ fault = "none"
      /\ WriteLine(Address, Allocation.class, job.completion)
  BY DEF Write, Serving, After, Base, Sound
<1>2. Commanded(Address, job.completion) BY WriteCommand DEF Base
<1>3. CASE fault' # "none"
  BY <1>2, <1>3, ThrownKept DEF Write, Commanded
<1>4. CASE fault' = "none"
  <2>1. Address \in Line /\ job.completion \in Nat /\ Allocation.class \in Class
    BY <1>1, AtWork DEF Base, Job, Placement
  <2>2. Steady(Address) /\ (operation'.ok \/ operation'.failure # "Expired")
    BY <1>1, <1>4, <2>1, SoundMemory, WriteEnds DEF Base
  <2>3. AccessedLine BY <1>4 DEF Write
  <2> QED BY <1>1, <1>2, <2>1, <2>2, <2>3, OneSteady, AccessedKept
<1> QED BY <1>3, <1>4

\* A read finds no line decayed, for one that would be is due.
LEMMA ReadKept ==
  ASSUME Base, Base', Grows, Kept, Read,
         policy \in Maintains, error_mode = "Deterministic", makespan' < kInfinite
  PROVE  Kept'
<1>1. /\ job.op = "access" /\ UNCHANGED <<allocations, nextBase, liveBytes, traceVars>>
      /\ operation' \in Operation /\ fault = "none" /\ ~Due(Address, job.completion)
      /\ ReadLine(Address, job.completion)
  BY DEF Read, Serving, After, Base, Sound
<1>2. Commanded(Address, job.completion) BY ReadCommand DEF Base
<1>3. CASE fault' # "none"
  BY <1>2, <1>3, ThrownKept DEF Read, Commanded
<1>4. CASE fault' = "none"
  <2> DEFINE c == lines[Address].class
             start == EarliestStart(c, job.completion)
             t == lines[Address].lastWrite + RetentionCycles[c]
  <2>1. Address \in Line /\ job.completion \in Nat
    BY <1>1, AtWork DEF Base, Job
  <2>2. Ended(Address, job.completion)
    BY <1>1, <1>4, <2>1, SoundMemory, ReadEnds DEF Base
  <2>3. ~Expires(Address, job.completion)
    <3> SUFFICES ASSUME Expires(Address, job.completion) PROVE FALSE OBVIOUS
    <3>1. RetentionCycles[c] # kInfinite /\ start >= t
      BY <1>1, <2>1, ExpiresLate DEF Kept
    <3>2. lines[Address].initialized /\ start <= makespan' BY DEF Expires
    <3>3. start \in Nat /\ t \in Nat /\ makespan' \in Nat /\ kInfinite \in Nat
      <4>1. start \in Nat BY <1>1, <2>1, StartIs, SoundMemory DEF Base
      <4>2. t \in Nat BY <2>1, LineIs DEF Base
      <4>3. makespan' \in Nat BY DEF Base, Sound
      <4>4. kInfinite \in Nat BY ProfileAssumption
      <4> QED BY <4>1, <4>2, <4>3, <4>4
    <3>4. Deadline(Address) = t BY <3>1 DEF Deadline
    <3>5. t = kInfinite \/ ~(start >= t)
      BY <1>1, <3>2, <3>4 DEF Due
    <3> HIDE DEF start, t
    <3> QED BY <3>1, <3>2, <3>3, <3>5
  <2>4. AccessedLine BY <1>4 DEF Read
  <2> QED BY <1>1, <1>2, <2>1, <2>2, <2>3, <2>4, OneSteady, AccessedKept DEF Ended
<1> QED BY <1>3, <1>4

\* A refresh that finds its line decayed began when every channel was busy until after
\* the deadline, for it was issued before.
LEMMA RefreshKept ==
  ASSUME Base, Base', Grows, Kept, Refresh, error_mode = "Deterministic", Guard > 0
  PROVE  Kept'
<1> DEFINE issue == MaintenanceStart(Address)
           c == lines[Address].class
           start == EarliestStart(c, issue)
           t == lines[Address].lastWrite + RetentionCycles[c]
<1>1. /\ job.op = "access" /\ operation' \in Operation /\ fault = "none"
      /\ RefreshLine(Address, issue) /\ Due(Address, job.completion)
      /\ Refreshed(issue, Deadline(Address)) /\ stats \in Statistics
  BY DEF Refresh, Refreshed, Maintenance, Serving, After, Base, Sound, Typed
<1>2. Address \in Line /\ issue \in Nat /\ job \in Job
  BY <1>1, AtWork, DeadlineIs DEF Base
<1>3. Commanded(Address, issue) BY <1>1, <1>2, SoundMemory, RefreshIs DEF Base
<1>4. CASE fault' # "none"
  BY <1>1, <1>3, <1>4, ThrownKept DEF Refreshed, Commanded
<1>5. CASE fault' = "none"
  <2>1. Ended(Address, issue)
    BY <1>1, <1>2, <1>5, SoundMemory, RefreshEnds DEF Base
  <2> HIDE DEF issue
  <2>0. PICK a \in Line : a = Address BY <1>2
  <2> USE DEF issue
  <2>2. ASSUME Expires(Address, issue) PROVE Late(a)'
    <3>1. RetentionCycles[c] # kInfinite /\ start >= t
      <4> HIDE DEF issue
      <4> QED BY <1>1, <1>2, <2>2, ExpiresLate DEF Kept
    <3>2. /\ c \in Class /\ lines[Address].lastWrite \in Nat /\ RetentionCycles[c] \in Nat \ {0}
          /\ \A i \in 1..Channels[c] : channelReady[c][i] \in Nat
      BY <1>2, LineIs DEF Base
    <3>3. issue < t
      <4>1. Deadline(Address) = t BY <3>1 DEF Deadline
      <4> HIDE DEF c
      <4> QED BY <3>2, <4>1, ReplayAssumption DEF MaintenanceStart
    <3>4. channelReady[c][Soonest(c)] >= t
      <4>1. start = issue \/ start = channelReady[c][Soonest(c)] BY DEF EarliestStart, Later
      <4>2. t \in Nat BY <3>2
      <4> HIDE DEF issue, t
      <4> QED BY <1>2, <3>1, <3>3, <4>1, <4>2
    <3>5. \A i \in 1..Channels[c] : channelReady[c][i] >= t
      <4>1. MemoryTypeOK BY <1>1, SoundMemory DEF Base, IInv
      <4>2. /\ Soonest(c) \in 1..Channels[c]
            /\ \A i \in 1..Channels[c] : channelReady[c][Soonest(c)] <= channelReady[c][i]
        BY <3>2, <4>1, SoonestIsFirst
      <4>3. t \in Nat BY <3>2
      <4> HIDE DEF t, c
      <4> QED BY <3>2, <3>4, <4>2, <4>3
    <3>6. Late(Address) BY <2>2, <3>1, <3>5 DEF Late, Expires
    <3>7. /\ lines[Address] \in LineState /\ lines'[Address] \in LineState
      BY <1>2 DEF Base, Sound
    <3>8. /\ lines'[Address].initialized = lines[Address].initialized
          /\ lines'[Address].class = lines[Address].class
          /\ lines'[Address].lastWrite = lines[Address].lastWrite
      BY <2>2, <3>7 DEF Expires, LineState
    <3>9. /\ Late(a) /\ lines'[a].initialized = lines[a].initialized
          /\ lines'[a].class = lines[a].class /\ lines'[a].lastWrite = lines[a].lastWrite
      BY <2>0, <3>6, <3>8
    <3> QED BY <3>9, LateLasts
  <2>3. \A l \in Line : Steady(l) \/ Late(l)'
    <3> HIDE DEF issue
    <3>1. Steady(a) \/ Late(a)' BY <2>0, <2>1, <2>2 DEF Ended
    <3>2. Commanded(a, issue) BY <1>3, <2>0
    <3> QED BY <1>2, <3>1, <3>2, OneSteady
  <2>4. job'.op # "refresh" /\ stats'.expired <= stats'.maintenance
    <3>1. CASE job' = Again(operation'.completion) /\ UNCHANGED stats
      <4>1. Again(operation'.completion).op = "access" BY <1>2 DEF Again, Job
      <4> QED BY <3>1, <4>1 DEF Kept
    <3>2. CASE /\ stats' = Counted(IF operation'.ok THEN "Expired" ELSE operation'.failure, TRUE, FALSE)
               /\ Ends
      <4>1. PICK failure : stats' = Counted(failure, TRUE, FALSE) BY <3>2
      <4>2. /\ stats'.expired = IF failure = "Expired" THEN stats.expired + 1 ELSE stats.expired
            /\ stats'.maintenance = stats.maintenance + 1
        BY <1>1, <4>1, CountedExpired
      <4>3. stats.expired \in Nat /\ stats.maintenance \in Nat BY <1>1 DEF Statistics
      <4>4. stats.expired <= stats.maintenance /\ job'.op = "idle" BY <3>2 DEF Kept, Ends, Idle
      <4> QED BY <4>2, <4>3, <4>4
    <3> QED BY <1>1, <1>5, <3>1, <3>2 DEF Refreshed
  <2> QED BY <2>3, <2>4, KeptAfter
<1> QED BY <1>4, <1>5

LEMMA MigrateKept ==
  ASSUME Base, Base', Grows, Kept, Migrate, fault' = "none" => operation'.ok
  PROVE  Kept'
<1> DEFINE here == Allocation.base + job.moved
<1>1. /\ job.op \in {"hint", "promote"} /\ fault = "none" /\ MigrateLine(here, job.dest, job.at)
  BY DEF Migrate, Serving, After
<1>2. here \in Line /\ job.at \in Nat /\ job.dest \in Class /\ job \in Job
  BY <1>1, AtWork DEF Base, Job
<1>3. Commanded(here, job.at) BY MigrateCommand DEF Base
<1>4. CASE fault' # "none"
  BY <1>3, <1>4, ThrownKept DEF Migrate, Commanded
<1>5. CASE fault' = "none"
  <2>1. Steady(here)
    <3> HIDE DEF here
    <3> QED BY <1>1, <1>2, <1>5, SoundMemory, MigrateEnds DEF Base
  <2>2. \A l \in Line : Steady(l) \/ Late(l)'
    <3> HIDE DEF here
    <3> QED BY <1>2, <1>3, <2>1, OneSteady
  <2>3. stats' = stats /\ job'.op # "refresh"
    <3>1. PICK m, t : \/ job' = [job EXCEPT !.moved = m, !.at = t] /\ stats' = stats
                      \/ (Ends \/ job' = Again(t)) /\ stats' = stats
      BY <1>5 DEF Migrate, Relocated
    <3>2. [job EXCEPT !.moved = m, !.at = t].op = job.op /\ Again(t).op = "access"
      BY <1>2 DEF Again, Job
    <3>3. CASE Ends BY <3>1, <3>3 DEF Ends, Idle
    <3>4. CASE job' = [job EXCEPT !.moved = m, !.at = t] BY <1>1, <3>1, <3>2, <3>4
    <3>5. CASE job' = Again(t) BY <3>1, <3>2, <3>5
    <3> QED BY <3>1, <3>3, <3>4, <3>5
  <2> QED BY <2>2, <2>3, KeptAfter, UncountedIs DEF Uncounted
<1> QED BY <1>4, <1>5

\* Lines that are what they were, or not failed.
LEMMA QuietKept ==
  ASSUME Base, Base', Grows, Kept, Uncounted, job'.op # "refresh",
         \A l \in Line : lines'[l] = lines[l] \/ ~lines'[l].failed
  PROVE  Kept'
<1>1. \A l \in Line : Steady(l) BY DEF Steady
<1> QED BY <1>1, UncountedIs, KeptAfter

LEMMA BeginKept ==
  ASSUME Base, Base', Grows, Kept, stats.migration = 0, stats'.migration = 0,
         Hint \/ Access \/ Compute \/ Phase \/ Barrier
  PROVE  Kept'
<1>1. /\ lines' = lines /\ job.op = "idle" /\ stats \in Statistics
  BY DEF Hint, Access, Compute, Phase, Barrier, Begins, Throw, memoryVars, Base, Typed
<1>2. CASE UNCHANGED <<job, stats>>
  BY <1>1, <1>2, QuietKept DEF Uncounted
<1>3. CASE job' = Idle /\ stats' = stats
  <2>1. job'.op # "refresh" BY <1>3 DEF Idle
  <2> QED BY <1>1, <1>3, <2>1, QuietKept DEF Uncounted
<1>4. CASE Hint
  <2>1. CASE ~Known BY <1>2, <1>4, <2>1 DEF Hint, Throw, replayVars
  <2>2. CASE stats' = [stats EXCEPT !.unsafe = @ + 1, !.migration = @ + 1]
    BY <1>1, <2>2 DEF Statistics
  <2>3. ASSUME NEW c, NEW t, job' = [Idle EXCEPT !.op = "hint", !.dest = c, !.at = t], stats' = stats
        PROVE  Kept'
    <3>1. job'.op # "refresh" BY <2>3 DEF Idle
    <3> QED BY <1>1, <2>3, <3>1, QuietKept DEF Uncounted
  <2>4. PICK c, t : \/ ~Known
                    \/ job' = Idle /\ stats' = stats
                    \/ stats' = [stats EXCEPT !.unsafe = @ + 1, !.migration = @ + 1]
                    \/ job' = [Idle EXCEPT !.op = "hint", !.dest = c, !.at = t] /\ stats' = stats
    BY <1>4 DEF Hint, Ends
  <2> QED BY <1>3, <2>1, <2>2, <2>3, <2>4
<1>5. CASE Access
  <2>1. ASSUME NEW n, NEW t, job' = [Idle EXCEPT !.op = "access", !.line = n, !.completion = t],
               stats' = stats
        PROVE  Kept'
    <3>1. job'.op # "refresh" BY <2>1 DEF Idle
    <3> QED BY <1>1, <2>1, <3>1, QuietKept DEF Uncounted
  <2>2. CASE job' = Idle /\ stats' = [stats EXCEPT !.unsafe = @ + 1, !.rejected = @ + 1]
    <3>1. Uncounted BY <1>1, <2>2 DEF Uncounted, Statistics
    <3>2. job'.op # "refresh" BY <2>2 DEF Idle
    <3> QED BY <1>1, <3>1, <3>2, QuietKept
  <2>3. PICK n, t : \/ UNCHANGED <<job, stats>>
                    \/ job' = [Idle EXCEPT !.op = "access", !.line = n, !.completion = t] /\ stats' = stats
                    \/ job' = Idle /\ stats' = [stats EXCEPT !.unsafe = @ + 1, !.rejected = @ + 1]
    BY <1>5 DEF Access, Throw, Ends, replayVars
  <2> QED BY <1>2, <2>1, <2>2, <2>3
<1>6. CASE Compute \/ Phase \/ Barrier
  BY <1>3, <1>6 DEF Compute, Phase, Barrier, Ends
<1> QED BY <1>4, <1>5, <1>6

LEMMA FreeKept ==
  ASSUME Base, Base', Grows, Kept, Free, Known
  PROVE  Kept'
<1>1. /\ job' = Idle /\ stats' = stats
      /\ lines' = [l \in Line |-> IF Allocation.resident /\ l \in LinesIn(Current.buffer)
                                  THEN Gone ELSE lines[l]]
  BY FreeIs DEF Base
<1>2. job'.op # "refresh" /\ ~Gone.failed BY <1>1 DEF Idle, Gone
<1>3. \A l \in Line : lines'[l] = lines[l] \/ ~lines'[l].failed BY <1>1, <1>2
<1> QED BY <1>1, <1>2, <1>3, QuietKept DEF Uncounted

LEMMA AllocateKept ==
  ASSUME Base, Base', Grows, Kept, Allocate, ~Known
  PROVE  Kept'
<1>1. PICK base \in Nat, n \in Nat \ {0}, class \in Class, fits \in BOOLEAN :
        base >= nextBase /\ Placing(base, n, class, fits)
  BY AllocateIs DEF Base
<1>2. job' = Idle /\ stats \in Statistics /\ nextBase \in Nat BY <1>1 DEF Placing, Base, Typed
<1>3. job'.op # "refresh" /\ ~Fresh(class).failed BY <1>2 DEF Idle, Fresh, Gone
<1>4. CASE fits
  <2>1. lines' = [l \in Line |-> IF l \in Lines(base, n) THEN Fresh(class) ELSE lines[l]]
    BY <1>1, <1>2, <1>4, ReserveIs DEF Placing, Base
  <2>2. stats' = stats BY <1>1, <1>4 DEF Placing
  <2>3. \A l \in Line : lines'[l] = lines[l] \/ ~lines'[l].failed BY <1>3, <2>1
  <2> QED BY <1>3, <2>2, <2>3, QuietKept DEF Uncounted
<1>5. CASE ~fits
  <2>1. lines' = lines /\ stats' = [stats EXCEPT !.unsafe = @ + 1, !.allocation = @ + 1]
    BY <1>1, <1>5 DEF Placing, memoryVars
  <2>2. Uncounted BY <1>2, <2>1 DEF Uncounted, Statistics
  <2> QED BY <1>3, <2>1, <2>2, QuietKept
<1> QED BY <1>4, <1>5

LEMMA PromoteKept ==
  ASSUME Base, Base', Grows, Kept, Promote
  PROVE  Kept'
<1>1. UNCHANGED <<lines, stats>> /\ job \in Job
  BY DEF Promote, memoryVars, Base, Typed
<1>2. PICK d, s, t : \/ job' = Again(s)
                     \/ job' = [job EXCEPT !.op = "promote", !.dest = d, !.moved = 0, !.at = s,
                                           !.start = s, !.deadline = t]
  BY DEF Promote
<1>3. job'.op # "refresh"
  <2>1. CASE job' = Again(s)
    <3>1. Again(s).op = "access" BY <1>1 DEF Again, Job
    <3> QED BY <2>1, <3>1
  <2>2. CASE job' = [job EXCEPT !.op = "promote", !.dest = d, !.moved = 0, !.at = s,
                                !.start = s, !.deadline = t]
    BY <1>1, <2>2 DEF Job
  <2> QED BY <1>2, <2>1, <2>2
<1> QED BY <1>1, <1>3, QuietKept DEF Uncounted

LEMMA MaintainedStep ==
  ASSUME Base, Maintained, [Next]_vars
  PROVE  Maintained'
<1> SUFFICES ASSUME Unspoilt' PROVE Kept'
  BY DEF Maintained
<1>0. Base' /\ Grows BY BaseStep, StepGrows
<1>1. policy' = policy /\ error_mode' = error_mode
  <2>1. CASE Replay
    <3>1. CASE Hint \/ Access \/ Compute \/ Phase \/ Barrier \/ Promote \/ Exhausted
      BY <3>1 DEF Hint, Access, Compute, Phase, Barrier, Promote, Exhausted, Throw, traceVars, memoryVars
    <3>2. CASE Write \/ Read \/ Refresh \/ RefreshAfterPromotion \/ Migrate
      BY <3>2 DEF Write, Read, Refresh, RefreshAfterPromotion, Refreshed, Migrate, After, traceVars
    <3>3. CASE Allocate \/ Free
      BY <3>3 DEF Allocate, Free, Reserve, Release, Throw, traceVars, memoryVars
    <3> QED BY <2>1, <3>1, <3>2, <3>3 DEF Replay
  <2> QED BY <2>1 DEF Next, vars, traceVars, memoryVars, Load, Reject, Start, Report
<1>2. Unspoilt
  <2>1. policy \in Maintains /\ error_mode = "Deterministic" /\ Guard > 0
    BY <1>1 DEF Unspoilt
  <2>2. stats.migration = 0 BY FailedStays DEF Unspoilt
  <2>3. makespan < kInfinite
    <3>1. makespan <= makespan' /\ makespan' < kInfinite BY <1>0 DEF Unspoilt, Grows
    <3>2. makespan \in Nat /\ makespan' \in Nat /\ kInfinite \in Nat
      <4>1. makespan \in Nat BY DEF Base, Sound
      <4>2. makespan' \in Nat BY <1>0 DEF Base, Sound
      <4> QED BY <4>1, <4>2, ProfileAssumption
    <3> QED BY <3>1, <3>2
  <2> QED BY <2>1, <2>2, <2>3 DEF Unspoilt
<1>3. /\ Kept /\ policy \in Maintains /\ error_mode = "Deterministic" /\ Guard > 0
      /\ stats.migration = 0 /\ stats'.migration = 0 /\ makespan' < kInfinite
  BY <1>2 DEF Maintained, Unspoilt
<1>4. CASE \/ UNCHANGED vars \/ Load \/ Reject \/ Start \/ Report
           \/ Allocate /\ Known
           \/ Free /\ ~Known
           \/ Exhausted
  <2>1. UNCHANGED <<lines, job, stats>>
    BY <1>4 DEF vars, memoryVars, replayVars, Load, Reject, Start, Report, Allocate, Free, Exhausted, Throw
  <2> QED BY <1>0, <1>3, <2>1, ThrownKept
<1>5. CASE Hint \/ Access \/ Compute \/ Phase \/ Barrier
  BY <1>0, <1>3, <1>5, BeginKept
<1>6. CASE Allocate /\ ~Known BY <1>0, <1>3, <1>6, AllocateKept
<1>7. CASE Free /\ Known BY <1>0, <1>3, <1>7, FreeKept
<1>8. CASE Promote BY <1>0, <1>3, <1>8, PromoteKept
<1>9. ~RefreshAfterPromotion BY <1>3 DEF RefreshAfterPromotion, Serving, Kept
<1>10. CASE Refresh BY <1>0, <1>3, <1>10, RefreshKept
<1>11. CASE Write BY <1>0, <1>3, <1>11, WriteKept
<1>12. CASE Read BY <1>0, <1>3, <1>12, ReadKept
<1>13. CASE Migrate
  <2>1. fault' = "none" => operation'.ok
    <3>1. ASSUME fault' = "none", ~operation'.ok PROVE FALSE
      <4>1. stats' = Counted(operation'.failure, job.op = "promote", TRUE) /\ stats \in Statistics
        BY <1>13, <3>1 DEF Migrate, Base, Typed
      <4>2. stats'.migration = stats.migration + 1 BY <4>1, CountedIs
      <4>3. stats.migration \in Nat BY <4>1 DEF Statistics
      <4> QED BY <1>3, <4>2, <4>3
    <3> QED BY <3>1
  <2> QED BY <1>0, <1>3, <1>13, <2>1, MigrateKept
<1> QED BY <1>4, <1>5, <1>6, <1>7, <1>8, <1>9, <1>10, <1>11, <1>12, <1>13 DEF Next, Replay

LEMMA InitMaintained == Init => Maintained
<1> SUFFICES ASSUME Init PROVE Kept BY DEF Maintained
<1>1. job.op = "idle" /\ stats.expired = 0 /\ stats.maintenance = 0
  BY DEF Init, Idle, NoFailures
<1>2. \A l \in Line : ~lines[l].failed BY DEF Init, MemoryInit, Gone
<1> QED BY <1>1, <1>2 DEF Kept

\* With a guard, and until a migration fails, the only lines found decayed are found by
\* their own refresh, for every trace, profile and number of channels.
THEOREM MaintainedReadsCorrect == Spec => []MaintainedReadsHold
<1>1. Base /\ Maintained /\ [Next]_vars => Maintained'
  BY MaintainedStep
<1>2. Maintained => MaintainedReadsHold
  BY DEF Maintained, Unspoilt, Kept, MaintainedReadsHold
<1> QED BY <1>1, <1>2, InitMaintained, BaseInvariant, PTL DEF Spec

\* The counts of the banks' lines are exact and banks of one channel are in order, for
\* every trace, after an exception too.
THEOREM ReplayMemoryCorrect == Spec => [](UsageExact /\ SingleChannelOrdered)
<1>1. Base => UsageExact /\ SingleChannelOrdered BY DEF Base, Sound, Dates
<1> QED BY <1>1, BaseInvariant, PTL

-----------------------------------------------------------------------------
(* Maintenance converges: a command that rewrites a line that was due dates  *)
(* it a round later, so a line maintained n times is dated n rounds on.      *)

LEMMA RoundIs ==
  /\ Round \in Nat
  /\ \A c \in Class, d \in Class :
       Round <= Later(0, RetentionCycles[c] - Guard) + ReadCycles[c] + WriteCycles[d]
<1> DEFINE S == {Later(0, RetentionCycles[c] - Guard) + ReadCycles[c] + WriteCycles[d] :
                   c \in Class, d \in Class}
<1>1. \A c \in Class : Later(0, RetentionCycles[c] - Guard) \in Nat
  BY ProfileAssumption, ReplayAssumption DEF Later
<1>2. \A c \in Class : ReadCycles[c] \in Nat /\ WriteCycles[c] \in Nat
  BY ProfileAssumption
<1>3. S \subseteq Nat
  <2> SUFFICES ASSUME NEW c \in Class, NEW d \in Class
               PROVE  Later(0, RetentionCycles[c] - Guard) + ReadCycles[c] + WriteCycles[d] \in Nat
    OBVIOUS
  <2>1. /\ Later(0, RetentionCycles[c] - Guard) \in Nat
        /\ ReadCycles[c] \in Nat /\ WriteCycles[d] \in Nat
    BY <1>1, <1>2
  <2> HIDE DEF S
  <2> QED BY <2>1
<1>4. S # {}
  <2>1. Epoch \in Class BY DEF Epoch, Class
  <2> QED BY <2>1
<1>5. Min(S) \in S /\ \A n \in S : Min(S) =< n
  <2> HIDE DEF S
  <2> QED BY <1>3, <1>4, MinIs
<1>6. Round = Min(S) BY DEF Round
<1> QED BY <1>3, <1>5, <1>6

\* The line is read and written again, no earlier than issued and than it was written.
Renewed(l, issue) ==
  \E d \in Class, start \in Nat :
    /\ issue <= start /\ lines[l].lastWrite <= start
    /\ start + ReadCycles[lines[l].class] + WriteCycles[d] <= lines'[l].lastWrite

LEMMA RewriteRenews ==
  ASSUME IInv, NEW l \in Line, NEW issue \in Nat, NEW start \in Nat, NEW d \in Class,
         NEW t \in Nat, issue <= start, Survives(l, start),
         lines[l].initialized, RetentionCycles[lines[l].class] # kInfinite,
         start + ReadCycles[lines[l].class] + WriteCycles[d] <= t,
         lines' = [lines EXCEPT ![l] = Rewritten(l, d, t)]
  PROVE  Renewed(l, issue)
<1>1. lines \in [Line -> LineState] /\ lines[l] \in LineState /\ lines[l].lastWrite \in Nat
  BY DEF IInv, MemoryTypeOK, LineState
<1>2. ~(start < lines[l].lastWrite)
  BY DEF Survives, MaySurvive, Early, Decaying
<1>3. lines'[l] = Rewritten(l, d, t) /\ Rewritten(l, d, t).lastWrite = t
  BY <1>1 DEF Rewritten, LineState
<1>4. lines[l].lastWrite <= start BY <1>1, <1>2
<1> QED BY <1>3, <1>4 DEF Renewed

LEMMA RefreshRenews ==
  ASSUME IInv, fault = "none", fault' = "none", NEW l \in Line, NEW issue \in Nat,
         lines[l].initialized, RetentionCycles[lines[l].class] # kInfinite,
         RefreshLine(l, issue), operation'.ok
  PROVE  Renewed(l, issue)
<1> DEFINE c == lines[l].class
           start == EarliestStart(c, issue)
           t == start + ReadCycles[c] + WriteCycles[c]
<1>1. /\ c \in Class /\ start \in Nat /\ issue <= start
      /\ ReadCycles[c] \in Nat /\ WriteCycles[c] \in Nat
  BY StartIs
<1>2. t \in Nat /\ t <= t
  <2> HIDE DEF start
  <2> QED BY <1>1
<1>3. CASE Missing(l, issue) BY <1>3 DEF Missing, Refused
<1>4. CASE Fails(l, start) BY <1>4 DEF Fails, Refused
<1>5. CASE Survives(l, start) /\ lines' = [lines EXCEPT ![l] = Rewritten(l, c, t)]
  <2>1. start + ReadCycles[lines[l].class] + WriteCycles[c] <= t BY <1>2
  <2> HIDE DEF start, t
  <2> QED BY <1>1, <1>2, <1>5, <2>1, RewriteRenews
<1> QED BY <1>3, <1>4, <1>5 DEF RefreshLine

LEMMA TransferRenews ==
  ASSUME IInv, fault = "none", fault' = "none", NEW l \in Line, NEW issue \in Nat, NEW d \in Class,
         lines[l].initialized, RetentionCycles[lines[l].class] # kInfinite,
         Transfer(l, d, issue), operation'.ok
  PROVE  Renewed(l, issue)
<1> DEFINE c == lines[l].class
           start == EarliestStart(c, issue)
           read == start + ReadCycles[c]
           later == EarliestStart(d, read + MigrationSetup)
           t == later + WriteCycles[d]
<1>1. /\ c \in Class /\ start \in Nat /\ issue <= start
      /\ ReadCycles[c] \in Nat /\ WriteCycles[d] \in Nat /\ MigrationSetup \in Nat
  BY StartIs, ProfileAssumption
<1>2. read \in Nat /\ read + MigrationSetup \in Nat /\ read <= read + MigrationSetup
  <2> HIDE DEF start
  <2> QED BY <1>1
<1>3. later \in Nat /\ read + MigrationSetup <= later
  <2> HIDE DEF read
  <2> QED BY <1>2, StartIs
<1>4. t \in Nat /\ read + WriteCycles[d] <= t
  <2> HIDE DEF read, later
  <2> QED BY <1>1, <1>2, <1>3
<1>5. CASE Fails(l, start) BY <1>5 DEF Fails, Refused
<1>6. CASE Survives(l, start) /\ lines' = [lines EXCEPT ![l] = Rewritten(l, d, t)]
  <2>1. start + ReadCycles[lines[l].class] + WriteCycles[d] <= t BY <1>4
  <2> HIDE DEF start, t
  <2> QED BY <1>1, <1>4, <1>6, <2>1, RewriteRenews
<1> QED BY <1>5, <1>6 DEF Transfer

\* A migration to another class, or to its own.
LEMMA MigrateRenews ==
  ASSUME IInv, fault = "none", fault' = "none", NEW l \in Line, NEW issue \in Nat, NEW d \in Class,
         lines[l].initialized, RetentionCycles[lines[l].class] # kInfinite,
         MigrateLine(l, d, issue), operation'.ok
  PROVE  Renewed(l, issue)
<1>1. CASE Missing(l, issue) BY <1>1 DEF Missing, Refused
<1>2. CASE RefreshLine(l, issue) BY <1>2, RefreshRenews
<1>3. CASE operation' = Refused("Capacity", issue) BY <1>3 DEF Refused
<1>4. CASE Transfer(l, d, issue) BY <1>4, TransferRenews
<1> QED BY <1>1, <1>2, <1>3, <1>4 DEF MigrateLine

\* A line renewed for its deadline, the guard before it at the earliest.
LEMMA RenewedRound ==
  ASSUME Sound, lines' \in [Line -> LineState], NEW l \in Line, NEW issue \in Nat, Renewed(l, issue),
         lines[l].lastWrite + RetentionCycles[lines[l].class] <= issue + Guard
  PROVE  lines[l].lastWrite + Round <= lines'[l].lastWrite
<1>1. PICK d \in Class, start \in Nat :
        /\ issue <= start /\ lines[l].lastWrite <= start
        /\ start + ReadCycles[lines[l].class] + WriteCycles[d] <= lines'[l].lastWrite
  BY DEF Renewed
<1>2. PICK c \in Class : c = lines[l].class BY LineIs
<1>3. /\ lines[l].lastWrite \in Nat /\ lines'[l].lastWrite \in Nat /\ RetentionCycles[c] \in Nat
      /\ ReadCycles[c] \in Nat /\ WriteCycles[d] \in Nat /\ Guard \in Nat
  BY <1>2, LineIs, ProfileAssumption, ReplayAssumption DEF LineState
<1>4. /\ Round \in Nat
      /\ Round <= Later(0, RetentionCycles[c] - Guard) + ReadCycles[c] + WriteCycles[d]
  BY RoundIs
<1>5. PICK wait \in Nat : wait = Later(0, RetentionCycles[c] - Guard)
  BY <1>3 DEF Later
<1>6. lines[l].lastWrite + wait <= start
  BY <1>1, <1>2, <1>3, <1>5 DEF Later
<1>7. /\ start + ReadCycles[c] + WriteCycles[d] <= lines'[l].lastWrite
      /\ Round <= wait + ReadCycles[c] + WriteCycles[d]
  BY <1>1, <1>2, <1>4, <1>5
<1> QED BY <1>3, <1>4, <1>6, <1>7

LEMMA DueIs ==
  ASSUME Sound, NEW l \in Line, NEW t, Due(l, t)
  PROVE  /\ lines[l].initialized /\ RetentionCycles[lines[l].class] # kInfinite
         /\ lines[l].lastWrite + RetentionCycles[lines[l].class] <= MaintenanceStart(l) + Guard
<1>1. /\ lines[l].initialized /\ RetentionCycles[lines[l].class] # kInfinite
      /\ Deadline(l) = lines[l].lastWrite + RetentionCycles[lines[l].class]
  BY DEF Due, Deadline
<1>2. lines[l].lastWrite \in Nat /\ Deadline(l) \in Nat /\ Guard \in Nat
  BY LineIs, DeadlineIs, ReplayAssumption
<1>3. Deadline(l) <= MaintenanceStart(l) + Guard
  BY <1>2 DEF MaintenanceStart
<1> QED BY <1>1, <1>3

\* The line at hand is dated n rounds after the start of time.
Went(n) == n = 0 \/ n * Round <= lines[Address].lastWrite

\* Each attempt has cost its line a round; a promotion that has yet to reach the line will.
Going ==
  /\ job.op # "refresh"
  /\ job.op = "access" => Went(job.attempts)
  /\ job.op = "promote" =>
       IF job.line < job.moved THEN Went(job.attempts + 1)
       ELSE /\ Went(job.attempts)
            /\ lines[Address].initialized /\ RetentionCycles[lines[Address].class] # kInfinite
            /\ lines[Address].lastWrite + RetentionCycles[lines[Address].class] <= job.at + Guard

Spent == MaxAttempts * Round <= makespan

Rounds ==
  stats.migration = 0 =>
    /\ fault = "none" => Going
    /\ fault = "limit" => Spent

\* One more round.
LEMMA WentOn ==
  ASSUME NEW n \in Nat, NEW before \in Nat, NEW after \in Nat,
         n = 0 \/ n * Round <= before, before + Round <= after
  PROVE  (n + 1) * Round <= after
<1>1. PICK r \in Nat : r = Round BY RoundIs
<1>2. (n + 1) * r = n * r + r /\ n * r \in Nat BY <1>1
<1>3. n * r <= before
  <2>1. CASE n = 0 BY <1>1, <2>1
  <2>2. CASE n * Round <= before BY <1>1, <2>2
  <2> QED BY <2>1, <2>2
<1>4. n * r + r <= after BY <1>1, <1>2, <1>3
<1> QED BY <1>1, <1>2, <1>4

LEMMA FreshGoing ==
  ASSUME job'.op \in {"idle", "hint"} \/ (job'.op = "access" /\ job'.attempts = 0)
  PROVE  Going'
BY DEF Going, Went

LEMMA SameGoing ==
  ASSUME Going, job' = job, lines' = lines, allocations' = allocations,
         events' = events, pos' = pos
  PROVE  Going'
BY DEF Going, Went, Address, Allocation, Current

\* Round the loop again, with the line a round further on.
LEMMA AgainGoing ==
  ASSUME job \in Job, NEW n \in Nat, n = job.attempts, NEW t,
         job' = Again(t), Address' = Address,
         (n + 1) * Round <= lines'[Address].lastWrite
  PROVE  Going'
<1>1. job'.op = "access" /\ job'.attempts = n + 1
  <2>1. PICK u : u = Later(job.completion, t) OBVIOUS
  <2>2. job' = [job EXCEPT !.op = "access", !.attempts = @ + 1, !.completion = u]
    BY <2>1 DEF Again
  <2> QED BY <2>2 DEF Job
<1>2. lines'[Address'].lastWrite = lines'[Address].lastWrite OBVIOUS
<1>3. Went(job.attempts)' BY <1>1, <1>2 DEF Went
<1> QED BY <1>1, <1>3 DEF Going

LEMMA RefreshGoing ==
  ASSUME Base, Base', Going, Refresh, fault' = "none"
  PROVE  Going'
<1> DEFINE issue == MaintenanceStart(Address)
<1>1. /\ job.op = "access" /\ job \in Job /\ fault = "none" /\ Due(Address, job.completion)
      /\ RefreshLine(Address, issue) /\ operation' \in Operation
      /\ Refreshed(issue, Deadline(Address)) /\ allocations' = allocations /\ UNCHANGED traceVars
  BY DEF Refresh, Refreshed, Maintenance, Serving, After, Base, Typed, Sound
<1>2. Address \in Line /\ issue \in Nat
  BY <1>1, AtWork, DeadlineIs DEF Base
<1>3. CASE Ends
  <2>1. job'.op = "idle" BY <1>3 DEF Ends, Idle
  <2> QED BY <2>1, FreshGoing
<1>4. CASE operation'.ok /\ job' = Again(operation'.completion) /\ UNCHANGED pos
  <2>1. /\ lines[Address].initialized /\ RetentionCycles[lines[Address].class] # kInfinite
        /\ lines[Address].lastWrite + RetentionCycles[lines[Address].class] <= issue + Guard
    BY <1>1, <1>2, DueIs DEF Base
  <2>2. Renewed(Address, issue)
    <3> HIDE DEF issue
    <3> QED BY <1>1, <1>2, <1>4, <2>1, SoundMemory, RefreshRenews DEF Base
  <2>3. lines[Address].lastWrite + Round <= lines'[Address].lastWrite
    <3> HIDE DEF issue
    <3> QED BY <1>2, <2>1, <2>2, RenewedRound DEF Base, Sound
  <2>4. lines[Address].lastWrite \in Nat /\ lines'[Address].lastWrite \in Nat /\ job.attempts \in Nat
    BY <1>1, <1>2 DEF Base, Sound, LineState, Job
  <2>5. Went(job.attempts) BY <1>1 DEF Going
  <2>6. (job.attempts + 1) * Round <= lines'[Address].lastWrite
    BY <2>3, <2>4, <2>5, WentOn DEF Went
  <2>7. Address' = Address
    <3>1. job'.line = job.line
      <4>1. PICK t \in Nat : t = operation'.completion BY <1>1 DEF Operation
      <4> QED BY <1>1, <1>4, <4>1, AgainIs
    <3> QED BY <1>1, <1>4, <3>1 DEF Address, Allocation, Current, traceVars
  <2> QED BY <1>1, <1>4, <2>4, <2>6, <2>7, AgainGoing
<1> QED BY <1>1, <1>3, <1>4 DEF Refreshed

\* A buffer whose lines are in its class is not in the next one: the promotion begins.
LEMMA PromoteGoing ==
  ASSUME Base, Base', AllPlaced, Going, Promote
  PROVE  Going'
<1> DEFINE start == MaintenanceStart(Address)
           d == NextClass(lines[Address].class)
<1>1. /\ job.op = "access" /\ job \in Job /\ Due(Address, job.completion)
      /\ lines[Address].class # Durable
      /\ UNCHANGED <<lines, allocations, pos, events>>
  BY DEF Promote, Promotes, Maintenance, Serving, memoryVars, traceVars, Base, Typed
<1>2. /\ Address \in Line /\ Address \in LinesIn(Current.buffer)
      /\ Current.buffer \in DOMAIN allocations /\ Allocation.resident
  BY <1>1, AtWork DEF Base
<1>3. lines[Address].class = Allocation.class
  BY <1>1, <1>2 DEF AllPlaced, ClassOf, Moving, Allocation
<1>4. d # Allocation.class
  BY <1>1, <1>3 DEF NextClass, Ephemeral, Epoch, Durable
<1>5. PICK u : job' = [job EXCEPT !.op = "promote", !.dest = d, !.moved = 0, !.at = start,
                                  !.start = start, !.deadline = u]
  <2> HIDE DEF d, start
  <2> QED BY <1>4 DEF Promote, d, start
<1>6. /\ job'.op = "promote" /\ job'.moved = 0 /\ job'.at = start
      /\ job'.line = job.line /\ job'.attempts = job.attempts
  <2> HIDE DEF d, start
  <2> QED BY <1>1, <1>5 DEF Job
<1>7. Address' = Address BY <1>1, <1>6 DEF Address, Allocation, Current
<1>8. ~(job'.line < job'.moved)
  <2>1. job.line \in Nat BY <1>1 DEF Job
  <2> QED BY <1>6, <2>1
<1>9. /\ lines[Address].initialized /\ RetentionCycles[lines[Address].class] # kInfinite
      /\ lines[Address].lastWrite + RetentionCycles[lines[Address].class] <= start + Guard
  BY <1>1, <1>2, DueIs DEF Base
<1>10. Went(job.attempts) BY <1>1 DEF Going
<1>11. Went(job.attempts)' BY <1>1, <1>6, <1>7, <1>10 DEF Went
<1>12. lines'[Address'] = lines[Address] BY <1>1, <1>7
<1>13. /\ lines'[Address'].initialized /\ RetentionCycles[lines'[Address'].class] # kInfinite
       /\ lines'[Address'].lastWrite + RetentionCycles[lines'[Address'].class] <= job'.at + Guard
  <2> HIDE DEF start
  <2> QED BY <1>6, <1>9, <1>12
<1> QED BY <1>6, <1>8, <1>11, <1>13 DEF Going

\* The line of the access is not the one that moves: it stays what it is.
LEMMA PassedGoing ==
  ASSUME Base, job.op = "promote", Going, Address' = Address,
         lines'[Address] = lines[Address], NEW m \in Nat, m = job.moved, m # job.line,
         NEW t \in Nat, job.at <= t, job' = [job EXCEPT !.moved = m + 1, !.at = t]
  PROVE  Going'
<1>1. /\ job \in Job /\ job.line \in Nat /\ job.moved \in Nat /\ job.at \in Nat
      /\ lines[Address].lastWrite \in Nat /\ RetentionCycles[lines[Address].class] \in Nat
      /\ Guard \in Nat
  <2>1. job \in Job BY DEF Base, Typed
  <2>2. Address \in Line BY AtWork DEF Base
  <2> QED BY <2>1, <2>2, LineIs, ReplayAssumption DEF Job, Base
<1>2. /\ job'.op = "promote" /\ job'.moved = m + 1 /\ job'.at = t
      /\ job'.line = job.line /\ job'.attempts = job.attempts
  BY <1>1 DEF Job
<1>3. (job'.line < job'.moved) <=> (job.line < job.moved)
  BY <1>1, <1>2
<1>4. lines'[Address'] = lines[Address] OBVIOUS
<1>5. CASE job.line < job.moved
  <2>1. Went(job.attempts + 1) BY <1>5 DEF Going
  <2>2. Went(job.attempts + 1)' BY <1>2, <1>4, <2>1 DEF Went
  <2> QED BY <1>2, <1>3, <1>5, <2>2 DEF Going
<1>6. CASE ~(job.line < job.moved)
  <2>1. /\ Went(job.attempts)
        /\ lines[Address].initialized /\ RetentionCycles[lines[Address].class] # kInfinite
        /\ lines[Address].lastWrite + RetentionCycles[lines[Address].class] <= job.at + Guard
    BY <1>6 DEF Going
  <2>2. Went(job.attempts)' BY <1>2, <1>4, <2>1 DEF Went
  <2>3. lines[Address].lastWrite + RetentionCycles[lines[Address].class] <= t + Guard
    BY <1>1, <2>1
  <2>4. lines'[Address'].lastWrite + RetentionCycles[lines'[Address'].class] <= job'.at + Guard
    BY <1>2, <1>4, <2>3
  <2> QED BY <1>2, <1>3, <1>4, <1>6, <2>1, <2>2, <2>4 DEF Going
<1> QED BY <1>5, <1>6

LEMMA MigrateGoing ==
  ASSUME Base, Base', Going, Migrate, fault' = "none", operation'.ok
  PROVE  Going'
<1> DEFINE here == Allocation.base + job.moved
           completion == Later(job.at, operation'.completion)
<1>1. /\ job.op \in {"hint", "promote"} /\ job \in Job /\ fault = "none" /\ UNCHANGED traceVars
      /\ MigrateLine(here, job.dest, job.at) /\ operation' \in Operation
  BY DEF Migrate, Serving, After, Base, Typed, Sound
<1>2. /\ here \in Line /\ job.at \in Nat /\ job.dest \in Class /\ job.moved \in Nat /\ job.line \in Nat
      /\ job.attempts \in Nat /\ Allocation.base \in Nat /\ Allocation.lines \in Nat
      /\ Current.buffer \in DOMAIN allocations /\ allocations \in [DOMAIN allocations -> Placement]
  BY <1>1, AtWork DEF Base, Job, Placement, Typed
<1>3. completion \in Nat /\ job.at <= completion
  BY <1>1, <1>2 DEF Later, Operation
<1>4. \/ /\ job' = [job EXCEPT !.moved = job.moved + 1, !.at = completion]
         /\ UNCHANGED <<pos, allocations>> /\ job.moved + 1 < Allocation.lines
      \/ /\ ~(job.moved + 1 < Allocation.lines) /\ Relocated(completion)
  <2> HIDE DEF completion
  <2> QED BY DEF Migrate, completion
<1>5. CASE job.op = "hint"
  <2>1. CASE job' = [job EXCEPT !.moved = job.moved + 1, !.at = completion]
    <3> HIDE DEF completion
    <3>1. job'.op = "hint" BY <1>1, <1>5, <2>1 DEF Job
    <3> QED BY <3>1, FreshGoing
  <2>2. CASE Ends
    <3>1. job'.op = "idle" BY <2>2 DEF Ends, Idle
    <3> QED BY <3>1, FreshGoing
  <2> QED BY <1>4, <1>5, <2>1, <2>2 DEF Relocated
<1>6. CASE job.op = "promote"
  <2>1. /\ Address \in Line /\ job.line < Allocation.lines /\ Address = Allocation.base + job.line
        /\ lines[Address].lastWrite \in Nat /\ lines'[Address].lastWrite \in Nat
    <3>1. Address \in Line BY <1>6, AtWork DEF Base
    <3>2. InBounds(Current, Allocation.size) /\ job.line \in FirstLine(Current)..LastLine(Current)
      BY <1>6 DEF Base, Working
    <3>3. Current \in TraceEvent /\ Allocation \in Placement
      BY <1>6, AtWork DEF Base
    <3>4. Allocation.lines = AlignedLines(Allocation.size) /\ Allocation.size \in Nat
      BY <1>2, <3>3 DEF Base, Laid, Allocation, Placement
    <3>5. job.line < Allocation.lines
      <4>1. /\ FirstLine(Current) \in Nat /\ LastLine(Current) \in Nat
            /\ LastLine(Current) < AlignedLines(Allocation.size)
        BY <3>2, <3>3, <3>4, AccessLines
      <4> QED BY <1>2, <3>2, <3>4, <4>1
    <3> QED BY <3>1, <3>5 DEF Address, Base, Sound, LineState
  <2>2. Commanded(here, job.at) BY MigrateCommand DEF Base
  <2>3. job.line # job.moved => lines'[Address] = lines[Address]
    BY <1>2, <2>1, <2>2 DEF Commanded
  <2>4. Address' = Address
    <3>1. pos' = pos /\ job'.line = job.line
      <4>1. CASE job' = [job EXCEPT !.moved = job.moved + 1, !.at = completion] /\ UNCHANGED pos
        <5> HIDE DEF completion
        <5> QED BY <1>1, <4>1 DEF Job
      <4>2. CASE Relocated(completion)
        <5> HIDE DEF completion
        <5> QED BY <1>1, <1>3, <1>6, <4>2, AgainIs DEF Relocated
      <4> QED BY <1>4, <4>1, <4>2
    <3>2. Current' = Current BY <1>1, <3>1 DEF Current, traceVars
    <3>3. Allocation'.base = Allocation.base
      <4>1. CASE allocations' = allocations BY <3>2, <4>1 DEF Allocation
      <4>2. CASE allocations' = [allocations EXCEPT ![Current.buffer].class = job.dest]
        BY <1>2, <3>2, <4>2 DEF Allocation, Placement
      <4> QED BY <1>4, <4>1, <4>2 DEF Relocated
    <3> QED BY <3>1, <3>3 DEF Address
  <2>5. job.line = job.moved => lines[Address].lastWrite + Round <= lines'[Address].lastWrite
    <3> SUFFICES ASSUME job.line = job.moved
                 PROVE  lines[Address].lastWrite + Round <= lines'[Address].lastWrite
      OBVIOUS
    <3>1. here = Address BY <2>1
    <3>2. /\ lines[Address].initialized /\ RetentionCycles[lines[Address].class] # kInfinite
          /\ lines[Address].lastWrite + RetentionCycles[lines[Address].class] <= job.at + Guard
      BY <1>2, <1>6 DEF Going
    <3>3. MigrateLine(Address, job.dest, job.at) BY <1>1, <3>1
    <3>4. Renewed(Address, job.at)
      BY <1>1, <1>2, <2>1, <3>2, <3>3, SoundMemory, MigrateRenews DEF Base
    <3> QED BY <1>2, <2>1, <3>2, <3>4, RenewedRound DEF Base, Sound
  <2>6. job.line <= job.moved => (job.attempts + 1) * Round <= lines'[Address].lastWrite
    <3>1. CASE job.line = job.moved
      <4>1. Went(job.attempts) BY <1>2, <1>6, <3>1 DEF Going
      <4> QED BY <1>2, <2>1, <2>5, <3>1, <4>1, WentOn DEF Went
    <3>2. CASE job.line < job.moved
      <4>1. Went(job.attempts + 1) BY <1>6, <3>2 DEF Going
      <4>2. job.attempts + 1 # 0 BY <1>2
      <4>3. lines'[Address] = lines[Address] BY <1>2, <2>3, <3>2
      <4> QED BY <4>1, <4>2, <4>3 DEF Went
    <3> QED BY <1>2, <3>1, <3>2
  <2>7. CASE Relocated(completion) /\ ~(job.moved + 1 < Allocation.lines)
    <3>1. job' = Again(completion) BY <1>6, <2>7 DEF Relocated
    <3>2. job.line <= job.moved BY <1>2, <2>1, <2>7
    <3> HIDE DEF completion
    <3> QED BY <1>1, <1>2, <2>4, <2>6, <3>1, <3>2, AgainGoing
  <2>8. CASE job' = [job EXCEPT !.moved = job.moved + 1, !.at = completion]
    <3>1. CASE job.line # job.moved
      <4> HIDE DEF completion
      <4> QED BY <1>2, <1>3, <1>6, <2>3, <2>4, <2>8, <3>1, PassedGoing
    <3>2. CASE job.line = job.moved
      <4>1. /\ job'.op = "promote" /\ job'.moved = job.moved + 1 /\ job'.line = job.line
            /\ job'.attempts = job.attempts
        <5> HIDE DEF completion
        <5> QED BY <1>1, <1>6, <2>8 DEF Job
      <4>2. job'.line < job'.moved BY <1>2, <3>2, <4>1
      <4>3. (job'.attempts + 1) * Round <= lines'[Address'].lastWrite
        BY <1>2, <2>4, <2>6, <3>2, <4>1
      <4> QED BY <4>1, <4>2, <4>3 DEF Going, Went
    <3> QED BY <3>1, <3>2
  <2> QED BY <1>4, <2>7, <2>8
<1> QED BY <1>1, <1>5, <1>6

\* The read or write of a line ends the event, or goes on to a line not yet maintained.
LEMMA ServedGoing ==
  ASSUME Write \/ Read, fault' = "none"
  PROVE  Going'
<1>1. AccessedLine BY DEF Write, Read
<1>2. CASE Ends
  <2>1. job'.op = "idle" BY <1>2 DEF Ends, Idle
  <2> QED BY <2>1, FreshGoing
<1>3. CASE ~Ends
  <2>1. PICK n, t : job' = [Idle EXCEPT !.op = "access", !.line = n, !.completion = t]
    BY <1>1, <1>3 DEF AccessedLine
  <2>2. job'.op = "access" /\ job'.attempts = 0 BY <2>1 DEF Idle
  <2> QED BY <2>2, FreshGoing
<1> QED BY <1>2, <1>3

LEMMA BegunGoing ==
  ASSUME Base, fault' = "none",
         Allocate \/ Free \/ Hint \/ Access \/ Compute \/ Phase \/ Barrier
  PROVE  Going'
<1>1. CASE job' = Idle
  <2>1. job'.op = "idle" BY <1>1 DEF Idle
  <2> QED BY <2>1, FreshGoing
<1>2. CASE Hint
  <2>1. PICK c, t : Ends \/ job' = [Idle EXCEPT !.op = "hint", !.dest = c, !.at = t]
    BY <1>2 DEF Hint, Throw
  <2>2. CASE job' = [Idle EXCEPT !.op = "hint", !.dest = c, !.at = t]
    <3>1. job'.op = "hint" BY <2>2 DEF Idle
    <3> QED BY <3>1, FreshGoing
  <2> QED BY <1>1, <2>1, <2>2 DEF Ends
<1>3. CASE Access
  <2>1. PICK n, t : Ends \/ job' = [Idle EXCEPT !.op = "access", !.line = n, !.completion = t]
    BY <1>3 DEF Access, Throw
  <2>2. CASE job' = [Idle EXCEPT !.op = "access", !.line = n, !.completion = t]
    <3>1. job'.op = "access" /\ job'.attempts = 0 BY <2>2 DEF Idle
    <3> QED BY <3>1, FreshGoing
  <2> QED BY <1>1, <2>1, <2>2 DEF Ends
<1>4. CASE Compute \/ Phase \/ Barrier
  BY <1>1, <1>4 DEF Compute, Phase, Barrier, Ends
<1>5. CASE Free
  BY <1>1, <1>5 DEF Free, Throw, Ends
<1>6. CASE Allocate
  <2>1. ~Known BY <1>6 DEF Allocate, Throw
  <2>2. job' = Idle BY <1>6, <2>1, AllocateIs DEF Base, Placing
  <2> QED BY <1>1, <2>2
<1> QED BY <1>2, <1>3, <1>4, <1>5, <1>6

\* Only the loop itself says that it has reached its limit.
LEMMA LimitOnly ==
  ASSUME Base, [Next]_vars, fault' = "limit", ~Exhausted
  PROVE  fault = "limit"
<1>1. CASE UNCHANGED vars \/ Load \/ Reject \/ Start \/ Report
  BY <1>1 DEF vars, memoryVars, Load, Reject, Start, Report
<1>2. CASE Hint \/ Access \/ Compute \/ Phase \/ Barrier \/ Promote
  BY <1>2 DEF Hint, Access, Compute, Phase, Barrier, Promote, Throw, memoryVars
<1>3. CASE Allocate
  <2>1. CASE Known BY <1>3, <2>1 DEF Allocate, Throw
  <2>2. CASE ~Known
    <3>1. PICK base \in Nat, n \in Nat \ {0}, class \in Class, fits \in BOOLEAN :
            base >= nextBase /\ Placing(base, n, class, fits)
      BY <1>3, <2>2, AllocateIs DEF Base
    <3>2. nextBase \in Nat BY DEF Base, Typed
    <3> QED BY <3>1, <3>2, ReserveIs DEF Placing, memoryVars, Base
  <2> QED BY <2>1, <2>2
<1>4. CASE Free
  <2>1. CASE Known BY <1>4, <2>1, FreeIs DEF Base
  <2>2. CASE ~Known BY <1>4, <2>2 DEF Free, Throw
  <2> QED BY <2>1, <2>2
<1>5. CASE Serves
  BY <1>5, ReadCommand, WriteCommand, RefreshCommand DEF Serves, Base, Commanded
<1>6. CASE Migrate
  BY <1>6, MigrateCommand DEF Base, Commanded
<1> QED BY <1>1, <1>2, <1>3, <1>4, <1>5, <1>6 DEF Next, Replay, Serves

\* The line at hand is dated within the time the memory has reached.
LEMMA ExhaustedSpent ==
  ASSUME Base, Going, Exhausted
  PROVE  Spent'
<1>1. /\ job.op = "access" /\ job.attempts = MaxAttempts /\ makespan' = makespan /\ fault = "none"
  BY DEF Exhausted, Serving, Throw, bankVars
<1>2. Address \in Line BY <1>1, AtWork DEF Base
<1>3. lines[Address].lastWrite <= makespan /\ lines[Address].lastWrite \in Nat /\ makespan \in Nat
  BY <1>2, LineIs DEF Base, Sound, Dates, LinesDated
<1>4. PICK n \in Nat : n = MaxAttempts * Round
  <2>1. MaxAttempts \in Nat /\ Round \in Nat BY ReplayAssumption, RoundIs
  <2> QED BY <2>1
<1>5. MaxAttempts * Round <= lines[Address].lastWrite
  BY <1>1, ReplayAssumption DEF Going, Went
<1>6. MaxAttempts * Round <= makespan
  BY <1>3, <1>4, <1>5
<1> QED BY <1>1, <1>6 DEF Spent

LEMMA RoundsStep ==
  ASSUME Base, Whole, Rounds, [Next]_vars
  PROVE  Rounds'
<1> SUFFICES ASSUME stats'.migration = 0
             PROVE  (fault' = "none" => Going') /\ (fault' = "limit" => Spent')
  BY DEF Rounds
<1>0. Base' /\ Grows BY BaseStep, StepGrows
<1>1. /\ stats.migration = 0 /\ AllPlaced
      /\ fault = "none" => Going
      /\ fault = "limit" => Spent
  BY FailedStays DEF Rounds, Whole
<1>2. ASSUME fault' = "limit" PROVE Spent'
  <2>1. CASE Exhausted
    <3>1. fault = "none" BY <2>1 DEF Exhausted, Serving
    <3> QED BY <1>1, <2>1, <3>1, ExhaustedSpent
  <2>2. CASE ~Exhausted
    <3>1. Spent BY <1>1, <1>2, <2>2, LimitOnly
    <3>2. PICK n \in Nat : n = MaxAttempts * Round
      <4>1. MaxAttempts \in Nat /\ Round \in Nat BY ReplayAssumption, RoundIs
      <4> QED BY <4>1
    <3>3. makespan <= makespan' /\ makespan \in Nat /\ makespan' \in Nat
      <4>1. makespan \in Nat BY DEF Base, Sound
      <4>2. makespan' \in Nat BY <1>0 DEF Base, Sound
      <4> QED BY <1>0, <4>1, <4>2 DEF Grows
    <3>4. MaxAttempts * Round <= makespan' BY <3>1, <3>2, <3>3 DEF Spent
    <3> QED BY <3>4 DEF Spent
  <2> QED BY <2>1, <2>2
<1>3. ASSUME fault' = "none" PROVE Going'
  <2>1. CASE UNCHANGED vars \/ Report
    <3>1. UNCHANGED <<fault, lines, job, allocations, events, pos>>
      BY <2>1 DEF vars, memoryVars, traceVars, replayVars, Report
    <3> QED BY <1>1, <1>3, <3>1, SameGoing
  <2>2. CASE Load \/ Reject \/ Start
    <3>1. job = Idle /\ job' = job
      BY <2>2 DEF Load, Reject, Start, replayVars, Base, Typed
    <3>2. job'.op = "idle" BY <3>1 DEF Idle
    <3> QED BY <3>2, FreshGoing
  <2>3. CASE Allocate \/ Free \/ Hint \/ Access \/ Compute \/ Phase \/ Barrier
    BY <1>3, <2>3, BegunGoing
  <2>4. CASE Write \/ Read BY <1>3, <2>4, ServedGoing
  <2>5. CASE Promote
    <3>1. fault = "none" BY <2>5 DEF Promote, Maintenance, Serving
    <3> QED BY <1>0, <1>1, <2>5, <3>1, PromoteGoing
  <2>6. CASE Refresh
    <3>1. fault = "none" BY <2>6 DEF Refresh, Maintenance, Serving
    <3> QED BY <1>0, <1>1, <1>3, <2>6, <3>1, RefreshGoing
  <2>7. ~RefreshAfterPromotion BY <1>1 DEF RefreshAfterPromotion, Serving, Going
  <2>8. ~Exhausted BY <1>3 DEF Exhausted, Throw
  <2>9. CASE Migrate
    <3>1. fault = "none" BY <2>9 DEF Migrate, Serving
    <3>2. operation'.ok
      <4>1. ASSUME ~operation'.ok PROVE FALSE
        <5>1. stats' = Counted(operation'.failure, job.op = "promote", TRUE) /\ stats \in Statistics
          BY <1>3, <2>9, <4>1 DEF Migrate, Base, Typed
        <5>2. stats'.migration = stats.migration + 1 BY <5>1, CountedIs
        <5>3. stats.migration \in Nat BY <5>1 DEF Statistics
        <5> QED BY <1>1, <5>2, <5>3
      <4> QED BY <4>1
    <3> QED BY <1>0, <1>1, <1>3, <2>9, <3>1, <3>2, MigrateGoing
  <2> QED BY <2>1, <2>2, <2>3, <2>4, <2>5, <2>6, <2>7, <2>8, <2>9 DEF Next, Replay
<1> QED BY <1>2, <1>3

LEMMA InitRounds == Init => Rounds
<1> SUFFICES ASSUME Init PROVE Rounds OBVIOUS
<1>1. job.op = "idle" /\ fault = "none" BY DEF Init, MemoryInit, Idle
<1> QED BY <1>1 DEF Rounds, Going

\* Until a migration fails, the maintenance of a line reaches its limit only when the memory's
\* time has reached that many rounds, for every trace, profile, guard and limit.
THEOREM MaintenanceConvergesCorrect == Spec => []MaintenanceConverges
<1>1. Base /\ Whole /\ [Next]_vars => Whole'
  BY WholeStep
<1>2. Base /\ Whole /\ Rounds /\ [Next]_vars => Rounds'
  BY RoundsStep
<1>3. Rounds => MaintenanceConverges
  BY DEF Rounds, Spent, MaintenanceConverges
<1> QED BY <1>1, <1>2, <1>3, InitWhole, InitRounds, BaseInvariant, PTL DEF Spec

-----------------------------------------------------------------------------
(* The oracle is never late.  A replay that follows no hints, of one stream  *)
(* without ticks, keeps pace with the oracle's pass: no more time has gone   *)
(* by since a line was written than the pass has counted.                    *)

Quiet == policy \notin FollowsHints /\ error_mode = "Deterministic" /\ Serial /\ TickFree
Now == Time(ready, events[1].stream)

\* The class of every allocation of a buffer's id.
Chosen(b) ==
  CASE policy = "ephemeral" -> Ephemeral
    [] policy = "epoch" -> Epoch
    [] policy = "durable" -> Durable
    [] policy = "oracle" -> OracleClass(ages[b])

\* Some buffer's class does not hold its data as long as the pass says.
Outlived ==
  \E b \in Buffer : RetentionCycles[Chosen(b)] # kInfinite /\ ages[b] >= RetentionCycles[Chosen(b)]

\* Lines with data are written in the pass too, and at cycle now are not older than there.
Fits(o, now, table, lns) ==
  \A b \in DOMAIN table : table[b].resident =>
    \A k \in 0..(table[b].lines - 1) :
      LET rec == lns[table[b].base + k] IN
      rec.initialized => /\ ~rec.failed /\ k \in DOMAIN o.written[b]
                         /\ now - rec.lastWrite <= o.cycle - o.written[b][k]

Paced ==
  /\ DOMAIN ready \subseteq {events[1].stream} /\ makespan <= Now
  /\ job.op = "access" => job.completion = Now
  /\ \A p, t :
       Passing(events, p) /\ (job.op = "access" => Touching(p[pos - 1], Current, t)) =>
         Fits(IF job.op = "access" THEN t[job.line - FirstLine(Current)] ELSE p[pos - 1],
              Now, allocations, lines)

OnTime ==
  /\ stage \in {"load", "rejected"} =>
       /\ DOMAIN allocations = {} /\ DOMAIN ready = {} /\ makespan = 0
       /\ stats.expired = 0 /\ stats.migration = 0 /\ fault = "none"
  /\ stage \in {"replay", "done"} /\ Quiet =>
       /\ stats.migration = 0 /\ job.op \in {"idle", "access"}
       /\ \A b \in DOMAIN allocations : allocations[b].class = Chosen(b)
       /\ fault = "none" => OracleAges(events).valid
       /\ OracleAges(events).valid => ages = OracleAges(events).age
       /\ stats.expired > 0 => OracleAges(events).valid /\ Outlived
       /\ stats.expired = 0 /\ fault = "none" => Paced

LEMMA ChosenIs ==
  ASSUME Typed, policy \notin FollowsHints, NEW e \in TraceEvent
  PROVE  SelectedClass(e) = Chosen(e.buffer)
BY DEF Typed, Policy, FollowsHints, SelectedClass, Chosen

\* What a line of a buffer may go through while the pass goes from o to u.
Carries(o, u, then, table, lns, table2, lns2) ==
  \A b \in DOMAIN table2 : table2[b].resident =>
    \A k \in 0..(table2[b].lines - 1) :
      LET a == table2[b].base + k IN
      lns2[a].initialized =>
        \/ /\ b \in DOMAIN table /\ table[b].resident
           /\ table[b].base = table2[b].base /\ table[b].lines = table2[b].lines
           /\ lns[a].initialized /\ lns[a].lastWrite \in Nat
           /\ lns2[a].lastWrite = lns[a].lastWrite /\ lns2[a].failed = lns[a].failed
           /\ k \in DOMAIN o.written[b] =>
                k \in DOMAIN u.written[b] /\ u.written[b][k] = o.written[b][k]
        \/ /\ ~lns2[a].failed /\ lns2[a].lastWrite = then
           /\ k \in DOMAIN u.written[b] /\ u.written[b][k] = u.cycle

LEMMA FitsLater ==
  ASSUME NEW o \in OracleState, NEW u \in OracleState, NEW now \in Nat, NEW then \in Nat,
         then - now <= u.cycle - o.cycle, NEW table, NEW lns, NEW table2, NEW lns2,
         DOMAIN table \subseteq Buffer,
         Fits(o, now, table, lns), Carries(o, u, then, table, lns, table2, lns2)
  PROVE  Fits(u, then, table2, lns2)
<1> SUFFICES ASSUME NEW b \in DOMAIN table2, table2[b].resident,
                    NEW k \in 0..(table2[b].lines - 1), lns2[table2[b].base + k].initialized
             PROVE  /\ ~lns2[table2[b].base + k].failed /\ k \in DOMAIN u.written[b]
                    /\ then - lns2[table2[b].base + k].lastWrite <= u.cycle - u.written[b][k]
  BY DEF Fits
<1> DEFINE a == table2[b].base + k
<1>1. u.cycle \in Nat /\ o.cycle \in Nat BY DEF OracleState
<1>2. CASE /\ ~lns2[a].failed /\ lns2[a].lastWrite = then
           /\ k \in DOMAIN u.written[b] /\ u.written[b][k] = u.cycle
  BY <1>1, <1>2
<1>3. CASE /\ b \in DOMAIN table /\ table[b].resident
           /\ table[b].base = table2[b].base /\ table[b].lines = table2[b].lines
           /\ lns[a].initialized /\ lns[a].lastWrite \in Nat
           /\ lns2[a].lastWrite = lns[a].lastWrite /\ lns2[a].failed = lns[a].failed
           /\ k \in DOMAIN o.written[b] =>
                k \in DOMAIN u.written[b] /\ u.written[b][k] = o.written[b][k]
  <2>1. /\ ~lns[a].failed /\ k \in DOMAIN o.written[b]
        /\ now - lns[a].lastWrite <= o.cycle - o.written[b][k]
    BY <1>3 DEF Fits
  <2>2. o.written[b][k] \in Nat
    <3>1. o.written[b] \in Dated BY <1>3 DEF OracleState
    <3>2. o.written[b] \in [DOMAIN o.written[b] -> Nat] BY <3>1, DatedIs
    <3> QED BY <2>1, <3>2
  <2> QED BY <1>1, <1>3, <2>1, <2>2
<1> QED BY <1>2, <1>3 DEF Carries

\* One stream, without ticks: its clock stands where it stood.
LEMMA ClockIs ==
  ASSUME Typed, Serial, TickFree, pos <= Len(events), DOMAIN ready \subseteq {events[1].stream}
  PROVE  /\ Current.stream = events[1].stream /\ Current.tick = 0 /\ Now \in Nat
         /\ Clock = Now /\ DOMAIN Arrived = {Current.stream} /\ Arrived[Current.stream] = Now
         /\ Time(Arrived, events[1].stream) = Now
<1>1. Current \in TraceEvent /\ pos \in DOMAIN events BY CurrentIs
<1>2. Current.stream = events[1].stream /\ Current.tick = 0 BY <1>1 DEF Serial, TickFree, Current
<1>3. Now \in Nat BY KnowsIs DEF Now
<1>4. DOMAIN Arrived = {Current.stream} BY <1>2, ArrivedIs
<1>5. Arrived[Current.stream] = Later(Now, 0) BY <1>2 DEF Arrived, Put, Now, Time
<1>6. Later(Now, 0) = Now BY <1>3 DEF Later
<1>7. Clock = Now BY <1>5, <1>6 DEF Clock
<1> QED BY <1>2, <1>3, <1>4, <1>5, <1>6, <1>7 DEF Time

\* Nothing is waited for.
LEMMA NoWait ==
  ASSUME Typed, Sound, fault = "none", Serial, TickFree, pos <= Len(events),
         DOMAIN ready \subseteq {events[1].stream}, makespan <= Now
  PROVE  Max({AllReady(Arrived), BankReady}) = Now
<1> DEFINE T == {Arrived[k] : k \in DOMAIN Arrived}
<1>1. Now \in Nat /\ DOMAIN Arrived = {Current.stream} /\ Arrived[Current.stream] = Now BY ClockIs
<1>2. T = {Now} BY <1>1
<1>3. AllReady(Arrived) = Now
  <2>1. IsFiniteSet({Now}) /\ {Now} # {} /\ {Now} \subseteq Nat BY <1>1, FS_Singleton
  <2>2. Max({Now}) \in {Now} BY <2>1, MaxIs
  <2>3. AllReady(Arrived) = Max(T) BY DEF AllReady
  <2>4. Max(T) = Max({Now}) BY <1>2, Zenon
  <2> QED BY <2>2, <2>3, <2>4
<1>4. BankReady = makespan /\ makespan \in Nat
  BY SoundMemory, ReadyIsLast DEF MakespanExact, Sound
<1>5. /\ IsFiniteSet({Now, makespan}) /\ {Now, makespan} # {} /\ {Now, makespan} \subseteq Nat
  <2>1. IsFiniteSet({Now}) BY FS_Singleton
  <2>2. IsFiniteSet({Now} \cup {makespan}) BY <2>1, FS_AddElement
  <2>3. {Now, makespan} = {Now} \cup {makespan} OBVIOUS
  <2> QED BY <1>1, <1>4, <2>2, <2>3
<1>6. Max({Now, makespan}) \in {Now, makespan} /\ \A y \in {Now, makespan} : Max({Now, makespan}) >= y
  BY <1>5, MaxIs
<1>7. Max({Now, makespan}) = Now BY <1>1, <1>4, <1>6
<1> QED BY <1>3, <1>4, <1>7

\* Where the pass is before and after the event at hand.
LEMMA PassHere ==
  ASSUME Typed, pos <= Len(events), OracleAges(events).valid, NEW p, Passing(events, p)
  PROVE  /\ pos \in Nat \ {0} /\ pos \in 0..Len(events) /\ pos - 1 \in 0..Len(events)
         /\ Current \in TraceEvent /\ p[pos - 1] \in OracleState /\ p[pos] \in OracleState
         /\ p[pos] = OracleEvent(p[pos - 1], Current) /\ p[pos].valid
         /\ Onward(p[pos], OracleAges(events), Buffer)
<1>1. /\ pos \in Nat \ {0} /\ pos \in 0..Len(events) /\ pos - 1 \in 0..Len(events)
      /\ pos \in 1..Len(events) /\ events \in Seq(TraceEvent)
  BY DEF Typed
<1>2. p[pos - 1] \in OracleState /\ p[pos] \in OracleState /\ Onward(p[pos], OracleAges(events), Buffer)
  BY <1>1, PassingOnward
<1>3. p[pos] = OracleEvent(p[pos - 1], Current) BY <1>1 DEF Passing, Current
<1> QED BY <1>1, <1>2, <1>3, CurrentIs DEF Onward

\* An event that ends at once.
LEMMA BeginPaced ==
  ASSUME Base, Base', Quiet, Paced, job.op = "idle", pos <= Len(events), UNCHANGED traceVars,
         OracleAges(events).valid, job' = Idle, pos' = pos + 1,
         DOMAIN ready' \subseteq {events[1].stream}, makespan' <= Time(ready', events[1].stream),
         Time(ready', events[1].stream) - Now <= IF Current.kind = "COMPUTE" THEN Current.cycles ELSE 0,
         \A b \in DOMAIN allocations' : allocations'[b].resident =>
           \A k \in 0..(allocations'[b].lines - 1) :
             LET a == allocations'[b].base + k IN
             lines'[a].initialized =>
               /\ b \notin Redated(Current) /\ b \in DOMAIN allocations
               /\ allocations'[b] = allocations[b] /\ lines'[a] = lines[a] /\ a \in Line
  PROVE  Paced'
<1> DEFINE K == events[1].stream
           then == Time(ready', K)
<1>1. events' = events /\ job'.op = "idle" BY DEF traceVars, Idle
<1>2. Now \in Nat /\ then \in Nat
  <2>1. Now \in Nat BY KnowsIs DEF Now, Base
  <2>2. then \in Nat BY DEF Base, Typed, Time
  <2> QED BY <2>1, <2>2
<1>3. ASSUME NEW p, Passing(events, p) PROVE Fits(p[pos], then, allocations', lines')
  <2>1. /\ Current \in TraceEvent /\ p[pos - 1] \in OracleState /\ p[pos] \in OracleState
        /\ p[pos] = OracleEvent(p[pos - 1], Current)
    BY <1>3, PassHere DEF Base
  <2>2. /\ Onward(p[pos - 1], p[pos], Redated(Current))
        /\ Current.kind # "ACCESS" =>
             p[pos].cycle = p[pos - 1].cycle + (IF Current.kind = "COMPUTE" THEN Current.cycles ELSE 0)
    BY <2>1, OracleEventIs
  <2>3. then - Now <= p[pos].cycle - p[pos - 1].cycle
    <3>1. /\ p[pos].cycle \in Nat /\ p[pos - 1].cycle \in Nat /\ Current.cycles \in Nat
          /\ p[pos - 1].cycle <= p[pos].cycle
      BY <2>1, <2>2 DEF OracleState, TraceEvent, Onward
    <3> HIDE DEF then
    <3>2. then - Now <= IF Current.kind = "COMPUTE" THEN Current.cycles ELSE 0 BY DEF then
    <3>3. CASE Current.kind = "COMPUTE" BY <1>2, <2>2, <3>1, <3>2, <3>3
    <3>4. CASE Current.kind # "COMPUTE" BY <1>2, <2>2, <3>1, <3>2, <3>4
    <3> QED BY <3>3, <3>4
  <2>4. Fits(p[pos - 1], Now, allocations, lines) BY <1>3 DEF Paced
  <2>5. Carries(p[pos - 1], p[pos], then, allocations, lines, allocations', lines')
    <3> SUFFICES ASSUME NEW b \in DOMAIN allocations', allocations'[b].resident,
                        NEW k \in 0..(allocations'[b].lines - 1),
                        lines'[allocations'[b].base + k].initialized
                 PROVE  LET a == allocations'[b].base + k IN
                        /\ b \in DOMAIN allocations /\ allocations[b].resident
                        /\ allocations[b].base = allocations'[b].base
                        /\ allocations[b].lines = allocations'[b].lines
                        /\ lines[a].initialized /\ lines[a].lastWrite \in Nat
                        /\ lines'[a].lastWrite = lines[a].lastWrite /\ lines'[a].failed = lines[a].failed
                        /\ k \in DOMAIN p[pos - 1].written[b] =>
                             /\ k \in DOMAIN p[pos].written[b]
                             /\ p[pos].written[b][k] = p[pos - 1].written[b][k]
      BY DEF Carries
    <3> DEFINE a == allocations'[b].base + k
    <3>1. /\ b \notin Redated(Current) /\ b \in DOMAIN allocations
          /\ allocations'[b] = allocations[b] /\ lines'[a] = lines[a] /\ a \in Line
      OBVIOUS
    <3>2. lines[a].lastWrite \in Nat BY <3>1 DEF Base, Sound, LineState
    <3>3. b \in Buffer BY <3>1 DEF Base, Typed
    <3>4. p[pos].written[b] = p[pos - 1].written[b] BY <2>2, <3>1, <3>3 DEF Onward
    <3> HIDE DEF a
    <3> QED BY <3>1, <3>2, <3>4 DEF a
  <2>6. DOMAIN allocations \subseteq Buffer BY DEF Base, Typed
  <2> HIDE DEF then
  <2> QED BY <1>2, <2>1, <2>3, <2>4, <2>5, <2>6, FitsLater
<1>4. pos' - 1 = pos BY DEF Base, Typed
<1> HIDE DEF then
<1> QED BY <1>1, <1>3, <1>4 DEF Paced, Now, then

\* An access begins.
LEMMA AccessPaced ==
  ASSUME Base, Base', Quiet, Paced, job.op = "idle", pos <= Len(events), UNCHANGED traceVars,
         pos' = pos, ready' = Arrived, UNCHANGED <<lines, allocations, makespan>>,
         job' = [Idle EXCEPT !.op = "access", !.line = FirstLine(Current), !.completion = Clock]
  PROVE  Paced'
<1>0. DOMAIN ready \subseteq {events[1].stream} /\ makespan <= Now BY DEF Paced
<1>1. /\ Now \in Nat /\ Clock = Now /\ DOMAIN Arrived = {Current.stream}
      /\ Current.stream = events[1].stream /\ Time(Arrived, events[1].stream) = Now
      /\ Current \in TraceEvent
  BY <1>0, ClockIs, CurrentIs DEF Base, Quiet
<1>2. PICK n \in Nat : n = FirstLine(Current) BY <1>1, CountIs
<1>3. job'.op = "access" /\ job'.line = n /\ job'.completion = Now
  <2>1. job' = [Idle EXCEPT !.op = "access", !.line = n, !.completion = Now] BY <1>1, <1>2
  <2> QED BY <2>1 DEF Idle
<1>4. events' = events /\ events'[pos'] = Current BY DEF traceVars, Current
<1>5. Time(ready', events[1].stream) = Now BY <1>1
<1>6. ASSUME NEW p, NEW t, Passing(events, p), Touching(p[pos - 1], Current, t)
      PROVE  Fits(t[job'.line - FirstLine(Current)], Now, allocations, lines)
  <2>1. t[0] = p[pos - 1] BY <1>6 DEF Touching
  <2>2. job'.line - FirstLine(Current) = 0 BY <1>2, <1>3
  <2>3. Fits(p[pos - 1], Now, allocations, lines) BY <1>6 DEF Paced
  <2>4. t[job'.line - FirstLine(Current)] = t[0] BY <2>2
  <2> QED BY <2>1, <2>3, <2>4
<1> QED BY <1>0, <1>1, <1>3, <1>4, <1>5, <1>6 DEF Paced, Now, Current

\* What a step of the replay has to keep.
Advance ==
  /\ stats'.migration = 0 /\ job'.op \in {"idle", "access"}
  /\ \A b \in DOMAIN allocations' : allocations'[b].class = Chosen(b)
  /\ stats'.expired = stats.expired \/ Outlived
  /\ stats'.expired = 0 /\ fault' = "none" => Paced'

\* What holds while it goes on.
Goes ==
  /\ Quiet /\ fault = "none" /\ stats.migration = 0 /\ job.op \in {"idle", "access"}
  /\ \A b \in DOMAIN allocations : allocations[b].class = Chosen(b)
  /\ OracleAges(events).valid /\ ages = OracleAges(events).age
  /\ stats.expired = 0 => Paced

\* Nothing changes but the fault, or the failures counted.
LEMMA StopAdvance ==
  ASSUME Goes, UNCHANGED <<stats, job, allocations>>, fault' # "none"
  PROVE  Advance
BY DEF Goes, Advance

LEMMA AllocatedClass ==
  ASSUME Typed, Allocate, ~Known, policy \notin FollowsHints
  PROVE  allocations'[Current.buffer].class = Chosen(Current.buffer)
<1> DEFINE c == SelectedClass(Current)
           n == AlignedLines(Current.size)
           tried == Tried(c)
           fitting == {x \in tried : CanFit(x, n)}
           class == IF fitting = {} THEN Max(tried) ELSE Min(fitting)
<1>1. Current \in TraceEvent BY CurrentIs DEF Allocate, Begins
<1>2. c \in Nat
  <2>1. c \in Class BY <1>1, TriedIs
  <2> QED BY <2>1 DEF Class, Ephemeral, Epoch, Durable
<1>3. tried = {c} BY DEF Tried, FollowsHints
<1>4. class = c
  <2>1. IsFiniteSet({c}) /\ {c} # {} /\ {c} \subseteq Nat BY <1>2, FS_Singleton
  <2> HIDE DEF c
  <2>2. Max({c}) \in {c} /\ Min({c}) \in {c} BY <2>1, MaxIs, MinIs
  <2>3. CASE fitting = {}
    <3>1. class = Max(tried) BY <2>3
    <3>2. Max(tried) = Max({c}) BY <1>3, Zenon
    <3> QED BY <2>2, <3>1, <3>2
  <2>4. CASE fitting # {}
    <3>1. class = Min(fitting) BY <2>4
    <3>2. fitting = {c}
      <4> HIDE DEF tried
      <4> QED BY <1>3, <2>4
    <3>3. Min(fitting) = Min({c}) BY <3>2, Zenon
    <3> QED BY <2>2, <3>1, <3>3
  <2> QED BY <2>3, <2>4
<1>5. \E base, fits : allocations' = Put(allocations, Current.buffer,
                        [base |-> base, size |-> Current.size, lines |-> n,
                         class |-> class, resident |-> fits])
  BY DEF Allocate
<1> HIDE DEF class
<1>6. allocations'[Current.buffer].class = class BY <1>5 DEF Put
<1> HIDE DEF c
<1>7. c = Chosen(Current.buffer) BY <1>1, ChosenIs DEF c
<1> QED BY <1>4, <1>6, <1>7

\* The counts that a refusal leaves alone.
LEMMA RefusalIs ==
  ASSUME stats \in Statistics,
         \/ stats' = stats
         \/ stats' = [stats EXCEPT !.unsafe = @ + 1, !.allocation = @ + 1]
         \/ stats' = [stats EXCEPT !.unsafe = @ + 1, !.rejected = @ + 1]
  PROVE  stats'.migration = stats.migration /\ stats'.expired = stats.expired
<1>1. CASE stats' = [stats EXCEPT !.unsafe = @ + 1, !.allocation = @ + 1] BY <1>1 DEF Statistics
<1>2. CASE stats' = [stats EXCEPT !.unsafe = @ + 1, !.rejected = @ + 1] BY <1>2 DEF Statistics
<1> QED BY <1>1, <1>2

LEMMA AllocateAdvance ==
  ASSUME Base, Base', Goes, Allocate, ~Known
  PROVE  Advance
<1>1. PICK base \in Nat, n \in Nat \ {0}, class \in Class, fits \in BOOLEAN :
        base >= nextBase /\ Placing(base, n, class, fits)
  BY AllocateIs DEF Base
<1>2. /\ job.op = "idle" /\ pos <= Len(events) /\ Current.kind = "ALLOC" /\ fault = "none"
  BY DEF Allocate, Begins
<1> DEFINE b == Current.buffer
           new == Lines(base, n)
<1>3. /\ DOMAIN allocations' = DOMAIN allocations \cup {b}
      /\ allocations'[b].base = base /\ allocations'[b].lines = n /\ allocations'[b].resident = fits
      /\ \A c \in DOMAIN allocations : c # b /\ allocations'[c] = allocations[c]
      /\ job' = Idle /\ pos' = pos + 1 /\ UNCHANGED traceVars /\ ready' = Arrived
  BY <1>1 DEF Placing, Put, Known
<1>4. nextBase \in Nat BY DEF Base, Typed
<1>5. /\ fits => /\ new \subseteq Line
                 /\ lines' = [l \in Line |-> IF l \in new THEN Fresh(class) ELSE lines[l]]
      /\ ~fits => lines' = lines
      /\ fault' = fault /\ makespan' = makespan
  BY <1>1, <1>2, <1>4, ReserveIs DEF Placing, memoryVars, bankVars, Base, Reserve
<1>6. stats'.migration = stats.migration /\ stats'.expired = stats.expired
  BY <1>1, RefusalIs DEF Placing, Base, Typed
<1>7. \A c \in DOMAIN allocations' : allocations'[c].class = Chosen(c)
  BY <1>3, AllocatedClass DEF Goes, Base, Quiet
<1>8. ASSUME stats.expired = 0 PROVE Paced'
  <2>1. Paced /\ Quiet /\ OracleAges(events).valid BY <1>8 DEF Goes
  <2>2. DOMAIN ready \subseteq {events[1].stream} /\ makespan <= Now BY <2>1 DEF Paced
  <2>3. /\ Now \in Nat /\ DOMAIN Arrived = {Current.stream}
        /\ Current.stream = events[1].stream /\ Time(Arrived, events[1].stream) = Now
    BY <1>2, <2>1, <2>2, ClockIs DEF Base, Quiet
  <2>4. DOMAIN ready' \subseteq {events[1].stream} /\ Time(ready', events[1].stream) = Now
    BY <1>3, <2>3
  <2>5. ASSUME NEW c \in DOMAIN allocations', allocations'[c].resident,
               NEW k \in 0..(allocations'[c].lines - 1),
               lines'[allocations'[c].base + k].initialized
        PROVE  LET a == allocations'[c].base + k IN
               /\ c \notin Redated(Current) /\ c \in DOMAIN allocations
               /\ allocations'[c] = allocations[c] /\ lines'[a] = lines[a] /\ a \in Line
    <3> DEFINE a == allocations'[c].base + k
    <3>1. CASE c = b
      <4>1. fits /\ a \in new BY <1>3, <2>5, <3>1 DEF Lines
      <4>2. lines'[a] = Fresh(class) BY <1>5, <4>1
      <4>3. ~Fresh(class).initialized BY DEF Fresh, Gone
      <4> QED BY <2>5, <4>2, <4>3
    <3>2. CASE c # b
      <4>1. c \in DOMAIN allocations /\ allocations'[c] = allocations[c] BY <1>3, <3>2
      <4>2. /\ allocations[c].base \in Nat /\ allocations[c].lines \in Nat
            /\ allocations[c].resident /\ LinesIn(c) \subseteq Line
            /\ allocations[c].base + allocations[c].lines <= nextBase
        BY <2>5, <4>1, PlacedIs DEF Base, Laid
      <4>3. a \in LinesIn(c) /\ a < base BY <1>1, <1>4, <2>5, <4>1, <4>2 DEF LinesIn, Lines
      <4>4. a \in Line /\ a \notin new BY <4>2, <4>3 DEF Lines
      <4>5. lines'[a] = lines[a] BY <1>5, <4>4
      <4>6. c \notin Redated(Current) BY <3>2 DEF Redated
      <4> HIDE DEF a
      <4> QED BY <4>1, <4>4, <4>5, <4>6 DEF a
    <3> QED BY <3>1, <3>2
  <2>6. Time(ready', events[1].stream) - Now <= IF Current.kind = "COMPUTE" THEN Current.cycles ELSE 0
    BY <1>2, <2>3, <2>4
  <2>7. makespan' <= Time(ready', events[1].stream) BY <1>5, <2>2, <2>4
  <2> QED BY <1>2, <1>3, <2>1, <2>4, <2>5, <2>6, <2>7, BeginPaced
<1> QED BY <1>3, <1>6, <1>7, <1>8 DEF Advance, Goes, Idle

LEMMA FreeAdvance ==
  ASSUME Base, Base', Goes, Free, Known
  PROVE  Advance
<1> DEFINE b == Current.buffer
<1>1. /\ DOMAIN allocations' = DOMAIN allocations \ {b}
      /\ \A c \in DOMAIN allocations' : allocations'[c] = allocations[c]
      /\ \A l \in Line : lines'[l] = IF Allocation.resident /\ l \in LinesIn(b) THEN Gone ELSE lines[l]
      /\ job' = Idle /\ fault' = "none" /\ stats' = stats
  BY FreeIs DEF Base
<1>2. /\ job.op = "idle" /\ pos <= Len(events) /\ Current.kind = "FREE" /\ fault = "none"
      /\ UNCHANGED traceVars /\ pos' = pos + 1 /\ makespan' = makespan
  BY DEF Free, Begins, Ends, Release, memoryVars, bankVars
<1>3. ASSUME stats.expired = 0 PROVE Paced'
  <2>1. Paced /\ Quiet /\ OracleAges(events).valid BY <1>3 DEF Goes
  <2>2. DOMAIN ready \subseteq {events[1].stream} /\ makespan <= Now BY <2>1 DEF Paced
  <2>3. /\ Now \in Nat /\ DOMAIN Arrived = {Current.stream}
        /\ Current.stream = events[1].stream /\ Time(Arrived, events[1].stream) = Now
    BY <1>2, <2>1, <2>2, ClockIs DEF Base, Quiet
  <2>4. DOMAIN ready' \subseteq {events[1].stream} /\ Time(ready', events[1].stream) = Now
    <3>1. CASE Allocation.resident
      <4>1. Max({AllReady(Arrived), BankReady}) = Now BY <1>2, <2>1, <2>2, NoWait DEF Base, Quiet
      <4>2. ready' = [k \in DOMAIN Arrived |-> Now] BY <3>1, <4>1 DEF Free, StampAll
      <4> QED BY <2>3, <4>2 DEF Time
    <3>2. CASE ~Allocation.resident
      <4>1. ready' = Arrived BY <3>2 DEF Free
      <4> QED BY <2>3, <4>1
    <3> QED BY <3>1, <3>2
  <2>5. ASSUME NEW c \in DOMAIN allocations', allocations'[c].resident,
               NEW k \in 0..(allocations'[c].lines - 1),
               lines'[allocations'[c].base + k].initialized
        PROVE  LET a == allocations'[c].base + k IN
               /\ c \notin Redated(Current) /\ c \in DOMAIN allocations
               /\ allocations'[c] = allocations[c] /\ lines'[a] = lines[a] /\ a \in Line
    <3> DEFINE a == allocations'[c].base + k
    <3>1. c \in DOMAIN allocations /\ c # b /\ allocations[c].resident /\ allocations'[c] = allocations[c]
      BY <1>1, <2>5
    <3>2. a \in LinesIn(c) /\ a \in Line
      <4>1. k \in Nat /\ k < allocations[c].lines
        <5>1. allocations[c].lines \in Nat BY <3>1, PlacedIs DEF Base
        <5> QED BY <3>1, <5>1
      <4> QED BY <3>1, <4>1, InPlace DEF Base
    <3>3. Allocation.resident => a \notin LinesIn(b)
      BY <3>1, <3>2 DEF Base, Laid, Known, Allocation
    <3>4. lines'[a] = lines[a] BY <1>1, <3>2, <3>3
    <3>5. c \notin Redated(Current) BY <3>1 DEF Redated
    <3> HIDE DEF a
    <3> QED BY <3>1, <3>2, <3>4, <3>5 DEF a
  <2>6. Time(ready', events[1].stream) - Now <= IF Current.kind = "COMPUTE" THEN Current.cycles ELSE 0
    BY <1>2, <2>3, <2>4
  <2>7. makespan' <= Time(ready', events[1].stream) BY <1>2, <2>2, <2>4
  <2> QED BY <1>1, <1>2, <2>1, <2>4, <2>5, <2>6, <2>7, BeginPaced
<1> QED BY <1>1, <1>3 DEF Advance, Goes, Idle

\* An event that leaves the memory as it is.
LEMMA SameAdvance ==
  ASSUME Base, Base', Goes, job.op = "idle", pos <= Len(events), job' = Idle, pos' = pos + 1,
         UNCHANGED <<lines, makespan, allocations, traceVars>>,
         stats'.migration = stats.migration, stats'.expired = stats.expired,
         \A b \in Redated(Current) : b \in DOMAIN allocations => ~allocations[b].resident,
         stats.expired = 0 =>
           /\ DOMAIN ready' \subseteq {events[1].stream} /\ Time(ready', events[1].stream) \in Nat
           /\ Now <= Time(ready', events[1].stream)
           /\ Time(ready', events[1].stream) - Now <= IF Current.kind = "COMPUTE" THEN Current.cycles ELSE 0
  PROVE  Advance
<1>1. ASSUME stats.expired = 0 PROVE Paced'
  <2>1. Paced /\ Quiet /\ OracleAges(events).valid BY <1>1 DEF Goes
  <2>2. makespan <= Now /\ makespan \in Nat /\ Now \in Nat
    BY <2>1, KnowsIs DEF Paced, Base, Sound, Now
  <2>3. makespan' <= Time(ready', events[1].stream) BY <1>1, <2>2
  <2>4. ASSUME NEW c \in DOMAIN allocations', allocations'[c].resident,
               NEW k \in 0..(allocations'[c].lines - 1)
        PROVE  LET a == allocations'[c].base + k IN
               /\ c \notin Redated(Current) /\ c \in DOMAIN allocations
               /\ allocations'[c] = allocations[c] /\ lines'[a] = lines[a] /\ a \in Line
    <3>1. c \in DOMAIN allocations /\ allocations[c].resident /\ allocations'[c] = allocations[c]
      BY <2>4
    <3>2. k \in Nat /\ k < allocations[c].lines
      <4>1. allocations[c].lines \in Nat BY <3>1, PlacedIs DEF Base
      <4> QED BY <2>4, <3>1, <4>1
    <3>3. allocations[c].base + k \in Line BY <3>1, <3>2, InPlace DEF Base
    <3> QED BY <3>1, <3>3
  <2>5. /\ DOMAIN ready' \subseteq {events[1].stream}
        /\ Time(ready', events[1].stream) - Now <= IF Current.kind = "COMPUTE" THEN Current.cycles ELSE 0
        /\ UNCHANGED traceVars
    BY <1>1
  <2> QED BY <2>1, <2>3, <2>4, <2>5, BeginPaced
<1> QED BY <1>1 DEF Advance, Goes, Idle

\* What a stream's clock becomes.
LEMMA ArrivedPaced ==
  ASSUME Base, Goes, stats.expired = 0, pos <= Len(events)
  PROVE  /\ Now \in Nat /\ DOMAIN Arrived = {events[1].stream} /\ Current.stream = events[1].stream
         /\ Clock = Now /\ Time(Arrived, events[1].stream) = Now
         /\ fault = "none" => Max({AllReady(Arrived), BankReady}) = Now
<1>1. Quiet /\ DOMAIN ready \subseteq {events[1].stream} /\ makespan <= Now BY DEF Goes, Paced
<1>2. /\ Now \in Nat /\ DOMAIN Arrived = {Current.stream} /\ Current.stream = events[1].stream
      /\ Clock = Now /\ Time(Arrived, events[1].stream) = Now
  BY <1>1, ClockIs DEF Base, Quiet
<1>3. fault = "none" => Max({AllReady(Arrived), BankReady}) = Now BY <1>1, NoWait DEF Base, Quiet
<1> QED BY <1>2, <1>3

LEMMA HintAdvance ==
  ASSUME Base, Base', Goes, Hint, Known
  PROVE  Advance
<1>1. /\ job.op = "idle" /\ pos <= Len(events) /\ Current.kind = "HINT"
      /\ policy \notin FollowsHints
  BY DEF Hint, Begins, Goes, Quiet
<1>2. /\ ready' = Arrived /\ UNCHANGED <<lines, makespan, allocations, traceVars>>
      /\ job' = Idle /\ pos' = pos + 1 /\ stats' = stats
  BY <1>1 DEF Hint, Ends, memoryVars, bankVars
<1>3. Redated(Current) = {} BY <1>1 DEF Redated
<1>4. ASSUME stats.expired = 0
      PROVE  /\ DOMAIN ready' \subseteq {events[1].stream} /\ Time(ready', events[1].stream) = Now
             /\ Now \in Nat
  BY <1>1, <1>2, <1>4, ArrivedPaced
<1>5. \A n \in Nat : n <= n /\ n - n <= 0 OBVIOUS
<1> QED BY <1>1, <1>2, <1>3, <1>4, <1>5, SameAdvance

LEMMA PhaseAdvance ==
  ASSUME Base, Base', Goes, Phase \/ Barrier
  PROVE  Advance
<1>1. /\ job.op = "idle" /\ pos <= Len(events) /\ Current.kind \in {"PHASE", "BARRIER"}
      /\ fault = "none"
  BY DEF Phase, Barrier, Begins
<1>2. /\ ready' = Arrived \/ ready' = [k \in DOMAIN Arrived |-> Max({AllReady(Arrived), BankReady})]
      /\ UNCHANGED <<lines, makespan, allocations, traceVars>>
      /\ job' = Idle /\ pos' = pos + 1 /\ stats' = stats
  BY DEF Phase, Barrier, StampAll, Ends, memoryVars, bankVars
<1>3. Redated(Current) = {} BY <1>1 DEF Redated
<1>4. ASSUME stats.expired = 0
      PROVE  /\ DOMAIN ready' \subseteq {events[1].stream} /\ Time(ready', events[1].stream) = Now
             /\ Now \in Nat
  <2>1. /\ Now \in Nat /\ DOMAIN Arrived = {events[1].stream}
        /\ Time(Arrived, events[1].stream) = Now /\ Max({AllReady(Arrived), BankReady}) = Now
    BY <1>1, <1>4, ArrivedPaced
  <2>2. CASE ready' = Arrived BY <2>1, <2>2
  <2>3. CASE ready' = [k \in DOMAIN Arrived |-> Max({AllReady(Arrived), BankReady})]
    BY <2>1, <2>3 DEF Time
  <2> QED BY <1>2, <2>2, <2>3
<1>5. \A n \in Nat : n <= n /\ n - n <= 0 OBVIOUS
<1>6. Current.kind # "COMPUTE" BY <1>1
<1> QED BY <1>1, <1>2, <1>3, <1>4, <1>5, <1>6, SameAdvance

LEMMA ComputeAdvance ==
  ASSUME Base, Base', Goes, Compute
  PROVE  Advance
<1>1. /\ job.op = "idle" /\ pos <= Len(events) /\ Current.kind = "COMPUTE"
  BY DEF Compute, Begins
<1>2. /\ ready' = [Arrived EXCEPT ![Current.stream] = Later(@, Clock + Current.cycles)]
      /\ UNCHANGED <<lines, makespan, allocations, traceVars>>
      /\ job' = Idle /\ pos' = pos + 1 /\ stats' = stats
  BY DEF Compute, Stamp, Ends, memoryVars, bankVars
<1>3. Redated(Current) = {} BY <1>1 DEF Redated
<1>4. ASSUME stats.expired = 0
      PROVE  /\ DOMAIN ready' \subseteq {events[1].stream}
             /\ Time(ready', events[1].stream) = Now + Current.cycles
             /\ Now \in Nat /\ Current.cycles \in Nat
  <2>1. /\ Now \in Nat /\ DOMAIN Arrived = {events[1].stream} /\ Current.stream = events[1].stream
        /\ Time(Arrived, events[1].stream) = Now /\ Clock = Now
    BY <1>1, <1>4, ArrivedPaced
  <2>2. Current.cycles \in Nat BY <1>1, CurrentIs DEF Base, TraceEvent
  <2>3. DOMAIN ready' = DOMAIN Arrived BY <1>2
  <2>4. ready'[events[1].stream] = Later(Arrived[events[1].stream], Now + Current.cycles)
    BY <1>2, <2>1
  <2>5. Arrived[events[1].stream] = Now BY <2>1 DEF Time
  <2>6. Later(Now, Now + Current.cycles) = Now + Current.cycles BY <2>1, <2>2 DEF Later
  <2> QED BY <2>1, <2>2, <2>3, <2>4, <2>5, <2>6 DEF Time
<1>5. \A n, m \in Nat : n + m \in Nat /\ n <= n + m /\ n + m - n <= m OBVIOUS
<1> QED BY <1>1, <1>2, <1>3, <1>4, <1>5, SameAdvance

LEMMA AccessAdvance ==
  ASSUME Base, Base', Goes, Access, Known, InBounds(Current, Allocation.size)
  PROVE  Advance
<1>1. /\ job.op = "idle" /\ pos <= Len(events) /\ Current.kind = "ACCESS" /\ fault = "none"
  BY DEF Access, Begins
<1>2. ready' = Arrived /\ UNCHANGED <<lines, makespan, fault, allocations, traceVars>>
  BY DEF Access, memoryVars, bankVars
<1>3. CASE Allocation.resident
  <2>1. /\ job' = [Idle EXCEPT !.op = "access", !.line = FirstLine(Current), !.completion = Clock]
        /\ pos' = pos /\ stats' = stats
    BY <1>3 DEF Access
  <2>2. job'.op = "access"
    <3>1. PICK n, t : n = FirstLine(Current) /\ t = Clock OBVIOUS
    <3>2. job' = [Idle EXCEPT !.op = "access", !.line = n, !.completion = t] BY <2>1, <3>1
    <3> QED BY <3>2 DEF Idle
  <2>3. stats.expired = 0 => Paced' BY <1>1, <1>2, <2>1, AccessPaced DEF Goes
  <2> QED BY <1>2, <2>1, <2>2, <2>3 DEF Advance, Goes
<1>4. CASE ~Allocation.resident
  <2>1. /\ job' = Idle /\ pos' = pos + 1
        /\ stats' = [stats EXCEPT !.unsafe = @ + 1, !.rejected = @ + 1]
    BY <1>4 DEF Access, Ends
  <2>2. stats'.migration = stats.migration /\ stats'.expired = stats.expired
    BY <2>1, RefusalIs DEF Base, Typed
  <2>3. \A b \in Redated(Current) : b \in DOMAIN allocations => ~allocations[b].resident
    BY <1>1, <1>4 DEF Redated, Allocation
  <2>4. ASSUME stats.expired = 0
        PROVE  /\ DOMAIN ready' \subseteq {events[1].stream} /\ Time(ready', events[1].stream) = Now
               /\ Now \in Nat
    BY <1>1, <1>2, <2>4, ArrivedPaced
  <2>5. \A n \in Nat : n <= n /\ n - n <= 0 OBVIOUS
  <2> QED BY <1>1, <1>2, <2>1, <2>2, <2>3, <2>4, <2>5, SameAdvance
<1> QED BY <1>3, <1>4

\* The line an access is at.
LEMMA ServeHere ==
  ASSUME Base, Whole, Goes, job.op = "access"
  PROVE  /\ pos <= Len(events) /\ Current \in TraceEvent /\ Current.kind = "ACCESS"
         /\ Current.buffer \in DOMAIN allocations /\ Allocation.resident
         /\ Address \in Line /\ Address = Allocation.base + job.line
         /\ job.line \in Nat /\ job.line \in 0..(Allocation.lines - 1) /\ Allocation.base \in Nat
         /\ job.line - FirstLine(Current) \in 0..(Count(Current) - 1)
         /\ job.line - FirstLine(Current) + 1 \in 1..Count(Current)
         /\ job.line = LastLine(Current) <=> job.line - FirstLine(Current) + 1 = Count(Current)
         /\ lines[Address].present /\ lines[Address].class \in Class
         /\ lines[Address].class = Allocation.class /\ Allocation.class = Chosen(Current.buffer)
<1>1. /\ pos <= Len(events) /\ Current \in TraceEvent /\ Current.kind = "ACCESS"
      /\ Current.buffer \in DOMAIN allocations /\ Allocation.resident
      /\ InBounds(Current, Allocation.size) /\ job.line \in FirstLine(Current)..LastLine(Current)
      /\ Address \in LinesIn(Current.buffer) /\ Address \in Line
  BY AtWork DEF Base, Working, Known
<1>2. /\ Allocation.size \in Nat /\ Allocation.lines \in Nat /\ Allocation.base \in Nat
      /\ Allocation.lines = AlignedLines(Allocation.size)
  BY <1>1, PlacedIs DEF Base, Laid, Allocation
<1>3. /\ FirstLine(Current) \in Nat /\ LastLine(Current) \in Nat
      /\ LastLine(Current) < Allocation.lines
  BY <1>1, <1>2, AccessLines
<1>4. lines[Address].present /\ lines[Address].class = Allocation.class
  BY <1>1 DEF Whole, Goes, AllPlaced, ClassOf, Moving, Allocation
<1>5. lines[Address].class \in Class BY <1>1, LineIs DEF Base
<1>6. Allocation.class = Chosen(Current.buffer) BY <1>1 DEF Goes, Allocation
<1>7. Count(Current) = LastLine(Current) - FirstLine(Current) + 1 BY DEF Count
<1>8. Address = Allocation.base + job.line BY DEF Address
<1>9. PICK f \in Nat, z \in Nat, j \in Nat :
        /\ f = FirstLine(Current) /\ z = LastLine(Current) /\ j = job.line
        /\ f <= j /\ j <= z /\ z < Allocation.lines
  BY <1>1, <1>3
<1>10. /\ job.line \in Nat /\ job.line \in 0..(Allocation.lines - 1)
       /\ job.line - FirstLine(Current) \in 0..(Count(Current) - 1)
       /\ job.line - FirstLine(Current) + 1 \in 1..Count(Current)
       /\ job.line = LastLine(Current) <=> job.line - FirstLine(Current) + 1 = Count(Current)
  BY <1>2, <1>7, <1>9
<1> QED BY <1>1, <1>2, <1>4, <1>5, <1>6, <1>8, <1>10

\* No command waits.
LEMMA StartsNow ==
  ASSUME Base, fault = "none", Paced, job.op = "access", NEW c \in Class
  PROVE  EarliestStart(c, job.completion) = Now /\ job.completion = Now /\ Now \in Nat
<1>1. job.completion = Now /\ makespan <= Now BY DEF Paced
<1>2. Now \in Nat BY KnowsIs DEF Base, Now
<1>3. IInv /\ makespan \in Nat BY SoundMemory DEF Base, Sound
<1>4. Soonest(c) \in 1..Channels[c] BY <1>3, SoonestIsFirst DEF IInv
<1>5. channelReady[c][Soonest(c)] \in Nat /\ channelReady[c][Soonest(c)] <= makespan
  BY <1>3, <1>4 DEF IInv, MemoryTypeOK, LastChannel
<1>6. channelReady[c][Soonest(c)] <= Now BY <1>1, <1>2, <1>3, <1>5
<1> QED BY <1>1, <1>2, <1>5, <1>6 DEF EarliestStart, Later

\* The pass over the access at hand, line by line.
LEMMA TouchHere ==
  ASSUME Base, pos <= Len(events), OracleAges(events).valid, Current.kind = "ACCESS",
         NEW p, Passing(events, p)
  PROVE  \E t : Touching(p[pos - 1], Current, t) /\ p[pos] = t[Count(Current)]
<1>1. /\ Current \in TraceEvent /\ p[pos - 1] \in OracleState
      /\ p[pos] = OracleEvent(p[pos - 1], Current) /\ p[pos].valid
  BY PassHere DEF Base
<1> QED BY <1>1, OracleEventIs

LEMMA StepHere ==
  ASSUME NEW s \in OracleState, NEW e \in TraceEvent, NEW t, Touching(s, e, t),
         NEW i \in 0..(Count(e) - 1)
  PROVE  /\ i + 1 \in 1..Count(e) /\ i \in 0..Count(e) /\ i + 1 \in 0..Count(e)
         /\ t[i] \in OracleState /\ t[i + 1] \in OracleState
         /\ t[i + 1] = OracleTouch(t[i], e, FirstLine(e) + i)
         /\ Onward(t[i], t[Count(e)], IF e.write THEN {e.buffer} ELSE {})
         /\ Onward(t[i + 1], t[Count(e)], IF e.write THEN {e.buffer} ELSE {})
<1>1. Count(e) \in Nat \ {0} /\ FirstLine(e) \in Nat BY CountIs
<1>2. i + 1 \in 1..Count(e) /\ i \in 0..Count(e) /\ i + 1 \in 0..Count(e) /\ Count(e) \in i..Count(e)
      /\ Count(e) \in (i + 1)..Count(e)
  BY <1>1
<1>3. t[i + 1] = OracleTouch(t[i + 1 - 1], e, FirstLine(e) + (i + 1) - 1)
  <2>1. \A j \in 1..Count(e) : t[j] = OracleTouch(t[j - 1], e, FirstLine(e) + j - 1) BY DEF Touching
  <2> QED BY <1>2, <2>1
<1>4. i + 1 - 1 = i /\ FirstLine(e) + (i + 1) - 1 = FirstLine(e) + i BY <1>1
<1>5. t[i + 1] = OracleTouch(t[i], e, FirstLine(e) + i) BY <1>3, <1>4
<1> QED BY <1>2, <1>5, TouchingOnward

\* A line was served: the replay keeps pace.
LEMMA ServedPaced ==
  ASSUME Base, Base', Whole, Goes, stats.expired = 0, job.op = "access", AccessedLine, operation'.ok,
         NEW then \in Nat, operation'.completion = then, Now <= then, makespan' <= then,
         UNCHANGED <<allocations, traceVars>>,
         \A p, t : Passing(events, p) /\ Touching(p[pos - 1], Current, t) =>
                     Fits(t[job.line - FirstLine(Current) + 1], then, allocations, lines')
  PROVE  Paced'
<1>1. Paced /\ OracleAges(events).valid BY DEF Goes
<1>2. job.completion = Now /\ DOMAIN ready \subseteq {events[1].stream} BY <1>1 DEF Paced
<1>3. Now \in Nat BY KnowsIs DEF Base, Now
<1>4. /\ pos <= Len(events) /\ Current \in TraceEvent /\ Current.kind = "ACCESS"
      /\ job.line = LastLine(Current) <=> job.line - FirstLine(Current) + 1 = Count(Current)
      /\ job.line \in Nat
  BY ServeHere
<1>5. Current.stream \in DOMAIN ready BY AtWork DEF Base
<1>6. Later(job.completion, operation'.completion) = then BY <1>2, <1>3 DEF Later
<1>7. ready' = [ready EXCEPT ![Current.stream] = then] BY <1>6 DEF AccessedLine
<1>8. DOMAIN ready' \subseteq {events[1].stream} /\ Time(ready', events[1].stream) = then
  BY <1>2, <1>5, <1>7 DEF Time
<1>9. events' = events BY DEF traceVars
<1>10. CASE job.line = LastLine(Current)
  <2>1. pos' = pos + 1 /\ job' = Idle BY <1>10 DEF AccessedLine, Ends
  <2>2. job'.op = "idle" BY <2>1 DEF Idle
  <2>3. pos' - 1 = pos BY <2>1 DEF Base, Typed
  <2>4. ASSUME NEW p, Passing(events, p) PROVE Fits(p[pos], then, allocations, lines')
    <3>1. PICK t : Touching(p[pos - 1], Current, t) /\ p[pos] = t[Count(Current)]
      BY <1>1, <1>4, <2>4, TouchHere
    <3>2. Fits(t[job.line - FirstLine(Current) + 1], then, allocations, lines') BY <2>4, <3>1
    <3>3. job.line - FirstLine(Current) + 1 = Count(Current) BY <1>4, <1>10
    <3> QED BY <3>1, <3>2, <3>3
  <2> QED BY <1>8, <1>9, <2>2, <2>3, <2>4 DEF Paced, Now
<1>11. CASE job.line # LastLine(Current)
  <2>1. PICK n \in Nat : n = job.line BY <1>4
  <2>2. job' = [Idle EXCEPT !.op = "access", !.line = n + 1, !.completion = then] /\ pos' = pos
    BY <1>6, <1>11, <2>1 DEF AccessedLine
  <2>3. job'.op = "access" /\ job'.line = n + 1 /\ job'.completion = then BY <2>2 DEF Idle
  <2>4. events'[pos'] = Current BY <1>9, <2>2 DEF Current
  <2>5. FirstLine(Current) \in Nat BY <1>4, CountIs
  <2>6. job'.line - FirstLine(Current) = job.line - FirstLine(Current) + 1 BY <2>1, <2>3, <2>5
  <2>7. ASSUME NEW p, NEW t, Passing(events, p), Touching(p[pos - 1], Current, t)
        PROVE  Fits(t[job'.line - FirstLine(Current)], then, allocations, lines')
    <3>1. Fits(t[job.line - FirstLine(Current) + 1], then, allocations, lines') BY <2>7
    <3> QED BY <2>6, <3>1
  <2> QED BY <1>8, <1>9, <2>2, <2>3, <2>4, <2>7 DEF Paced, Now, Current
<1> QED BY <1>10, <1>11

\* What remains of the table of lines when one of them is served.
LEMMA CarriesServed ==
  ASSUME Base, Whole, Goes, job.op = "access",
         NEW o \in OracleState, NEW u \in OracleState, NEW then \in Nat, UNCHANGED allocations,
         \A l \in Line : l # Address => lines'[l] = lines[l],
         \A b \in Buffer \ {Current.buffer} : u.written[b] = o.written[b],
         \A k \in Nat \ {job.line} : k \in DOMAIN o.written[Current.buffer] =>
           /\ k \in DOMAIN u.written[Current.buffer]
           /\ u.written[Current.buffer][k] = o.written[Current.buffer][k],
         lines'[Address].initialized =>
           \/ /\ lines[Address].initialized /\ lines'[Address].lastWrite = lines[Address].lastWrite
              /\ lines'[Address].failed = lines[Address].failed
              /\ u.written = o.written
           \/ /\ ~lines'[Address].failed /\ lines'[Address].lastWrite = then
              /\ job.line \in DOMAIN u.written[Current.buffer]
              /\ u.written[Current.buffer][job.line] = u.cycle
  PROVE  Carries(o, u, then, allocations, lines, allocations', lines')
<1> DEFINE B == Current.buffer
<1>0. /\ B \in DOMAIN allocations /\ Allocation.resident /\ Address \in Line
      /\ Address = allocations[B].base + job.line /\ job.line \in Nat /\ allocations[B].base \in Nat
      /\ job.line \in 0..(allocations[B].lines - 1)
  BY ServeHere DEF Allocation
<1> SUFFICES ASSUME NEW b \in DOMAIN allocations, allocations[b].resident,
                    NEW k \in 0..(allocations[b].lines - 1),
                    lines'[allocations[b].base + k].initialized
             PROVE  LET a == allocations[b].base + k IN
                    \/ /\ lines[a].initialized /\ lines[a].lastWrite \in Nat
                       /\ lines'[a].lastWrite = lines[a].lastWrite /\ lines'[a].failed = lines[a].failed
                       /\ k \in DOMAIN o.written[b] =>
                            k \in DOMAIN u.written[b] /\ u.written[b][k] = o.written[b][k]
                    \/ /\ ~lines'[a].failed /\ lines'[a].lastWrite = then
                       /\ k \in DOMAIN u.written[b] /\ u.written[b][k] = u.cycle
  BY DEF Carries
<1> DEFINE a == allocations[b].base + k
<1>1. /\ b \in Buffer /\ allocations[b].base \in Nat /\ allocations[b].lines \in Nat
  BY PlacedIs DEF Base
<1>2. k \in Nat /\ k < allocations[b].lines BY <1>1
<1>3. a \in LinesIn(b) /\ a \in Line BY <1>2, InPlace DEF Base
<1>4. lines[a].lastWrite \in Nat BY <1>3, LineIs DEF Base
<1>5. CASE a = Address
  <2>1. b = B
    <3>1. Address \in LinesIn(B)
      <4>1. job.line < allocations[B].lines
        <5>1. allocations[B].lines \in Nat BY <1>0, PlacedIs DEF Base
        <5> QED BY <1>0, <5>1
      <4> QED BY <1>0, <4>1, InPlace DEF Base, Allocation
    <3> QED BY <1>0, <1>3, <1>5, <3>1 DEF Base, Laid, Allocation
  <2>2. k = job.line BY <1>0, <1>2, <1>5, <2>1
  <2> HIDE DEF a
  <2>3. lines'[a].initialized BY DEF a
  <2> QED BY <1>4, <1>5, <2>1, <2>2, <2>3 DEF a
<1>6. CASE a # Address
  <2>1. lines'[a] = lines[a] BY <1>3, <1>6
  <2>2. k \in DOMAIN o.written[b] => k \in DOMAIN u.written[b] /\ u.written[b][k] = o.written[b][k]
    <3>1. CASE b = B
      <4>1. k # job.line BY <1>0, <1>6, <3>1
      <4> QED BY <1>2, <3>1, <4>1
    <3>2. CASE b # B BY <1>1, <3>2
    <3> QED BY <3>1, <3>2
  <2>3. lines'[a].initialized OBVIOUS
  <2> HIDE DEF a
  <2> QED BY <1>4, <2>1, <2>2, <2>3 DEF a
<1> QED BY <1>5, <1>6

LEMMA TouchWrites ==
  ASSUME NEW s \in OracleState, NEW e \in TraceEvent, NEW l \in Nat, NEW u, u = OracleTouch(s, e, l),
         e.write
  PROVE  /\ u.cycle = s.cycle + SlowestWrite
         /\ \A c \in Buffer \ {e.buffer} : u.written[c] = s.written[c]
         /\ u.written[e.buffer] = Put(s.written[e.buffer], l, u.cycle)
BY TouchIs

LEMMA TouchReads ==
  ASSUME NEW s \in OracleState, NEW e \in TraceEvent, NEW l \in Nat, NEW u, u = OracleTouch(s, e, l),
         ~e.write
  PROVE  /\ u.cycle = s.cycle + SlowestRead /\ u.written = s.written
         /\ l \in DOMAIN s.written[e.buffer] =>
              u.age[e.buffer] = Later(s.age[e.buffer], s.cycle - s.written[e.buffer][l])
BY TouchIs

LEMMA WriteAdvance ==
  ASSUME Base, Base', Whole, Goes, Write
  PROVE  Advance
<1>1. /\ job.op = "access" /\ fault = "none" /\ Current.write
      /\ WriteLine(Address, Allocation.class, job.completion)
      /\ UNCHANGED <<error_mode, nextBase, traceVars, allocations, liveBytes>>
      /\ IF fault' = "none" THEN AccessedLine ELSE UNCHANGED <<pos, job, ready, stats>>
  BY DEF Write, Serving, After
<1>2. CASE fault' # "none" BY <1>1, <1>2, StopAdvance
<1>3. CASE fault' = "none"
  <2>1. /\ pos <= Len(events) /\ Current \in TraceEvent /\ Current.kind = "ACCESS"
        /\ Address \in Line /\ job.line \in Nat
        /\ job.line - FirstLine(Current) \in 0..(Count(Current) - 1)
        /\ lines[Address].present /\ lines[Address].class \in Class
        /\ lines[Address].class = Allocation.class
    BY <1>1, ServeHere
  <2> DEFINE c == Allocation.class
             start == EarliestStart(c, job.completion)
             B == Current.buffer
  <2>2. /\ Scheduled(c, start + WriteCycles[c])
        /\ lines' = [lines EXCEPT ![Address] = Rewritten(Address, c, start + WriteCycles[c])]
        /\ operation' = Done(start, start + WriteCycles[c])
    BY <1>1, <1>3, <2>1 DEF WriteLine, Missing
  <2>3. /\ operation'.ok /\ operation'.completion = start + WriteCycles[c]
    BY <2>2 DEF Done
  <2>4. operation' \in Operation BY DEF Base, Sound
  <2>5. AccessedLine BY <1>1, <1>3
  <2>6. /\ stats'.migration = stats.migration /\ stats'.expired = stats.expired
        /\ job'.op \in {"idle", "access"}
    <3>1. \/ Ends /\ stats' = [stats EXCEPT !.writeBytes = @ + Current.size]
          \/ UNCHANGED stats /\ job'.op = "access"
      BY <1>1, <2>3, <2>4, <2>5, AccessedIs DEF Base
    <3>2. CASE Ends /\ stats' = [stats EXCEPT !.writeBytes = @ + Current.size]
      BY <3>2 DEF Ends, Idle, Base, Typed, Statistics
    <3> QED BY <3>1, <3>2
  <2>7. ASSUME stats.expired = 0 PROVE Paced'
    <3>1. Paced /\ OracleAges(events).valid BY <2>7 DEF Goes
    <3>2. start = Now /\ job.completion = Now /\ Now \in Nat /\ makespan <= Now
      BY <1>1, <2>1, <3>1, StartsNow DEF Paced
    <3>3. WriteCycles[c] \in Nat /\ WriteCycles[c] <= SlowestWrite /\ SlowestWrite \in Nat
      BY <2>1, SlowestIs
    <3> DEFINE then == Now + WriteCycles[c]
    <3>4. then \in Nat /\ Now <= then /\ operation'.completion = then BY <2>3, <3>2, <3>3
    <3>5. makespan' <= then
      <4>1. makespan' = Later(makespan, then) BY <2>2, <3>2 DEF Scheduled
      <4>2. makespan \in Nat BY DEF Base, Sound
      <4> HIDE DEF then
      <4> QED BY <3>2, <3>4, <4>1, <4>2 DEF Later
    <3>6. ASSUME NEW p, NEW t, Passing(events, p), Touching(p[pos - 1], Current, t)
          PROVE  Fits(t[job.line - FirstLine(Current) + 1], then, allocations, lines')
      <4>1. PICK i \in 0..(Count(Current) - 1) : i = job.line - FirstLine(Current) BY <2>1
      <4>2. p[pos - 1] \in OracleState BY <2>1, <3>1, <3>6, PassHere DEF Base
      <4> DEFINE o == t[i]
                 u == t[i + 1]
      <4>3. /\ o \in OracleState /\ u \in OracleState
            /\ u = OracleTouch(o, Current, FirstLine(Current) + i)
        BY <2>1, <3>6, <4>1, <4>2, StepHere
      <4>4. FirstLine(Current) + i = job.line
        <5>1. FirstLine(Current) \in Nat BY <2>1, CountIs
        <5> QED BY <2>1, <4>1, <5>1
      <4>5. Fits(o, Now, allocations, lines) BY <1>1, <3>1, <3>6, <4>1 DEF Paced
      <4> HIDE DEF o, u
      <4>6. /\ u.cycle = o.cycle + SlowestWrite
            /\ \A b \in Buffer \ {B} : u.written[b] = o.written[b]
            /\ u.written[B] = Put(o.written[B], job.line, u.cycle)
        <5>1. u = OracleTouch(o, Current, job.line) BY <4>3, <4>4
        <5> QED BY <1>1, <2>1, <4>3, <5>1, TouchWrites
      <4>7. then - Now <= u.cycle - o.cycle
        <5>1. o.cycle \in Nat BY <4>3 DEF OracleState
        <5> QED BY <3>2, <3>3, <4>6, <5>1
      <4>8. /\ ~lines'[Address].failed /\ lines'[Address].lastWrite = then
        <5>1. IInv BY <1>1, SoundMemory DEF Base
        <5>2. lines'[Address] = Rewritten(Address, c, then)
          <6>1. Address \in DOMAIN lines BY <2>1, <5>1 DEF IInv, MemoryTypeOK
          <6> QED BY <2>2, <3>2, <6>1
        <5>3. lines[Address] \in LineState BY <2>1, LineIs DEF Base
        <5> HIDE DEF then
        <5> QED BY <5>2, <5>3 DEF Rewritten, LineState
      <4>9. \A l \in Line : l # Address => lines'[l] = lines[l] BY <2>2 DEF Base, Sound
      <4>10. /\ \A k \in Nat \ {job.line} : k \in DOMAIN o.written[B] =>
                  k \in DOMAIN u.written[B] /\ u.written[B][k] = o.written[B][k]
             /\ job.line \in DOMAIN u.written[B] /\ u.written[B][job.line] = u.cycle
        BY <4>6 DEF Put
      <4> HIDE DEF then
      <4>11. Carries(o, u, then, allocations, lines, allocations', lines')
        BY <1>1, <3>4, <4>3, <4>6, <4>8, <4>9, <4>10, CarriesServed
      <4>12. Fits(u, then, allocations', lines')
        BY <3>2, <3>4, <4>3, <4>5, <4>7, <4>11, FitsLater DEF Base, Typed
      <4>13. job.line - FirstLine(Current) + 1 = i + 1 BY <4>1
      <4> QED BY <1>1, <4>12, <4>13 DEF u
    <3> HIDE DEF then
    <3> QED BY <1>1, <2>3, <2>5, <2>7, <3>4, <3>5, <3>6, ServedPaced
  <2> QED BY <1>1, <2>6, <2>7 DEF Advance, Goes
<1> QED BY <1>2, <1>3

\* A read that finds the line decayed: the pass has seen it outlive its class.
LEMMA ExpiredOutlived ==
  ASSUME Base, Whole, Goes, stats.expired = 0, job.op = "access", ~Current.write,
         lines[Address].initialized, MayFail(Address, EarliestStart(lines[Address].class, job.completion))
  PROVE  Outlived
<1> DEFINE B == Current.buffer
           c == lines[Address].class
           date == lines[Address].lastWrite
<1>1. /\ pos <= Len(events) /\ Current \in TraceEvent /\ Current.kind = "ACCESS"
      /\ B \in DOMAIN allocations /\ Allocation.resident /\ Address \in Line
      /\ Address = Allocation.base + job.line /\ job.line \in Nat
      /\ job.line \in 0..(Allocation.lines - 1)
      /\ job.line - FirstLine(Current) \in 0..(Count(Current) - 1)
      /\ c \in Class /\ c = Chosen(B) /\ B \in Buffer
  BY ServeHere DEF TraceEvent
<1>2. Paced /\ OracleAges(events).valid /\ ages = OracleAges(events).age /\ fault = "none"
      /\ error_mode = "Deterministic"
  BY DEF Goes, Quiet
<1>3. EarliestStart(c, job.completion) = Now /\ Now \in Nat BY <1>1, <1>2, StartsNow
<1>4. PICK p : Passing(events, p) BY PassingIs DEF Base, Typed
<1>5. /\ p[pos - 1] \in OracleState /\ p[pos] \in OracleState
      /\ Onward(p[pos], OracleAges(events), Buffer)
  BY <1>1, <1>2, <1>4, PassHere DEF Base
<1>6. PICK t : Touching(p[pos - 1], Current, t) /\ p[pos] = t[Count(Current)]
  BY <1>1, <1>2, <1>4, TouchHere
<1>7. PICK i \in 0..(Count(Current) - 1) : i = job.line - FirstLine(Current) BY <1>1
<1>8. PICK o \in OracleState, u \in OracleState :
        /\ o = t[i] /\ u = OracleTouch(o, Current, job.line)
        /\ Onward(u, p[pos], {})
  <2>1. /\ t[i] \in OracleState /\ t[i + 1] \in OracleState
        /\ t[i + 1] = OracleTouch(t[i], Current, FirstLine(Current) + i)
        /\ Onward(t[i + 1], t[Count(Current)], {})
    BY <1>1, <1>5, <1>6, StepHere
  <2>2. FirstLine(Current) + i = job.line
    <3>1. FirstLine(Current) \in Nat BY <1>1, CountIs
    <3> QED BY <1>1, <1>7, <3>1
  <2> QED BY <1>6, <2>1, <2>2
<1>9. Fits(o, Now, allocations, lines) BY <1>2, <1>4, <1>6, <1>7, <1>8 DEF Paced
<1>10. /\ ~lines[Address].failed /\ job.line \in DOMAIN o.written[B]
       /\ Now - date <= o.cycle - o.written[B][job.line]
  BY <1>1, <1>9 DEF Fits, Allocation
<1>11. RetentionCycles[c] # kInfinite /\ Now - date >= RetentionCycles[c]
  BY <1>2, <1>3, <1>10 DEF MayFail, Decaying
<1>12. u.age[B] = Later(o.age[B], o.cycle - o.written[B][job.line]) BY <1>1, <1>8, <1>10, TouchReads
<1>13. /\ date \in Nat /\ o.cycle \in Nat /\ o.age[B] \in Nat /\ o.written[B][job.line] \in Nat
       /\ RetentionCycles[c] \in Nat
  <2>1. o.written[B] \in Dated BY <1>1 DEF OracleState
  <2>2. o.written[B] \in [DOMAIN o.written[B] -> Nat] BY <2>1, DatedIs
  <2> QED BY <1>1, <1>10, <2>2, LineIs DEF OracleState, Base
<1>14. u.age[B] \in Nat /\ u.age[B] >= o.cycle - o.written[B][job.line]
  BY <1>1, <1>8, <1>12, <1>13 DEF Later, OracleState
<1>15. u.age[B] <= p[pos].age[B] /\ p[pos].age[B] <= ages[B] /\ p[pos].age[B] \in Nat
  BY <1>1, <1>2, <1>5, <1>8 DEF Onward, OracleState
<1>16. ages[B] \in Nat
  <2>1. OracleAges(events) \in OracleState
    <3>1. Len(events) \in 0..Len(events) BY DEF Base, Typed
    <3>2. OracleAges(events) = p[Len(events)] BY <1>4 DEF Passing
    <3> QED BY <1>4, <3>1, <3>2, PassingOnward DEF Base, Typed
  <2> QED BY <1>1, <1>2, <2>1 DEF OracleState
<1>17. ages[B] >= RetentionCycles[c]
  <2> HIDE DEF date, c
  <2>1. o.cycle - o.written[B][job.line] >= RetentionCycles[c] BY <1>3, <1>10, <1>11, <1>13
  <2> QED BY <1>13, <1>14, <1>15, <1>16, <2>1
<1> QED BY <1>1, <1>11, <1>17 DEF Outlived

\* A read of an unwritten line ends the access.
LEMMA UnwrittenPaced ==
  ASSUME Base, Base', Whole, Goes, stats.expired = 0, job.op = "access", ~Current.write, AccessedLine,
         ~operation'.ok, UNCHANGED <<lines, makespan, allocations, traceVars>>
  PROVE  Paced'
<1>1. Paced /\ OracleAges(events).valid BY DEF Goes
<1>2. job.completion = Now /\ DOMAIN ready \subseteq {events[1].stream} /\ makespan <= Now BY <1>1 DEF Paced
<1>3. Now \in Nat BY KnowsIs DEF Base, Now
<1>4. /\ pos <= Len(events) /\ Current \in TraceEvent /\ Current.kind = "ACCESS"
      /\ job.line - FirstLine(Current) \in 0..(Count(Current) - 1)
  BY ServeHere
<1>5. Current.stream \in DOMAIN ready BY AtWork DEF Base
<1>6. ready' = [ready EXCEPT ![Current.stream] = Now] /\ job' = Idle /\ pos' = pos + 1
  BY <1>2 DEF AccessedLine, Ends
<1>7. DOMAIN ready' \subseteq {events[1].stream} /\ Time(ready', events[1].stream) = Now
  BY <1>2, <1>5, <1>6 DEF Time
<1>8. events' = events BY DEF traceVars
<1>9. job'.op = "idle" BY <1>6 DEF Idle
<1>10. pos' - 1 = pos BY <1>6 DEF Base, Typed
<1>11. ASSUME NEW p, Passing(events, p) PROVE Fits(p[pos], Now, allocations', lines')
  <2>1. PICK t : Touching(p[pos - 1], Current, t) /\ p[pos] = t[Count(Current)]
    BY <1>1, <1>4, <1>11, TouchHere
  <2>2. p[pos - 1] \in OracleState /\ p[pos] \in OracleState BY <1>1, <1>4, <1>11, PassHere DEF Base
  <2>3. PICK i \in 0..(Count(Current) - 1) : i = job.line - FirstLine(Current) BY <1>4
  <2>4. PICK o \in OracleState : o = t[i] /\ Onward(o, p[pos], {}) BY <1>4, <2>1, <2>2, StepHere
  <2>5. Fits(o, Now, allocations, lines) BY <1>1, <1>11, <2>1, <2>3, <2>4 DEF Paced
  <2>6. o.cycle \in Nat /\ p[pos].cycle \in Nat /\ o.cycle <= p[pos].cycle
    BY <2>2, <2>4 DEF OracleState, Onward
  <2>7. Now - Now <= p[pos].cycle - o.cycle BY <1>3, <2>6
  <2>8. Carries(o, p[pos], Now, allocations, lines, allocations', lines')
    <3> SUFFICES ASSUME NEW b \in DOMAIN allocations, allocations[b].resident,
                        NEW k \in 0..(allocations[b].lines - 1),
                        lines[allocations[b].base + k].initialized
                 PROVE  LET a == allocations[b].base + k IN
                        /\ lines[a].lastWrite \in Nat
                        /\ k \in DOMAIN o.written[b] =>
                             k \in DOMAIN p[pos].written[b] /\ p[pos].written[b][k] = o.written[b][k]
      BY DEF Carries
    <3>1. allocations[b].lines \in Nat /\ b \in Buffer BY PlacedIs DEF Base
    <3>2. k \in Nat /\ k < allocations[b].lines BY <3>1
    <3>3. allocations[b].base + k \in Line BY <3>2, InPlace DEF Base
    <3>4. p[pos].written[b] = o.written[b] BY <2>4, <3>1 DEF Onward
    <3> QED BY <3>3, <3>4, LineIs DEF Base
  <2>9. DOMAIN allocations \subseteq Buffer BY DEF Base, Typed
  <2> QED BY <1>3, <2>2, <2>5, <2>7, <2>8, <2>9, FitsLater
<1>12. makespan' <= Now BY <1>2
<1> QED BY <1>7, <1>8, <1>9, <1>10, <1>11, <1>12 DEF Paced, Now

\* A read that finds its data.
LEMMA ReadPaced ==
  ASSUME Base, Base', Whole, Goes, stats.expired = 0, job.op = "access", ~Current.write, AccessedLine,
         UNCHANGED <<allocations, traceVars>>,
         NEW c \in Class, c = lines[Address].class, lines[Address].initialized,
         Survives(Address, EarliestStart(c, job.completion)),
         Scheduled(c, EarliestStart(c, job.completion) + ReadCycles[c]),
         lines' = [lines EXCEPT ![Address] = Checked(Address, EarliestStart(c, job.completion), FALSE)],
         operation' = Done(EarliestStart(c, job.completion), EarliestStart(c, job.completion) + ReadCycles[c])
  PROVE  Paced'
<1>1. Paced /\ OracleAges(events).valid /\ fault = "none" BY DEF Goes
<1>2. EarliestStart(c, job.completion) = Now /\ job.completion = Now /\ Now \in Nat /\ makespan <= Now
  BY <1>1, StartsNow DEF Paced
<1>3. ReadCycles[c] \in Nat /\ ReadCycles[c] <= SlowestRead /\ SlowestRead \in Nat BY SlowestIs
<1>4. /\ pos <= Len(events) /\ Current \in TraceEvent /\ Current.kind = "ACCESS"
      /\ Address \in Line /\ job.line \in Nat
      /\ job.line - FirstLine(Current) \in 0..(Count(Current) - 1)
  BY ServeHere
<1> DEFINE then == Now + ReadCycles[c]
<1>5. operation'.ok /\ operation'.completion = then BY <1>2 DEF Done
<1>6. then \in Nat /\ Now <= then BY <1>2, <1>3
<1>7. makespan' <= then
  <2>1. makespan' = Later(makespan, then) BY <1>2 DEF Scheduled
  <2>2. makespan \in Nat BY DEF Base, Sound
  <2> HIDE DEF then
  <2> QED BY <1>2, <1>6, <2>1, <2>2 DEF Later
<1>8. /\ lines'[Address].initialized = lines[Address].initialized
      /\ lines'[Address].lastWrite = lines[Address].lastWrite
      /\ lines'[Address].failed = lines[Address].failed
  <2>1. lines'[Address] = Checked(Address, Now, FALSE) BY <1>2, <1>4 DEF Base, Sound
  <2>2. lines[Address] \in LineState BY <1>4, LineIs DEF Base
  <2>3. ~lines[Address].failed BY DEF Survives, MaySurvive
  <2>4. PICK n : Checked(Address, Now, FALSE) = [lines[Address] EXCEPT !.failed = FALSE, !.lastCheck = n]
    BY DEF Checked
  <2>5. lines'[Address] = [lines[Address] EXCEPT !.failed = FALSE, !.lastCheck = n] BY <2>1, <2>4
  <2>6. PICK x \in LineState : x = lines[Address] BY <2>2
  <2>7. lines'[Address] = [x EXCEPT !.failed = FALSE, !.lastCheck = n] BY <2>5, <2>6
  <2>8. PICK y : y = [x EXCEPT !.failed = FALSE, !.lastCheck = n] OBVIOUS
  <2>9. y.initialized = x.initialized /\ y.lastWrite = x.lastWrite /\ y.failed = FALSE
    BY <2>8 DEF LineState
  <2>10. lines'[Address] = y /\ lines[Address] = x /\ x.failed = FALSE
    <3>1. x.failed \in BOOLEAN BY DEF LineState
    <3> QED BY <2>3, <2>6, <2>7, <2>8, <3>1
  <2> QED BY <2>9, <2>10
<1>9. \A l \in Line : l # Address => lines'[l] = lines[l] BY DEF Base, Sound
<1>10. ASSUME NEW p, NEW t, Passing(events, p), Touching(p[pos - 1], Current, t)
      PROVE  Fits(t[job.line - FirstLine(Current) + 1], then, allocations, lines')
  <2>1. PICK i \in 0..(Count(Current) - 1) : i = job.line - FirstLine(Current) BY <1>4
  <2>2. p[pos - 1] \in OracleState BY <1>1, <1>4, <1>10, PassHere DEF Base
  <2> DEFINE o == t[i]
             u == t[i + 1]
  <2>3. /\ o \in OracleState /\ u \in OracleState
        /\ u = OracleTouch(o, Current, FirstLine(Current) + i)
    BY <1>4, <1>10, <2>1, <2>2, StepHere
  <2>4. FirstLine(Current) + i = job.line
    <3>1. FirstLine(Current) \in Nat BY <1>4, CountIs
    <3> QED BY <1>4, <2>1, <3>1
  <2>5. Fits(o, Now, allocations, lines) BY <1>1, <1>10, <2>1 DEF Paced
  <2> HIDE DEF o, u
  <2>6. u.cycle = o.cycle + SlowestRead /\ u.written = o.written
    <3>1. u = OracleTouch(o, Current, job.line) BY <2>3, <2>4
    <3> QED BY <1>4, <2>3, <3>1, TouchReads
  <2>7. then - Now <= u.cycle - o.cycle
    <3>1. o.cycle \in Nat BY <2>3 DEF OracleState
    <3> QED BY <1>2, <1>3, <2>6, <3>1
  <2> HIDE DEF then
  <2>8. Carries(o, u, then, allocations, lines, allocations', lines')
    BY <1>4, <1>6, <1>8, <1>9, <2>3, <2>6, CarriesServed
  <2>9. Fits(u, then, allocations', lines')
    BY <1>2, <1>6, <2>3, <2>5, <2>7, <2>8, FitsLater DEF Base, Typed
  <2>10. job.line - FirstLine(Current) + 1 = i + 1 BY <2>1
  <2> QED BY <2>9, <2>10 DEF u
<1> HIDE DEF then
<1> QED BY <1>5, <1>6, <1>7, <1>10, ServedPaced

LEMMA ReadAdvance ==
  ASSUME Base, Base', Whole, Goes, stats.expired > 0 => Outlived, Read
  PROVE  Advance
<1>1. /\ job.op = "access" /\ fault = "none" /\ ~Current.write
      /\ ReadLine(Address, job.completion)
      /\ UNCHANGED <<error_mode, nextBase, traceVars, allocations, liveBytes>>
      /\ IF fault' = "none" THEN AccessedLine ELSE UNCHANGED <<pos, job, ready, stats>>
  BY DEF Read, Serving, After
<1>2. CASE fault' # "none" BY <1>1, <1>2, StopAdvance
<1>3. CASE fault' = "none"
  <2>1. /\ lines[Address].present /\ lines[Address].class \in Class
    BY <1>1, ServeHere
  <2>2. AccessedLine /\ operation' \in Operation BY <1>1, <1>3 DEF Base, Sound
  <2>3. /\ stats'.migration = stats.migration /\ job'.op \in {"idle", "access"}
        /\ stats'.expired = IF ~operation'.ok /\ operation'.failure = "Expired" THEN stats.expired + 1
                            ELSE stats.expired
    <3>1. \/ Ends /\ ~operation'.ok /\ stats' = Counted(operation'.failure, FALSE, FALSE)
          \/ Ends /\ operation'.ok /\ stats' = [stats EXCEPT !.readBytes = @ + Current.size]
          \/ operation'.ok /\ UNCHANGED stats /\ job'.op = "access"
      BY <1>1, <2>2, AccessedIs DEF Base
    <3>2. CASE Ends /\ ~operation'.ok /\ stats' = Counted(operation'.failure, FALSE, FALSE)
      <4>1. stats \in Statistics BY DEF Base, Typed
      <4>2. stats'.migration = stats.migration BY <3>2, <4>1, CountedIs
      <4>3. stats'.expired = IF operation'.failure = "Expired" THEN stats.expired + 1 ELSE stats.expired
        BY <3>2, <4>1, CountedExpired
      <4> QED BY <3>2, <4>2, <4>3 DEF Ends, Idle
    <3>3. CASE Ends /\ operation'.ok /\ stats' = [stats EXCEPT !.readBytes = @ + Current.size]
      BY <3>3 DEF Ends, Idle, Base, Typed, Statistics
    <3> QED BY <3>1, <3>2, <3>3
  <2>4. \A b \in DOMAIN allocations' : allocations'[b].class = Chosen(b) BY <1>1 DEF Goes
  <2> DEFINE c == lines[Address].class
             start == EarliestStart(c, job.completion)
  <2>5. CASE ~lines[Address].initialized
    <3>1. operation' = Refused("Uninitialized", job.completion) /\ UNCHANGED <<lines, makespan>>
      BY <1>1, <2>1, <2>5 DEF ReadLine, Missing, Live, bankVars
    <3>2. ~operation'.ok /\ operation'.failure # "Expired" BY <3>1 DEF Refused
    <3>3. stats.expired = 0 => Paced' BY <1>1, <2>2, <3>1, <3>2, UnwrittenPaced
    <3> QED BY <2>3, <2>4, <3>2, <3>3 DEF Advance, Goes
  <2>6. CASE lines[Address].initialized
    <3>1. /\ Scheduled(c, start + ReadCycles[c])
          /\ \/ Fails(Address, start)
             \/ /\ Survives(Address, start)
                /\ lines' = [lines EXCEPT ![Address] = Checked(Address, start, FALSE)]
                /\ operation' = Done(start, start + ReadCycles[c])
      BY <1>1, <2>1, <2>6 DEF ReadLine, Missing, Live
    <3>2. CASE Fails(Address, start)
      <4>1. MayFail(Address, start) /\ operation' = Refused("Expired", start)
        BY <1>3, <3>2 DEF Fails
      <4>2. ~operation'.ok /\ operation'.failure = "Expired" BY <4>1 DEF Refused
      <4>3. stats.expired \in Nat BY DEF Base, Typed, Statistics
      <4>4. stats'.expired # 0 BY <2>3, <4>2, <4>3
      <4>5. Outlived BY <1>1, <2>6, <4>1, <4>3, ExpiredOutlived
      <4> QED BY <2>3, <2>4, <4>4, <4>5 DEF Advance, Goes
    <3>3. CASE /\ Survives(Address, start)
               /\ lines' = [lines EXCEPT ![Address] = Checked(Address, start, FALSE)]
               /\ operation' = Done(start, start + ReadCycles[c])
      <4>1. operation'.ok BY <3>3 DEF Done
      <4>2. stats'.expired = stats.expired BY <2>3, <4>1
      <4>3. stats.expired = 0 => Paced' BY <1>1, <2>1, <2>2, <2>6, <3>1, <3>3, ReadPaced
      <4> QED BY <2>3, <2>4, <4>2, <4>3 DEF Advance, Goes
    <3> QED BY <3>1, <3>2, <3>3
  <2> QED BY <2>5, <2>6
<1> QED BY <1>2, <1>3

LEMMA ReplaySteady ==
  ASSUME Replay
  PROVE  stage = "replay" /\ fault = "none" /\ UNCHANGED <<error_mode, traceVars>>
<1>1. CASE Hint \/ Access \/ Compute \/ Phase \/ Barrier \/ Promote \/ Exhausted
  BY <1>1 DEF Hint, Access, Compute, Phase, Barrier, Promote, Exhausted, Throw, traceVars, memoryVars,
              Begins, Serving, Maintenance
<1>2. CASE Write \/ Read \/ Refresh \/ RefreshAfterPromotion \/ Migrate
  BY <1>2 DEF Write, Read, Refresh, RefreshAfterPromotion, Refreshed, Migrate, After, traceVars,
              Serving, Maintenance
<1>3. CASE Allocate \/ Free
  BY <1>3 DEF Allocate, Free, Reserve, Release, Throw, traceVars, memoryVars, Begins
<1> QED BY <1>1, <1>2, <1>3 DEF Replay

LEMMA ReplayAdvance ==
  ASSUME Base, Base', Whole, Goes, stats.expired > 0 => Outlived, Replay
  PROVE  Advance
<1>1. /\ policy \notin FollowsHints /\ policy \notin Maintains /\ job.op \in {"idle", "access"}
      /\ fault = "none"
  BY DEF Goes, Quiet, FollowsHints, Maintains
<1>2. ~Promote /\ ~Refresh BY <1>1 DEF Promote, Refresh, Maintenance, Due
<1>3. ~RefreshAfterPromotion /\ ~Migrate BY <1>1 DEF RefreshAfterPromotion, Migrate, Serving
<1>4. CASE \/ Allocate /\ Known
           \/ Free /\ ~Known
           \/ Hint /\ ~Known
           \/ Exhausted
           \/ Access /\ (~Known \/ ~InBounds(Current, Allocation.size))
  <2>1. \E name \in {"duplicate", "unknown", "access", "limit"} : Throw(name)
    BY <1>4 DEF Allocate, Free, Hint, Access, Exhausted
  <2>2. fault' # "none" /\ UNCHANGED <<stats, job, allocations>> BY <2>1 DEF Throw, replayVars
  <2> QED BY <2>2, StopAdvance
<1>5. CASE Allocate /\ ~Known BY <1>5, AllocateAdvance
<1>6. CASE Free /\ Known BY <1>6, FreeAdvance
<1>7. CASE Hint /\ Known BY <1>7, HintAdvance
<1>8. CASE Access /\ Known /\ InBounds(Current, Allocation.size) BY <1>8, AccessAdvance
<1>9. CASE Compute BY <1>9, ComputeAdvance
<1>10. CASE Phase \/ Barrier BY <1>10, PhaseAdvance
<1>11. CASE Write BY <1>11, WriteAdvance
<1>12. CASE Read BY <1>12, ReadAdvance
<1>13. CASE Allocate BY <1>4, <1>5, <1>13
<1>14. CASE Free BY <1>4, <1>6, <1>14
<1>15. CASE Hint BY <1>4, <1>7, <1>15
<1>16. CASE Access BY <1>4, <1>8, <1>16
<1>17. CASE Exhausted BY <1>4, <1>17
<1> QED BY <1>2, <1>3, <1>9, <1>10, <1>11, <1>12, <1>13, <1>14, <1>15, <1>16, <1>17 DEF Replay

\* The replay starts with the pass's ages and at its start.
LEMMA StartOnTime ==
  ASSUME Base, OnTime, Start
  PROVE  OnTime'
<1>1. /\ stage = "load" /\ stage' = "replay" /\ events' = events /\ policy' = policy
      /\ UNCHANGED <<pos, job, allocations, ready, stats, lines, makespan, error_mode>>
  BY DEF Start, replayVars, bankVars
<1>2. /\ DOMAIN allocations = {} /\ DOMAIN ready = {} /\ makespan = 0
      /\ stats.expired = 0 /\ stats.migration = 0 /\ fault = "none"
  BY <1>1 DEF OnTime
<1>3. job.op = "idle" /\ pos = 1
  <2>1. pos = 1 /\ job = Idle BY <1>1 DEF Base, Typed
  <2> QED BY <2>1 DEF Idle
<1>4. \/ OracleAges(events).valid /\ ages' = OracleAges(events).age /\ fault' = fault
      \/ ~OracleAges(events).valid /\ fault' = "access"
  BY DEF Start
<1>5. Paced'
  <2>1. Time(ready', events'[1].stream) = 0 BY <1>1, <1>2 DEF Time
  <2>2. \A o : Fits(o, 0, allocations', lines') BY <1>1, <1>2 DEF Fits
  <2> QED BY <1>1, <1>2, <1>3, <2>1, <2>2 DEF Paced, Now
<1> QED BY <1>1, <1>2, <1>3, <1>4, <1>5 DEF OnTime

LEMMA OnTimeStep ==
  ASSUME Base, Whole, OnTime, [Next]_vars
  PROVE  OnTime'
<1>0. Base' BY BaseStep
<1>1. CASE Load \/ Reject
  <2>1. /\ stage = "load" /\ stage' \in {"load", "rejected"}
        /\ UNCHANGED <<allocations, ready, makespan, stats, fault>>
    BY <1>1 DEF Load, Reject, memoryVars, bankVars, replayVars
  <2> QED BY <2>1 DEF OnTime
<1>2. CASE Start BY <1>2, StartOnTime
<1>3. CASE Report \/ UNCHANGED vars
  <2>1. /\ \/ stage \in {"replay", "done"} /\ stage' \in {"replay", "done"}
           \/ stage' = stage
        /\ UNCHANGED <<lines, makespan, fault, error_mode, events, policy, ages>>
        /\ UNCHANGED <<pos, job, allocations, ready, stats>>
    BY <1>3 DEF Report, vars, memoryVars, bankVars, traceVars, replayVars
  <2>2. Quiet' <=> Quiet BY <2>1 DEF Quiet, Serial, TickFree
  <2>3. Paced' <=> Paced BY <2>1 DEF Paced, Now, Current
  <2>4. Outlived' <=> Outlived BY <2>1 DEF Outlived, Chosen
  <2>5. \A b : Chosen(b)' = Chosen(b) BY <2>1 DEF Chosen
  <2>6. stage' \in {"load", "rejected"} <=> stage \in {"load", "rejected"} BY <2>1
  <2>7. stage' \in {"replay", "done"} <=> stage \in {"replay", "done"} BY <2>1
  <2> QED BY <2>1, <2>2, <2>3, <2>4, <2>5, <2>6, <2>7 DEF OnTime
<1>4. CASE Replay
  <2>1. stage = "replay" /\ fault = "none" /\ UNCHANGED <<error_mode, traceVars>>
    BY <1>4, ReplaySteady
  <2>2. stage' = "replay" /\ UNCHANGED <<events, policy, ages>> BY <2>1 DEF traceVars
  <2> SUFFICES ASSUME Quiet'
      PROVE /\ stats'.migration = 0 /\ job'.op \in {"idle", "access"}
            /\ \A b \in DOMAIN allocations' : allocations'[b].class = Chosen(b)'
            /\ OracleAges(events').valid /\ ages' = OracleAges(events').age
            /\ stats'.expired > 0 => Outlived'
            /\ stats'.expired = 0 /\ fault' = "none" => Paced'
    BY <2>2 DEF OnTime
  <2>3. Quiet BY <2>1, <2>2 DEF Quiet, Serial, TickFree
  <2>4. /\ Goes
        /\ stats.expired > 0 => Outlived
        /\ OracleAges(events).valid /\ ages = OracleAges(events).age
    BY <2>1, <2>3 DEF Goes, OnTime
  <2>5. Advance BY <1>0, <1>4, <2>4, ReplayAdvance
  <2>6. Outlived' <=> Outlived BY <2>2 DEF Outlived, Chosen
  <2>7. \A b : Chosen(b)' = Chosen(b) BY <2>2 DEF Chosen
  <2> QED BY <2>2, <2>4, <2>5, <2>6, <2>7 DEF Advance
<1> QED BY <1>1, <1>2, <1>3, <1>4 DEF Next

LEMMA InitOnTime == Init => OnTime
<1> SUFFICES ASSUME Init PROVE OnTime OBVIOUS
<1>1. DOMAIN <<>> = {} OBVIOUS
<1>2. stage = "load" /\ allocations = <<>> /\ ready = <<>> /\ makespan = 0 /\ fault = "none"
  BY DEF Init, MemoryInit
<1>3. stats.expired = 0 /\ stats.migration = 0 BY DEF Init, NoFailures
<1> QED BY <1>1, <1>2, <1>3 DEF OnTime

\* A class the oracle chose holds the data of its buffer.
LEMMA OracleHolds ==
  ASSUME policy = "oracle",
         RetentionCycles[Durable] = kInfinite \/ \A b \in Buffer : ages[b] < RetentionCycles[Durable],
         \A b \in Buffer : ages[b] \in Nat
  PROVE  ~Outlived
<1> SUFFICES ASSUME NEW b \in Buffer, RetentionCycles[Chosen(b)] # kInfinite,
                    ages[b] >= RetentionCycles[Chosen(b)]
             PROVE  FALSE
  BY DEF Outlived
<1> DEFINE fit == {c \in {Ephemeral, Epoch} : ages[b] < RetentionCycles[c]}
           S == {Durable} \cup fit
<1>1. Chosen(b) = Min(S) BY DEF Chosen, OracleClass
<1>2. S \subseteq Nat /\ S # {} BY DEF Ephemeral, Epoch, Durable
<1>3. Min(S) \in S
  <2> HIDE DEF S
  <2> QED BY <1>2, MinIs
<1>4. Chosen(b) \in {Durable, Ephemeral, Epoch} BY <1>1, <1>3
<1>5. RetentionCycles[Chosen(b)] \in Nat BY <1>4, ProfileAssumption DEF Class, Ephemeral, Epoch, Durable
<1>6. CASE Chosen(b) \in fit BY <1>5, <1>6
<1>7. CASE Chosen(b) = Durable BY <1>5, <1>7
<1> QED BY <1>1, <1>3, <1>6, <1>7

LEMMA OnTimeInvariant == Spec => [](Base /\ OnTime)
<1>1. Base /\ Whole /\ OnTime /\ [Next]_vars => OnTime' BY OnTimeStep
<1>2. Base /\ Whole /\ [Next]_vars => Whole' BY WholeStep
<1> QED BY <1>1, <1>2, InitOnTime, InitWhole, BaseInvariant, PTL DEF Spec

\* A deterministic replay of one stream without ticks meets no expired line in the
\* classes the oracle chose, for every trace, profile and number of channels.
THEOREM OracleNeverLateCorrect == Spec => []OracleNeverLate
<1>1. Base /\ OnTime => OracleNeverLate
  <2> SUFFICES ASSUME Base, OnTime, policy = "oracle", error_mode = "Deterministic", Serial, TickFree,
                      RetentionCycles[Durable] = kInfinite
                        \/ \A b \in Buffer : ages[b] < RetentionCycles[Durable]
               PROVE  stats.expired = 0
    BY DEF OracleNeverLate
  <2>1. CASE stage \in {"load", "rejected"} BY <2>1 DEF OnTime
  <2>2. CASE stage \in {"replay", "done"}
    <3>1. Quiet BY DEF Quiet, FollowsHints
    <3>2. ASSUME stats.expired > 0 PROVE FALSE
      <4>1. Outlived /\ OracleAges(events).valid /\ ages = OracleAges(events).age
        BY <2>2, <3>1, <3>2 DEF OnTime
      <4>2. OracleAges(events) \in OracleState
        <5>1. PICK p : Passing(events, p) BY PassingIs DEF Base, Typed
        <5>2. Len(events) \in 0..Len(events) BY DEF Base, Typed
        <5> QED BY <5>1, <5>2, PassingOnward DEF Passing, Base, Typed
      <4>3. \A b \in Buffer : ages[b] \in Nat BY <4>1, <4>2 DEF OracleState
      <4> QED BY <4>1, <4>3, OracleHolds
    <3>3. stats.expired \in Nat BY DEF Base, Typed, Statistics
    <3> QED BY <3>2, <3>3
  <2> QED BY <2>1, <2>2 DEF Base, Typed
<1> QED BY <1>1, OnTimeInvariant, PTL

-----------------------------------------------------------------------------
(* The replay has the oracle's ages of its trace, and they are those of the  *)
(* analysis.                                                                 *)

Aged ==
  /\ events \in Seq(TraceEvent)
  /\ stage \in {"replay", "done"} /\ OracleAges(events).valid => ages = OracleAges(events).age

LEMMA AgedInvariant == Spec => [](Base /\ Aged)
<1>1. Base /\ Init => Aged BY DEF Base, Typed, Init, Aged
<1>2. ASSUME Base, Base', Aged, [Next]_vars PROVE Aged'
  <2>1. events' \in Seq(TraceEvent) BY <1>2 DEF Base, Typed
  <2>2. CASE Load \/ Reject
    <3>1. stage' \in {"load", "rejected"} BY <2>2 DEF Load, Reject
    <3> QED BY <2>1, <3>1 DEF Aged
  <2>3. CASE Start
    <3>1. /\ stage' = "replay" /\ events' = events
          /\ OracleAges(events).valid => ages' = OracleAges(events).age
      BY <2>3 DEF Start
    <3> QED BY <2>1, <3>1 DEF Aged
  <2>4. CASE Replay \/ Report \/ UNCHANGED vars
    <3>1. (stage' \in {"replay", "done"} => stage \in {"replay", "done"})
          /\ events' = events /\ ages' = ages
      <4>1. CASE Replay
        <5>1. stage = "replay" /\ UNCHANGED traceVars BY <4>1, ReplaySteady
        <5> QED BY <5>1 DEF traceVars
      <4>2. CASE Report BY <4>2 DEF Report
      <4>3. CASE UNCHANGED vars BY <4>3 DEF vars, traceVars
      <4> QED BY <2>4, <4>1, <4>2, <4>3
    <3> QED BY <1>2, <2>1, <3>1 DEF Aged
  <2> QED BY <1>2, <2>2, <2>3, <2>4 DEF Next
<1> QED BY <1>1, <1>2, BaseInvariant, PTL DEF Spec

\* The greatest of the lifetimes, as the properties write it.
LEMMA LongestIsMax ==
  ASSUME NEW A, A \subseteq Nat, NEW m, Longest(A, m)
  PROVE  m = Max(A)
<1>1. m \in A /\ \A x \in A : m >= x BY DEF Longest
<1>2. Max(A) \in A /\ \A x \in A : Max(A) >= x BY <1>1 DEF Max
<1>3. m \in Nat /\ Max(A) \in Nat /\ m >= Max(A) /\ Max(A) >= m BY <1>1, <1>2
<1> QED BY <1>3

\* For every trace without ticks that the analysis accepts, the oracle's pass is valid
\* too and its age of a buffer is the longest lifetime the analysis finds.
THEOREM AnalysesAgreeCorrect == Spec => []AnalysesAgree
<1>1. Base /\ Aged => AnalysesAgree
  <2> SUFFICES ASSUME Aged, Begun, TickFree, Lifetimes(events).valid, NEW b \in Buffer
               PROVE  ages[b] = Max({0} \cup Required(Lifetimes(events).samples, b))
    BY DEF AnalysesAgree, Required
  <2>1. events \in Seq(TraceEvent) /\ \A i \in DOMAIN events : events[i].tick = 0
    BY DEF Aged, TickFree
  <2>2. OracleAges(events).valid BY <2>1, PassesAgree
  <2>3. Required(Lifetimes(events).samples, b) \subseteq Nat BY <2>1, PassesAgree
  <2>4. Longest({0} \cup Required(Lifetimes(events).samples, b), OracleAges(events).age[b])
    BY <2>1, PassesAgree
  <2>5. ages = OracleAges(events).age BY <2>2 DEF Aged, Begun
  <2>6. {0} \cup Required(Lifetimes(events).samples, b) \subseteq Nat BY <2>3
  <2> QED BY <2>4, <2>5, <2>6, LongestIsMax
<1> QED BY <1>1, AgedInvariant, PTL

\* For every trace, a percentile of its lifetimes is the least age that covers its share
\* of the written bytes.
THEOREM PercentilesCoverCorrect == Spec => []PercentilesCover
<1>1. Aged => PercentilesCover
  <2> SUFFICES ASSUME Aged, Lifetimes(events).samples # <<>>, NEW percent \in {50, 90, 99}
               PROVE  Covers(Lifetimes(events).samples, percent,
                             Percentile(Lifetimes(events).samples, percent))
    BY DEF PercentilesCover, Covers, UpTo
  <2>1. events \in Seq(TraceEvent) BY DEF Aged
  <2>2. PICK q \in Seq(LifetimeSample) : q = Lifetimes(events).samples BY <2>1, LifetimesAre
  <2>3. PICK n \in 1..100 : n = percent OBVIOUS
  <2>4. Sampled(q, n) BY <2>2 DEF Sampled
  <2>5. Covers(q, n, Percentile(q, n)) BY <2>4, SampledCovers
  <2> QED BY <2>2, <2>3, <2>5
<1> QED BY <1>1, AgedInvariant, PTL

\* For every trace of one stream without ticks that the analysis accepts, a class whose
\* retention exceeds every lifetime expires no line.
THEOREM LifetimesSufficeCorrect == Spec => []LifetimesSuffice
<1>1. Base /\ OnTime => LifetimesSuffice
  <2> DEFINE c == IF policy = "ephemeral" THEN Ephemeral ELSE Epoch
             q == Lifetimes(events).samples
  <2> SUFFICES ASSUME Base, OnTime, stage = "replay", policy \in {"ephemeral", "epoch"},
                      error_mode = "Deterministic", Serial, TickFree, stats.expired > 0,
                      Lifetimes(events).valid
               PROVE  \E i \in DOMAIN q : q[i].required >= RetentionCycles[c]
    BY DEF LifetimesSuffice
  <2>1. Quiet BY DEF Quiet, FollowsHints
  <2>2. /\ OracleAges(events).valid /\ Outlived /\ ages = OracleAges(events).age
    BY <2>1 DEF OnTime
  <2>3. PICK b \in Buffer : ages[b] >= RetentionCycles[c] BY <2>2 DEF Outlived, Chosen
  <2>4. events \in Seq(TraceEvent) /\ \A i \in DOMAIN events : events[i].tick = 0
    BY DEF Base, Typed, TickFree
  <2>5. Longest({0} \cup Required(q, b), ages[b])
    <3> HIDE DEF q
    <3> QED BY <2>2, <2>4, PassesAgree DEF q
  <2>6. RetentionCycles[c] \in Nat \ {0} BY ProfileAssumption DEF Class, Ephemeral, Epoch, Durable
  <2>7. ages[b] \in {0} \cup Required(q, b) BY <2>5 DEF Longest
  <2>8. ages[b] \in Required(q, b)
    <3>1. ages[b] # 0 BY <2>3, <2>6
    <3> QED BY <2>7, <3>1
  <2>9. PICK i \in DOMAIN q : ages[b] = q[i].required BY <2>8 DEF Required
  <2> QED BY <2>3, <2>9
<1> QED BY <1>1, OnTimeInvariant, PTL
===============================================================================
