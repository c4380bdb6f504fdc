----------------------------- MODULE TraceReplay -----------------------------
(***************************************************************************)
(* run_workload_trace: a trace is loaded, then its events are replayed in  *)
(* order on an EvidenceMemory under one placement policy.  An event of     *)
(* several lines, its maintenance and a migration take one step for every  *)
(* memory command; job says how far the event at pos has come.             *)
(*                                                                         *)
(* An exception ends the replay without a report: it leaves its name in    *)
(* fault.  Cycles, byte counts and addresses do not overflow here.         *)
(***************************************************************************)
EXTENDS EvidenceMemory, TraceAnalysis

CONSTANTS
  Workloads,    \* BOUND: sets of events a trace is drawn from, with its longest length
  Guard,        \* ReplayOptions.maintenance_guard_cycles
  MaxAttempts   \* BOUND: iterations of ensure_retained, 100000 in the code

ASSUME ReplayAssumption ==
  /\ Guard \in Nat /\ MaxAttempts \in Nat \ {0}
  /\ \A w \in Workloads : w.events \subseteq TraceEvent

VARIABLES
  stage,        \* "load", "rejected", "replay" or "done"
  workload,     \* what the trace is drawn from
  events,       \* the vector load_events returns
  policy,       \* ReplayPolicy
  ages,         \* the oracle's ages
  pos,          \* the event being replayed
  job,          \* how far it has come
  allocations,  \* by live buffer id
  nextBase,     \* next_base, in lines
  ready,        \* stream_ready: the streams seen so far
  stats,        \* ReplayStatistics
  liveBytes     \* live_bytes of each class

traceVars == <<stage, workload, events, policy, ages>>
replayVars == <<pos, job, allocations, nextBase, ready, stats, liveBytes>>
vars == <<memoryVars, traceVars, replayVars>>

Policy == {"hint", "ephemeral", "epoch", "durable", "oracle", "refresh", "adaptive"}
FollowsHints == {"hint", "refresh", "adaptive"}
Maintains == {"refresh", "adaptive"}

Idle == [op |-> "idle", line |-> 0, completion |-> 0, attempts |-> 0,
         dest |-> Epoch, moved |-> 0, at |-> 0, start |-> 0, deadline |-> 0]
NoFailures == [unsafe |-> 0, allocation |-> 0, expired |-> 0, uninitialized |-> 0,
               missing |-> 0, migration |-> 0, maintenance |-> 0, rejected |-> 0,
               readBytes |-> 0, writeBytes |-> 0]

Init ==
  /\ MemoryInit
  /\ stage = "load" /\ workload \in Workloads /\ events = <<>>
  /\ policy \in Policy /\ ages = [b \in Buffer |-> 0]
  /\ pos = 1 /\ job = Idle /\ allocations = <<>> /\ nextBase = 0 /\ ready = <<>>
  /\ stats = NoFailures /\ liveBytes = [c \in Class |-> 0]

-----------------------------------------------------------------------------
(* Loading.                                                                  *)

\* BOUND: a trace ends with the first event the replay would throw at.
Referenced(trace) ==
  /\ Lifetimes(trace).valid
  /\ \A i \in DOMAIN trace :
       trace[i].kind = "HINT" => Lifetimes(SubSeq(trace, 1, i - 1)).size[trace[i].buffer] # 0

Load ==
  /\ stage = "load" /\ Len(events) < workload.longest /\ Referenced(events)
  /\ \E e \in workload.events : events' = Append(events, e)
  /\ UNCHANGED <<memoryVars, stage, workload, policy, ages, replayVars>>

\* A malformed line, or a sequence number that does not follow, rejects the file.
Reject ==
  /\ stage = "load" /\ stage' = "rejected" /\ events' = <<>>
  /\ UNCHANGED <<memoryVars, workload, policy, ages, replayVars>>

\* replay_events asks for the oracle's ages whatever the policy.
Start ==
  /\ stage = "load" /\ stage' = "replay"
  /\ LET oracle == OracleAges(events) IN
     IF oracle.valid THEN ages' = oracle.age /\ UNCHANGED fault
     ELSE fault' = "access" /\ UNCHANGED ages
  /\ UNCHANGED <<lines, bankVars, operation, error_mode, workload, events, policy, replayVars>>

-----------------------------------------------------------------------------
(* The event at pos.                                                         *)

Current == events[pos]
Known == Current.buffer \in DOMAIN allocations
Allocation == allocations[Current.buffer]

\* Every event makes its stream known and moves it to the event's tick.
Arrived ==
  LET k == Current.stream
      before == IF k \in DOMAIN ready THEN ready[k] ELSE 0
  IN  Put(ready, k, Later(before, Current.tick))
Clock == Arrived[Current.stream]
AllReady(f) == Max({f[k] : k \in DOMAIN f})

Begins(kind) == stage = "replay" /\ fault = "none" /\ job.op = "idle"
                /\ pos <= Len(events) /\ Current.kind = kind
Ends == pos' = pos + 1 /\ job' = Idle
Throw(name) ==
  /\ fault' = name
  /\ UNCHANGED <<lines, bankVars, operation, error_mode, traceVars, replayVars>>

Stamp(k, t) == ready' = [Arrived EXCEPT ![k] = Later(@, t)]
StampAll(t) == ready' = [k \in DOMAIN Arrived |-> t]

\* Slip: a read of an unwritten line is counted by kind alone.
CountedByKind(failure, maintenance, migration) ==
  [stats EXCEPT !.unsafe = IF failure = "Uninitialized" THEN @ ELSE @ + 1,
                !.maintenance = IF maintenance THEN @ + 1 ELSE @,
                !.migration = IF migration THEN @ + 1 ELSE @,
                !.missing = IF failure = "Missing" THEN @ + 1 ELSE @,
                !.expired = IF failure = "Expired" THEN @ + 1 ELSE @]

\* record_failure
Counted(failure, maintenance, migration) ==
  [stats EXCEPT !.unsafe = @ + 1,
                !.maintenance = IF maintenance THEN @ + 1 ELSE @,
                !.migration = IF migration THEN @ + 1 ELSE @,
                !.missing = IF failure = "Missing" THEN @ + 1 ELSE @,
                !.uninitialized = IF failure = "Uninitialized" THEN @ + 1 ELSE @,
                !.expired = IF failure = "Expired" THEN @ + 1 ELSE @]

SelectedClass(e) ==
  CASE policy \in FollowsHints -> e.hint
    [] policy = "ephemeral" -> Ephemeral
    [] policy = "epoch" -> Epoch
    [] policy = "durable" -> Durable
    [] policy = "oracle" -> OracleClass(ages[e.buffer])

\* Slip: there is nothing above the middle class.
NextClassInMiddle(c) == Epoch

NextClass(c) == IF c = Ephemeral THEN Epoch ELSE Durable

\* The classes reserve_with_policy tries, weakest first.
Tried(c) == IF policy = "adaptive" THEN c..Durable ELSE {c}

AlignUp(base, alignment) == ((base + alignment - 1) \div alignment) * alignment

Allocate ==
  /\ Begins("ALLOC")
  /\ IF Known THEN Throw("duplicate")
     ELSE LET n == AlignedLines(Current.size)
              base == AlignUp(nextBase, Current.alignment)
              tried == Tried(SelectedClass(Current))
              fitting == {c \in tried : CanFit(c, n)}
              class == IF fitting = {} THEN Max(tried) ELSE Min(fitting)
          IN  /\ fitting # {} => Lines(base, n) \subseteq Line    \* BOUND: the addresses there are
              /\ IF fitting = {} THEN UNCHANGED memoryVars ELSE Reserve(base, n, class)
              /\ allocations' = Put(allocations, Current.buffer,
                                    [base |-> base, size |-> Current.size, lines |-> n,
                                     class |-> class, resident |-> fitting # {}])
              /\ nextBase' = base + n
              /\ stats' = IF fitting # {} THEN stats
                          ELSE [stats EXCEPT !.unsafe = @ + 1, !.allocation = @ + 1]
              /\ liveBytes' = [liveBytes EXCEPT ![class] = IF fitting # {} THEN @ + Current.size ELSE @]
              /\ ready' = Arrived /\ Ends /\ UNCHANGED traceVars

\* A buffer is given back when every stream seen so far and every bank is done.
Free ==
  /\ Begins("FREE")
  /\ IF ~Known THEN Throw("unknown")
     ELSE LET a == Allocation IN
          /\ IF a.resident
             THEN /\ StampAll(Max({AllReady(Arrived), BankReady}))
                  /\ Release(a.base, a.lines)
                  /\ liveBytes' = [liveBytes EXCEPT ![a.class] = @ - a.size]
             ELSE ready' = Arrived /\ UNCHANGED <<memoryVars, liveBytes>>
          /\ allocations' = [b \in DOMAIN allocations \ {Current.buffer} |-> allocations[b]]
          /\ Ends /\ UNCHANGED <<nextBase, stats, traceVars>>

\* migrate_allocation, up to its loop over the lines.
Hint ==
  /\ Begins("HINT")
  /\ IF ~Known THEN Throw("unknown")
     ELSE LET a == Allocation IN
          /\ ready' = Arrived
          /\ IF policy \notin FollowsHints \/ ~a.resident \/ a.class = Current.hint
             THEN Ends /\ UNCHANGED stats
             ELSE IF ~CanFit(Current.hint, a.lines)
             THEN Ends /\ stats' = [stats EXCEPT !.unsafe = @ + 1, !.migration = @ + 1]
             ELSE /\ job' = [Idle EXCEPT !.op = "hint", !.dest = Current.hint, !.at = Clock]
                  /\ UNCHANGED <<pos, stats>>
          /\ UNCHANGED <<memoryVars, allocations, nextBase, liveBytes, traceVars>>

Access ==
  /\ Begins("ACCESS")
  /\ IF ~Known \/ ~InBounds(Current, Allocation.size) THEN Throw("access")
     ELSE /\ ready' = Arrived
          /\ IF Allocation.resident
             THEN /\ job' = [Idle EXCEPT !.op = "access", !.line = FirstLine(Current),
                                         !.completion = Clock]
                  /\ UNCHANGED <<pos, stats>>
             ELSE Ends /\ stats' = [stats EXCEPT !.unsafe = @ + 1, !.rejected = @ + 1]
          /\ UNCHANGED <<memoryVars, allocations, nextBase, liveBytes, traceVars>>

Compute ==
  /\ Begins("COMPUTE") /\ Stamp(Current.stream, Clock + Current.cycles) /\ Ends
  /\ UNCHANGED <<memoryVars, allocations, nextBase, stats, liveBytes, traceVars>>

Phase ==
  /\ Begins("PHASE") /\ ready' = Arrived /\ Ends
  /\ UNCHANGED <<memoryVars, allocations, nextBase, stats, liveBytes, traceVars>>

\* Slip: the barrier holds only its own stream.
BarrierOfOneStream ==
  /\ Begins("BARRIER") /\ Stamp(Current.stream, Max({AllReady(Arrived), BankReady})) /\ Ends
  /\ UNCHANGED <<memoryVars, allocations, nextBase, stats, liveBytes, traceVars>>

Barrier ==
  /\ Begins("BARRIER") /\ StampAll(Max({AllReady(Arrived), BankReady})) /\ Ends
  /\ UNCHANGED <<memoryVars, allocations, nextBase, stats, liveBytes, traceVars>>

-----------------------------------------------------------------------------
(* The lines of an access: each read is preceded by ensure_retained, whose   *)
(* loop runs until the line will still hold at the cycle the read starts.    *)

Address == Allocation.base + job.line

Serving(op) == stage = "replay" /\ fault = "none" /\ job.op = op

\* Slip: a line due at the very cycle of the read is left alone.
DueAfter(l, t) ==
  /\ policy \in Maintains
  /\ lines[l].initialized /\ Deadline(l) # kInfinite
  /\ EarliestStart(lines[l].class, t) > Deadline(l)

Due(l, t) ==
  /\ policy \in Maintains
  /\ lines[l].initialized /\ Deadline(l) # kInfinite
  /\ EarliestStart(lines[l].class, t) >= Deadline(l)

\* Both kinds of maintenance are dated Guard cycles before the deadline.
MaintenanceStart(l) == IF Deadline(l) > Guard THEN Deadline(l) - Guard ELSE lines[l].lastWrite

\* After the read or write of one line: the next line, or the end of the event.
AccessedLine ==
  LET k == Current.stream
      completion == Later(job.completion, operation'.completion)
      last == job.line = LastLine(Current)
  IN  IF ~operation'.ok
      THEN /\ stats' = Counted(operation'.failure, FALSE, FALSE)
           /\ ready' = [ready EXCEPT ![k] = job.completion] /\ Ends
      ELSE /\ ready' = [ready EXCEPT ![k] = completion]
           /\ IF ~last
              THEN /\ job' = [Idle EXCEPT !.op = "access", !.line = job.line + 1,
                                          !.completion = completion]
                   /\ UNCHANGED <<pos, stats>>
              ELSE /\ Ends
                   /\ stats' = IF Current.write
                               THEN [stats EXCEPT !.writeBytes = @ + Current.size]
                               ELSE [stats EXCEPT !.readBytes = @ + Current.size]

\* A command that threw leaves the rest of the replay as it was.
After(command) ==
  /\ command
  /\ UNCHANGED <<error_mode, nextBase, traceVars>>

Write ==
  /\ Serving("access") /\ Current.write
  /\ After(WriteLine(Address, Allocation.class, job.completion))
  /\ UNCHANGED <<allocations, liveBytes>>
  /\ IF fault' = "none" THEN AccessedLine ELSE UNCHANGED <<pos, job, ready, stats>>

Read ==
  /\ Serving("access") /\ ~Current.write
  /\ job.attempts < MaxAttempts /\ ~Due(Address, job.completion)
  /\ After(ReadLine(Address, job.completion))
  /\ UNCHANGED <<allocations, liveBytes>>
  /\ IF fault' = "none" THEN AccessedLine ELSE UNCHANGED <<pos, job, ready, stats>>

Maintenance ==
  /\ Serving("access") /\ ~Current.write
  /\ job.attempts < MaxAttempts /\ Due(Address, job.completion)

Again(completion) == [job EXCEPT !.op = "access", !.attempts = @ + 1,
                                 !.completion = Later(@, completion)]

\* The adaptive policy moves the buffer to the class after the line's.  Nothing is
\* moved when the buffer is there already, and the loop goes round.
Promotes == policy = "adaptive" /\ lines[Address].class # Durable

Promote ==
  /\ Maintenance /\ Promotes
  /\ LET d == NextClass(lines[Address].class)
         start == MaintenanceStart(Address)
     IN  \/ Allocation.class = d /\ job' = Again(start)
         \/ /\ Allocation.class # d /\ CanFit(d, Allocation.lines)
            /\ job' = [job EXCEPT !.op = "promote", !.dest = d, !.moved = 0, !.at = start,
                                  !.start = start, !.deadline = Deadline(Address)]
  /\ UNCHANGED <<memoryVars, traceVars, pos, allocations, nextBase, ready, stats, liveBytes>>

\* A refresh that completes after the deadline came too late.
Refreshed(start, deadline) ==
  /\ After(RefreshLine(Address, start))
  /\ UNCHANGED <<allocations, ready, liveBytes>>
  /\ IF fault' # "none" THEN UNCHANGED <<pos, job, stats>>
     ELSE IF operation'.ok /\ operation'.completion <= deadline
     THEN job' = Again(operation'.completion) /\ UNCHANGED <<pos, stats>>
     ELSE /\ stats' = Counted(IF operation'.ok THEN "Expired" ELSE operation'.failure, TRUE, FALSE)
          /\ Ends

Refresh ==
  /\ Maintenance
  /\ Promotes => LET d == NextClass(lines[Address].class) IN
                 Allocation.class # d /\ ~CanFit(d, Allocation.lines)
  /\ Refreshed(MaintenanceStart(Address), Deadline(Address))

\* After a promotion that failed half way, with the line's status from before it.
RefreshAfterPromotion == Serving("refresh") /\ Refreshed(job.start, job.deadline)

Exhausted ==
  /\ Serving("access") /\ ~Current.write /\ job.attempts = MaxAttempts
  /\ Throw("limit")

\* Slip: the bytes stay with the class they left.
RelocatedAsOld(completion) ==
  /\ allocations' = [allocations EXCEPT ![Current.buffer].class = job.dest]
  /\ IF job.op = "hint"
     THEN ready' = [ready EXCEPT ![Current.stream] = Later(@, completion)] /\ Ends
     ELSE job' = Again(completion) /\ UNCHANGED <<pos, ready>>
  /\ UNCHANGED <<stats, liveBytes>>

\* Slip: the allocation keeps its class.
RelocatedKeepsClass(completion) ==
  /\ liveBytes' = [liveBytes EXCEPT ![Allocation.class] = @ - Allocation.size,
                                    ![job.dest] = @ + Allocation.size]
  /\ IF job.op = "hint"
     THEN ready' = [ready EXCEPT ![Current.stream] = Later(@, completion)] /\ Ends
     ELSE job' = Again(completion) /\ UNCHANGED <<pos, ready>>
  /\ UNCHANGED <<stats, allocations>>

\* All lines have moved: the allocation and its bytes follow.
Relocated(completion) ==
  /\ allocations' = [allocations EXCEPT ![Current.buffer].class = job.dest]
  /\ liveBytes' = [liveBytes EXCEPT ![Allocation.class] = @ - Allocation.size,
                                    ![job.dest] = @ + Allocation.size]
  /\ IF job.op = "hint"
     THEN ready' = [ready EXCEPT ![Current.stream] = Later(@, completion)] /\ Ends
     ELSE job' = Again(completion) /\ UNCHANGED <<pos, ready>>
  /\ UNCHANGED stats

\* The loop of migrate_allocation stops at the first line that fails; those before it
\* stay where they went.
Migrate ==
  /\ job.op \in {"hint", "promote"} /\ Serving(job.op)
  /\ After(MigrateLine(Allocation.base + job.moved, job.dest, job.at))
  /\ LET completion == Later(job.at, operation'.completion) IN
     IF fault' # "none" THEN UNCHANGED <<pos, job, ready, stats, allocations, liveBytes>>
     ELSE IF ~operation'.ok
     THEN /\ stats' = Counted(operation'.failure, job.op = "promote", TRUE)
          /\ IF job.op = "hint" THEN Ends ELSE job' = [job EXCEPT !.op = "refresh"] /\ UNCHANGED pos
          /\ UNCHANGED <<ready, allocations, liveBytes>>
     ELSE IF job.moved + 1 < Allocation.lines
     THEN /\ job' = [job EXCEPT !.moved = @ + 1, !.at = completion]
          /\ UNCHANGED <<pos, ready, stats, allocations, liveBytes>>
     ELSE Relocated(completion)

\* The report: SAFE when nothing was unsafe.
Report ==
  /\ stage = "replay" /\ fault = "none" /\ pos > Len(events) /\ stage' = "done"
  /\ UNCHANGED <<memoryVars, workload, events, policy, ages, replayVars>>

Replay ==
  \/ Allocate \/ Free \/ Hint \/ Access \/ Compute \/ Phase \/ Barrier
  \/ Write \/ Read \/ Promote \/ Refresh \/ RefreshAfterPromotion \/ Exhausted \/ Migrate

Next == Load \/ Reject \/ Start \/ Replay \/ Report

Spec == Init /\ [][Next]_vars

-----------------------------------------------------------------------------
\* Every counter and cycle stays a natural number: remove_live_bytes never
\* throws (workload_trace.cpp:161-163).
ReplayTypeOK ==
  /\ stage \in {"load", "rejected", "replay", "done"} /\ policy \in Policy
  /\ pos \in 1..(Len(events) + 1) /\ nextBase \in Nat
  /\ DOMAIN allocations \subseteq Buffer /\ DOMAIN ready \subseteq Stream
  /\ \A k \in DOMAIN ready : ready[k] \in Nat
  /\ \A f \in DOMAIN stats : stats[f] \in Nat
  /\ liveBytes \in [Class -> Nat]
  /\ \A b \in DOMAIN allocations : allocations[b].class \in Class

\* The sum of the sizes, as the number of the bytes.
SizeOf(table, S) == Cardinality(UNION {{x} \X (1..table[x].size) : x \in S})

\* The live bytes of a class are those of the buffers placed in it, whatever was
\* migrated, refused or freed in between (workload_trace.cpp:148-168, 556-559, 875-877).
Placed(c) == {b \in DOMAIN allocations : allocations[b].resident /\ allocations[b].class = c}
LiveBytesExact == \A c \in Class : liveBytes[c] = SizeOf(allocations, Placed(c))

\* As long as no migration has failed, all lines of a buffer are in the class it is
\* accounted to, and the memory never throws at a class, an overlap or an underflow
\* (workload_trace.cpp:538-561, evidence_model.cpp:64, 84, 204).
AllocationsWhole ==
  stats.migration = 0 =>
    /\ fault \notin {"class", "overlap", "underflow"}
    /\ job.op \notin {"hint", "promote"} =>
         \A b \in DOMAIN allocations :
           allocations[b].resident =>
             \A l \in Lines(allocations[b].base, allocations[b].lines) :
               lines[l].present /\ lines[l].class = allocations[b].class

\* A report that says SAFE has no failure of any kind, and has moved every byte the
\* trace reads and writes (workload_trace.cpp:472-498, 917-968, 1043-1046).
TraceBytes(write) ==
  SizeOf(events, {i \in DOMAIN events : events[i].kind = "ACCESS" /\ events[i].write = write})
SafeIsComplete ==
  stage = "done" /\ stats.unsafe = 0 =>
    stats = [NoFailures EXCEPT !.readBytes = TraceBytes(FALSE), !.writeBytes = TraceBytes(TRUE)]

Serial == \A i \in DOMAIN events : events[i].stream = events[1].stream
TickFree == \A i \in DOMAIN events : events[i].tick = 0

\* Event i is over before event j starts: the stream is the same, or there is a
\* barrier between them that the stream of j is already known at.
Ordered(i, j) ==
  \/ events[i].stream = events[j].stream
  \/ \E m \in (i + 1)..(j - 1) :
       /\ events[m].kind = "BARRIER"
       /\ \E n \in 1..m : events[n].stream = events[j].stream

\* Without maintenance and failed migrations, a line is looked at before it was
\* written, which ends the replay, only if two streams that no barrier orders use
\* the same buffer (workload_trace.cpp:978-988, evidence_model.cpp:130-134).
SynchronizedNeverEarly ==
  fault = "early" /\ policy \notin Maintains /\ stats.migration = 0 =>
    \E i, j \in 1..pos :
      /\ i < j /\ events[i].buffer = events[j].buffer /\ ~Ordered(i, j)
      /\ events[i].kind = "HINT" \/ events[i].write

\* One stream without ticks is never late under the oracle: the serial schedule with
\* the slowest latencies ages every line at least as much as the replay does.  A
\* durable bank may decay too, and then has to outlast the data (workload_trace.cpp:366-438).
OracleNeverLate ==
  /\ policy = "oracle" /\ error_mode = "Deterministic" /\ Serial /\ TickFree
  /\ RetentionCycles[Durable] = kInfinite \/ \A b \in Buffer : ages[b] < RetentionCycles[Durable]
  => stats.expired = 0

\* For such a trace, when the analysis accepts it, a class whose retention exceeds every
\* lifetime holds all its data (workload_trace.cpp:1423-1520).
LifetimesSuffice ==
  LET analysis == Lifetimes(events) IN
  /\ stage = "replay" /\ policy \in {"ephemeral", "epoch"} /\ error_mode = "Deterministic"
  /\ Serial /\ TickFree /\ stats.expired > 0 /\ analysis.valid
  => \E i \in DOMAIN analysis.samples :
       analysis.samples[i].required
         >= RetentionCycles[IF policy = "ephemeral" THEN Ephemeral ELSE Epoch]

Begun == stage = "replay" /\ fault = "none" /\ pos = 1 /\ job = Idle

\* The two passes over a trace agree: without ticks the oracle's age of a buffer is the
\* longest lifetime of its line versions, those of an earlier buffer with its id included
\* (workload_trace.cpp:366-425, 1423-1520).
AnalysesAgree ==
  LET analysis == Lifetimes(events) IN
  Begun /\ policy = "oracle" /\ TickFree /\ analysis.valid =>
    \A b \in Buffer :
      ages[b] = Max({0} \cup {analysis.samples[i].required :
                                i \in {j \in DOMAIN analysis.samples :
                                         analysis.samples[j].structure = b}})

\* A percentile is the least age by which that share of the written bytes has been
\* read for the last time (workload_trace.cpp:1136-1161).
PercentilesCover ==
  LET samples == Lifetimes(events).samples
      upTo(age) == Cardinality(Written(samples, {i \in DOMAIN samples : samples[i].required <= age}))
      all == Cardinality(Written(samples, DOMAIN samples))
  IN  Begun /\ policy = "hint" /\ error_mode = "Deterministic" /\ samples # <<>> =>
        \A percent \in {50, 90, 99} :
          LET age == Percentile(samples, percent) IN
          100 * upTo(age) >= percent * all /\ 100 * upTo(age - 1) < percent * all

\* With a guard, and until a migration fails, a read that its maintenance let through
\* finds the line in time, whatever the streams: what expires, expires in a refresh
\* (workload_trace.cpp:565-629, 904-968).
MaintainedReadsHold ==
  /\ policy \in Maintains /\ error_mode = "Deterministic" /\ Guard > 0
  /\ stats.migration = 0 /\ makespan < kInfinite
  => stats.expired <= stats.maintenance

\* The least a round of maintenance moves the date of a line on.
Round == Min({Later(0, RetentionCycles[c] - Guard) + ReadCycles[c] + WriteCycles[d] :
                c \in Class, d \in Class})

\* Unless a migration has failed and left a line in a class its buffer is not in, every
\* iteration of ensure_retained moves the line's date on: only time can bring the loop to
\* its limit (workload_trace.cpp:529-532, 579, 628).
MaintenanceConverges ==
  fault = "limit" /\ stats.migration = 0 => MaxAttempts * Round <= makespan

-----------------------------------------------------------------------------
\* Said by docs/tracing.md:57 of any trace: the oracle "Uses the complete trace to
\* choose a conservative weakest class per buffer".  A deterministic replay of one
\* stream for which every buffer had room then meets no expired line.
OracleConservative ==
  policy = "oracle" /\ error_mode = "Deterministic" /\ Serial /\ stats.allocation = 0 =>
    stats.expired = 0

\* Said by docs/architecture.md:73-74: the simulator "makes unsafe configurations
\* explicit through expired or capacity-failed accesses".  A trace of one stream that
\* names only live buffers then never ends in an exception.
UnsafeIsReported == Serial /\ Referenced(events) => fault = "none"
=============================================================================
