-------------------------- MODULE RetentionRuntime --------------------------
(***************************************************************************)
(* The runtime of rtmem.cpp: regions own buffers, every active buffer has   *)
(* a retention deadline, and every call runs under the runtime's mutex.     *)
(*                                                                         *)
(* A call that touches one buffer is one action.  A call that loops over    *)
(* buffers (poll, region refresh, reclassify, end, destroy, trace attach    *)
(* and detach, runtime destroy) holds the mutex for the whole loop: it is   *)
(* a job, one action per loop iteration, and no other call starts before    *)
(* the job is idle again.  What can move under a job is the monotonic clock *)
(* and the trace stream, which has a lock of its own.                       *)
(*                                                                         *)
(* Every buffer handle that is used is one the caller has not freed (the    *)
(* API's precondition).  A slot of Buffer that was freed stands, when it is *)
(* allocated again, for a new handle with a fresh trace id.                 *)
(***************************************************************************)
EXTENDS Naturals, Sequences, FiniteSets, SequencesExt

CONSTANTS
  Region, Buffer, Trace,  \* handles: rt_region, rt_buffer, trace_writer
  NoRegion, NoTrace,      \* null pointers
  Policies,               \* the policies an application asks for
  Sizes,                  \* the buffer sizes it asks for
  MapModes,               \* the map flags it uses
  Strides,                \* the ticks it passes to rt_runtime_advance
  Retention,              \* options.class_retention_ticks
  Capacity,               \* options.class_capacity_bytes, 0 is unlimited
  PollGuard,              \* options.poll_guard_ticks
  ClockMode,              \* options.clock_mode
  kInfinite,              \* the largest tick of the clock's word, RTMEM_INFINITE_TICKS
  MaxTick,                \* bound of the model: the clock stops here
  InPlace,                \* backend::migrate returns null (host emulator)
  BackendMayFail,         \* backend calls may throw
  WriterMayFail           \* a write to the trace file may fail

Class == 0..2             \* RT_CLASS_EPHEMERAL, EPOCH, DURABLE
Actions == {"ERROR", "REFRESH", "INVALIDATE", "PROMOTE"}
Policy == [class : Class, action : Actions, required : BOOLEAN, target : Class]

ASSUME HandlesAssumption ==
  /\ IsFiniteSet(Buffer)
  /\ NoRegion \notin Region /\ NoTrace \notin Trace
ASSUME OptionsAssumption ==
  /\ kInfinite \in Nat /\ MaxTick \in 0..kInfinite /\ PollGuard \in Nat
  /\ Retention \in [Class -> 0..kInfinite] /\ Capacity \in [Class -> Nat]
  /\ ClockMode \in {"MANUAL", "MONOTONIC"}
  /\ InPlace \in BOOLEAN /\ BackendMayFail \in BOOLEAN /\ WriterMayFail \in BOOLEAN
ASSUME InputsAssumption ==
  /\ Policies \subseteq Policy
  /\ Sizes \subseteq Nat \ {0} /\ Strides \subseteq Nat \ {0}
  /\ MapModes \subseteq (SUBSET {"R", "W"}) \ {{}}

VARIABLES
  tick,           \* what now_locked returns
  job,            \* the loop the holder of the mutex is in
  regions,        \* runtime->regions, in creation order
  open,           \* region->active
  policy,         \* region->policy
  buffers,        \* region->buffers, in allocation order
  buf,            \* the fields of each rt_buffer
  activeBytes,    \* runtime->stats.active_bytes
  activeBuffers,  \* runtime->stats.active_buffers
  peak,           \* runtime->stats.peak_active_bytes
  regionBytes,    \* region->stats.active_bytes
  regionBuffers,  \* region->stats.active_buffers
  trace,          \* runtime->trace
  broken,         \* the writer's stream is in its (sticky) error state
  live,           \* the buffers a replay of the file holds at its end
  replayable      \* a replay of the file has met no unknown or duplicate id

ownerVars == <<regions, open, policy, buffers>>
statVars == <<activeBytes, activeBuffers, peak, regionBytes, regionBuffers>>
writerVars == <<broken, live, replayable>>
heapVars == <<ownerVars, buf, statVars>>
vars == <<tick, job, heapVars, trace, writerVars>>

FreeSlot == [state |-> "FREE", owner |-> NoRegion, size |-> 0, class |-> 0, map |-> {},
             exposed |-> FALSE, lastWrite |-> 0, traceLive |-> FALSE]
Idle == [op |-> "idle", region |-> NoRegion, rest |-> <<>>, todo |-> <<>>,
         now |-> 0, class |-> 0, bytes |-> 0]
NoPolicy == [class |-> 1, action |-> "REFRESH", required |-> TRUE, target |-> 2]

Init ==
  /\ tick = 0 /\ job = Idle
  /\ regions = <<>>
  /\ open = [r \in Region |-> FALSE] /\ policy = [r \in Region |-> NoPolicy]
  /\ buffers = [r \in Region |-> <<>>] /\ buf = [b \in Buffer |-> FreeSlot]
  /\ activeBytes = [c \in Class |-> 0] /\ activeBuffers = 0 /\ peak = 0
  /\ regionBytes = [r \in Region |-> 0] /\ regionBuffers = [r \in Region |-> 0]
  /\ trace = NoTrace
  /\ broken = [t \in Trace |-> FALSE] /\ live = [t \in Trace |-> {}]
  /\ replayable = [t \in Trace |-> TRUE]

-----------------------------------------------------------------------------
(* Deadlines.  A deadline that does not fit the word counts as infinite.     *)

Active(b) == buf[b].state = "ACTIVE"
Mapped(b) == buf[b].map # {}

\* Slip: the sum is not checked and wraps.
DeadlineWraps(b) ==
  IF Retention[buf[b].class] = kInfinite THEN kInfinite
  ELSE (buf[b].lastWrite + Retention[buf[b].class]) % (kInfinite + 1)

Deadline(b) ==
  LET retention == Retention[buf[b].class]
  IN  IF retention = kInfinite \/ buf[b].lastWrite > kInfinite - retention
      THEN kInfinite ELSE buf[b].lastWrite + retention

Overdue(b, now) == Deadline(b) # kInfinite /\ now >= Deadline(b)

\* What a second reading of the clock in the same call may return.
Later == IF ClockMode = "MANUAL" THEN {tick} ELSE tick..MaxTick

\* Slip: the bytes already active are forgotten.
FitsAlone(class, bytes) == Capacity[class] = 0 \/ bytes <= Capacity[class]

Fits(class, bytes) ==
  Capacity[class] = 0 \/ (/\ bytes <= Capacity[class]
                          /\ activeBytes[class] <= Capacity[class] - bytes)

-----------------------------------------------------------------------------
(* Trace events.  The reader of the file (workload replay) keeps the set of  *)
(* live buffers and rejects an ALLOC of a live one and any other event of an *)
(* unknown one.  A failed write leaves the stream failed for good; what is   *)
(* in the file of a broken writer is not tracked any further.                *)

Consumed(t, kind, b) ==
  /\ replayable' = [replayable EXCEPT ![t] = @ /\ ((b \in live[t]) <=> (kind # "ALLOC"))]
  /\ live' = [live EXCEPT ![t] = IF kind = "ALLOC" THEN @ \cup {b}
                                 ELSE IF kind = "FREE" THEN @ \ {b} ELSE @]

Recorded(kind, b) ==
  \/ trace = NoTrace /\ UNCHANGED writerVars
  \/ trace # NoTrace /\ ~broken[trace] /\ Consumed(trace, kind, b) /\ UNCHANGED broken

Lost ==
  /\ trace # NoTrace /\ (broken[trace] \/ WriterMayFail)
  /\ broken' = [broken EXCEPT ![trace] = TRUE]
  /\ UNCHANGED <<live, replayable>>

\* Slip: only an active buffer is freed in the file.
FreeRecordedIfActive(b) ==
  IF Active(b) /\ buf[b].traceLive THEN Recorded("FREE", b) ELSE UNCHANGED writerVars

\* trace_free_locked: on success the caller clears trace_live.
FreeRecorded(b) == IF buf[b].traceLive THEN Recorded("FREE", b) ELSE UNCHANGED writerVars
FreeLost(b) == buf[b].traceLive /\ Lost

-----------------------------------------------------------------------------
(* Storage of a buffer.                                                      *)

\* release_storage_locked, the buffer's own fields.
Released(buffer, state) ==
  [buffer EXCEPT !.state = state, !.exposed = FALSE, !.map = {}]

\* release_storage_locked, the counters, for an active buffer.
Discounted(b) ==
  /\ activeBuffers' = activeBuffers - 1
  /\ activeBytes' = [activeBytes EXCEPT ![buf[b].class] = @ - buf[b].size]
  /\ regionBuffers' = [regionBuffers EXCEPT ![buf[b].owner] = @ - 1]
  /\ regionBytes' = [regionBytes EXCEPT ![buf[b].owner] = @ - buf[b].size]
  /\ UNCHANGED peak

Release(b, state) ==
  /\ buf' = [buf EXCEPT ![b] = Released(@, state)]
  /\ Discounted(b)
  /\ UNCHANGED ownerVars

\* The buffer's last write is dated t, and the clock has been read as t.
Dated(b, t) ==
  /\ buf' = [buf EXCEPT ![b].lastWrite = t]
  /\ UNCHANGED <<ownerVars, statVars>>

\* Slip: validation looks at the state only.
ValidState(b) == Active(b) /\ open[buf[b].owner]

\* validate_active_locked succeeds, or finds the deadline missed.
Valid(b) == Active(b) /\ open[buf[b].owner] /\ ~Overdue(b, tick)
Missed(b) == Active(b) /\ open[buf[b].owner] /\ Overdue(b, tick)

-----------------------------------------------------------------------------
(* reclassify_locked after validation, the BUSY check and the hint.          *)

\* Slip: the source class keeps the bytes.
RetagAddsOnly(b, class) ==
  \E t \in Later :
    /\ tick' = t
    /\ buf' = [buf EXCEPT ![b] = [@ EXCEPT !.class = class, !.lastWrite = t]]
    /\ activeBytes' = [activeBytes EXCEPT ![class] = @ + buf[b].size]
    /\ Fits(class, buf[b].size)
    /\ UNCHANGED <<ownerVars, activeBuffers, peak, regionBytes, regionBuffers>>

\* Storage that moves is no longer at the pointer the application has.
Retagged(buffer, class, t) ==
  [buffer EXCEPT !.class = class, !.lastWrite = t, !.exposed = @ /\ InPlace]

Retag(b, class) ==
  \E t \in Later :
    /\ tick' = t
    /\ \/ class = buf[b].class /\ Dated(b, t)
       \/ /\ class # buf[b].class /\ Fits(class, buf[b].size)
          /\ buf' = [buf EXCEPT ![b] = Retagged(@, class, t)]
          /\ activeBytes' = [activeBytes EXCEPT ![buf[b].class] = @ - buf[b].size,
                                                ![class] = @ + buf[b].size]
          /\ UNCHANGED <<ownerVars, activeBuffers, peak, regionBytes, regionBuffers>>

NoRoom(b, class) == class # buf[b].class /\ ~Fits(class, buf[b].size)

MigrateFails(b, class) ==
  class # buf[b].class /\ Fits(class, buf[b].size) /\ BackendMayFail

-----------------------------------------------------------------------------
(* The clock.                                                                *)

Advance(ticks) ==
  /\ job = Idle /\ ClockMode = "MANUAL"
  /\ tick <= kInfinite - ticks
  /\ tick + ticks <= MaxTick
  /\ tick' = tick + ticks
  /\ UNCHANGED <<job, heapVars, trace, writerVars>>

\* std::chrono::steady_clock moves whoever holds the mutex.
ClockTicks ==
  /\ ClockMode = "MONOTONIC" /\ tick < MaxTick
  /\ tick' = tick + 1
  /\ UNCHANGED <<job, heapVars, trace, writerVars>>

-----------------------------------------------------------------------------
(* Regions and allocation.                                                   *)

RegionCreate(r, p) ==
  /\ job = Idle /\ r \notin ToSet(regions)
  /\ p.action = "PROMOTE" => p.target > p.class
  /\ regions' = Append(regions, r)
  /\ open' = [open EXCEPT ![r] = TRUE] /\ policy' = [policy EXCEPT ![r] = p]
  /\ regionBytes' = [regionBytes EXCEPT ![r] = 0]
  /\ regionBuffers' = [regionBuffers EXCEPT ![r] = 0]
  /\ UNCHANGED <<tick, job, buffers, buf, activeBytes, activeBuffers, peak, trace, writerVars>>

Total == activeBytes[0] + activeBytes[1] + activeBytes[2]

PeakWith(size) == IF Total + size > peak THEN Total + size ELSE peak

\* rt_alloc: the ALLOC event comes before the counters, and undoes the
\* allocation when it cannot be written.
Alloc(r, b, size) ==
  /\ job = Idle /\ open[r] /\ buf[b].state = "FREE"
  /\ LET class == policy[r].class IN
     /\ Fits(class, size)
     /\ \/ Lost /\ UNCHANGED heapVars
        \/ /\ Recorded("ALLOC", b)
           /\ buf' = [buf EXCEPT ![b] =
                [state |-> "ACTIVE", owner |-> r, size |-> size, class |-> class, map |-> {},
                 exposed |-> FALSE, lastWrite |-> tick, traceLive |-> TRUE]]
           /\ buffers' = [buffers EXCEPT ![r] = Append(@, b)]
           /\ activeBuffers' = activeBuffers + 1
           /\ activeBytes' = [activeBytes EXCEPT ![class] = @ + size]
           /\ peak' = PeakWith(size)
           /\ regionBytes' = [regionBytes EXCEPT ![r] = @ + size]
           /\ regionBuffers' = [regionBuffers EXCEPT ![r] = @ + 1]
           /\ UNCHANGED <<regions, open, policy>>
  /\ UNCHANGED <<tick, job, trace>>

\* Slip: the counters are decremented whatever the state.
DeletedAlwaysDiscounted(b) ==
  /\ buf' = [buf EXCEPT ![b] = FreeSlot]
  /\ buffers' = [buffers EXCEPT ![buf[b].owner] = SelectSeq(@, LAMBDA x : x # b)]
  /\ Discounted(b)
  /\ UNCHANGED <<regions, open, policy>>

\* Slip: the region's vector keeps the deleted buffer.
DeletedNotErased(b) ==
  /\ buf' = [buf EXCEPT ![b] = FreeSlot]
  /\ IF Active(b) THEN Discounted(b) ELSE UNCHANGED statVars
  /\ UNCHANGED ownerVars

\* Erase b from its region's vector and delete it, releasing active storage.
Deleted(b) ==
  /\ buf' = [buf EXCEPT ![b] = FreeSlot]
  /\ \E i \in DOMAIN buffers[buf[b].owner] :
       /\ buffers[buf[b].owner][i] = b
       /\ buffers' = [buffers EXCEPT ![buf[b].owner] = RemoveAt(@, i)]
  /\ IF Active(b) THEN Discounted(b) ELSE UNCHANGED statVars
  /\ UNCHANGED <<regions, open, policy>>

\* rt_buffer_free ignores a lost FREE event, and a mapping.
BufferFree(b) ==
  /\ job = Idle /\ buf[b].state # "FREE"
  /\ FreeRecorded(b) \/ FreeLost(b)
  /\ Deleted(b)
  /\ UNCHANGED <<tick, job, trace>>

\* rt_region_free_pointer keeps the buffer when the FREE event is lost.
FreePointer(b) ==
  /\ job = Idle /\ buf[b].exposed /\ ~Mapped(b)
  /\ \/ FreeLost(b) /\ UNCHANGED heapVars
     \/ FreeRecorded(b) /\ Deleted(b)
  /\ UNCHANGED <<tick, job, trace>>

-----------------------------------------------------------------------------
(* Calls on one buffer.  Each of them validates the buffer first, except     *)
(* unmap.                                                                    *)

\* Any of the calls below, and flush, device_address, get_info: the deadline
\* was missed, the storage is released and the call returns RT_ERROR_EXPIRED.
ExpireOnUse(b) ==
  /\ job = Idle /\ Missed(b) /\ Release(b, "EXPIRED")
  /\ UNCHANGED <<tick, job, trace, writerVars>>

Map(b, flags) ==
  /\ job = Idle /\ Valid(b) /\ ~Mapped(b)
  /\ buf' = [buf EXCEPT ![b] = [@ EXCEPT !.map = flags, !.exposed = TRUE]]
  /\ UNCHANGED <<tick, job, ownerVars, statVars, trace, writerVars>>

Unmapped(buffer) ==
  [buffer EXCEPT !.map = {}, !.lastWrite = IF "W" \in buffer.map THEN tick ELSE @]

Unmap(b) ==
  /\ job = Idle /\ Active(b) /\ Mapped(b)
  /\ buf' = [buf EXCEPT ![b] = Unmapped(@)]
  /\ UNCHANGED <<tick, job, ownerVars, statVars, trace, writerVars>>

MarkWritten(b) ==
  /\ job = Idle /\ Valid(b)
  /\ \E t \in Later : tick' = t /\ Dated(b, t)
  /\ UNCHANGED <<job, trace, writerVars>>

Refresh(b) ==
  /\ job = Idle /\ Valid(b) /\ ~Mapped(b)
  /\ \E t \in Later : tick' = t /\ Dated(b, t)
  /\ UNCHANGED <<job, trace, writerVars>>

\* The HINT is written before the capacity is checked.
Hinted(b, class) ==
  \/ Lost /\ UNCHANGED <<tick, heapVars>>
  \/ /\ Recorded("HINT", b)
     /\ \/ Retag(b, class)
        \/ (NoRoom(b, class) \/ MigrateFails(b, class)) /\ UNCHANGED <<tick, heapVars>>

\* rt_buffer_reclassify, and rt_buffer_promote for a stronger class.
Reclassify(b, class) ==
  /\ job = Idle /\ Valid(b) /\ ~Mapped(b)
  /\ Hinted(b, class)
  /\ UNCHANGED <<job, trace>>

Invalidate(b) ==
  /\ job = Idle /\ Valid(b) /\ ~Mapped(b)
  /\ \/ FreeLost(b) /\ UNCHANGED heapVars
     \/ /\ FreeRecorded(b)
        /\ buf' = [buf EXCEPT ![b] = [Released(@, "INVALID") EXCEPT !.traceLive = FALSE]]
        /\ Discounted(b) /\ UNCHANGED ownerVars
  /\ UNCHANGED <<tick, job, trace>>

TraceAccess(b) ==
  /\ job = Idle /\ Valid(b) /\ trace # NoTrace
  /\ Recorded("ACCESS", b) \/ Lost
  /\ UNCHANGED <<tick, job, heapVars, trace>>

\* rt_trace_flush and rt_trace_destroy, outside the runtime's mutex, or a
\* phase, compute or barrier event: the stream enters its error state.
WriterBreaks(t) ==
  /\ WriterMayFail /\ ~broken[t]
  /\ broken' = [broken EXCEPT ![t] = TRUE]
  /\ UNCHANGED <<tick, job, heapVars, trace, live, replayable>>

-----------------------------------------------------------------------------
(* Loops under the mutex.                                                    *)

Working(ops) == job.op \in ops /\ job.todo # <<>>
Finished(ops) == job.op \in ops /\ job.todo = <<>> /\ job.rest = <<>>
Current == Head(job.todo)
Continue == job' = [job EXCEPT !.todo = Tail(@)]

NextRegion ==
  /\ job.op \in {"poll", "attach", "detach"} /\ job.todo = <<>> /\ job.rest # <<>>
  /\ LET r == Head(job.rest) IN
     job' = [job EXCEPT !.rest = Tail(@),
                        !.todo = IF job.op = "poll" /\ ~open[r] THEN <<>> ELSE buffers[r]]
  /\ UNCHANGED <<tick, heapVars, trace, writerVars>>

\* Slip: the clock is read before the mutex is taken.
PollEarlyClock ==
  /\ job = Idle
  /\ \E now \in 0..tick :
       job' = [Idle EXCEPT !.op = "poll", !.rest = regions, !.now = now]
  /\ UNCHANGED <<tick, heapVars, trace, writerVars>>

\* rt_runtime_poll reads the clock once for all buffers.
Poll ==
  /\ job = Idle
  /\ job' = [Idle EXCEPT !.op = "poll", !.rest = regions, !.now = tick]
  /\ UNCHANGED <<tick, heapVars, trace, writerVars>>

\* Slip: the guard is compared with < instead of <=.
DueLate(b) ==
  /\ Active(b) /\ ~Mapped(b) /\ Deadline(b) # kInfinite /\ ~Overdue(b, job.now)
  /\ Deadline(b) - job.now < PollGuard

Due(b) ==
  /\ Active(b) /\ ~Mapped(b) /\ Deadline(b) # kInfinite /\ ~Overdue(b, job.now)
  /\ Deadline(b) - job.now <= PollGuard

\* maintain_locked, by the buffer's on_expiry.
PollSkip(b) ==
  /\ \/ ~Active(b) \/ Mapped(b)
     \/ ~Overdue(b, job.now) /\ ~Due(b)
     \/ Due(b) /\ policy[buf[b].owner].action = "ERROR"
  /\ UNCHANGED <<tick, heapVars>>

\* Slip: the ERROR policy is looked at before the deadline.
PollExpireUnlessError(b) ==
  /\ Active(b) /\ ~Mapped(b) /\ Overdue(b, job.now)
  /\ policy[buf[b].owner].action # "ERROR"
  /\ Release(b, "EXPIRED") /\ UNCHANGED tick

PollExpire(b) ==
  /\ Active(b) /\ ~Mapped(b) /\ Overdue(b, job.now)
  /\ Release(b, "EXPIRED") /\ UNCHANGED tick

PollInvalidate(b) ==
  /\ Due(b) /\ policy[buf[b].owner].action = "INVALIDATE"
  /\ Release(b, "INVALID") /\ UNCHANGED tick

PollRefresh(b) ==
  /\ Due(b) /\ policy[buf[b].owner].action = "REFRESH"
  /\ Dated(b, job.now) /\ UNCHANGED tick

PollPromote(b) ==
  LET p == policy[buf[b].owner] IN
  /\ Due(b) /\ p.action = "PROMOTE"
  /\ \/ Missed(b) /\ Release(b, "EXPIRED") /\ UNCHANGED tick
     \/ Valid(b) /\ Retag(b, p.target)
     \/ Valid(b) /\ NoRoom(b, p.target) /\ ~p.required /\ Dated(b, job.now) /\ UNCHANGED tick
     \/ /\ Valid(b)
        /\ (NoRoom(b, p.target) /\ p.required) \/ MigrateFails(b, p.target)
        /\ UNCHANGED <<tick, heapVars>>

PollStep ==
  /\ Working({"poll"}) /\ Continue
  /\ \/ PollSkip(Current) \/ PollExpire(Current) \/ PollInvalidate(Current)
     \/ PollRefresh(Current) \/ PollPromote(Current)
  /\ UNCHANGED <<trace, writerVars>>

PollEnd ==
  /\ Finished({"poll"}) /\ job' = Idle
  /\ UNCHANGED <<tick, heapVars, trace, writerVars>>

-----------------------------------------------------------------------------
(* rt_region_refresh and rt_region_reclassify validate every buffer before   *)
(* the first one is changed.  The first buffer that fails ends the call.     *)

RegionRefresh(r) ==
  /\ job = Idle /\ open[r]
  /\ job' = [Idle EXCEPT !.op = "refresh", !.region = r, !.todo = buffers[r]]
  /\ UNCHANGED <<tick, heapVars, trace, writerVars>>

RegionReclassify(r, class) ==
  /\ job = Idle /\ open[r]
  /\ job' = [Idle EXCEPT !.op = "reclassify", !.region = r, !.todo = buffers[r], !.class = class]
  /\ UNCHANGED <<tick, heapVars, trace, writerVars>>

CheckPasses ==
  /\ Working({"refresh", "reclassify"})
  /\ Valid(Current) /\ ~Mapped(Current)
  /\ job' = [job EXCEPT !.todo = Tail(@),
                        !.bytes = IF job.op = "reclassify" /\ buf[Current].class # job.class
                                  THEN @ + buf[Current].size ELSE @]
  /\ UNCHANGED <<tick, heapVars, trace, writerVars>>

CheckFails ==
  /\ Working({"refresh", "reclassify"})
  /\ \/ Missed(Current) /\ Release(Current, "EXPIRED")
     \/ ~Active(Current) /\ UNCHANGED heapVars
     \/ Valid(Current) /\ Mapped(Current) /\ UNCHANGED heapVars
  /\ job' = Idle
  /\ UNCHANGED <<tick, trace, writerVars>>

RefreshAll ==
  /\ Finished({"refresh"}) /\ job' = Idle
  /\ buf' = [b \in Buffer |-> IF b \in ToSet(buffers[job.region])
                              THEN [buf[b] EXCEPT !.lastWrite = tick] ELSE buf[b]]
  /\ UNCHANGED <<tick, ownerVars, statVars, trace, writerVars>>

\* Slip: the sum is not checked.
ReclassifyUnchecked ==
  /\ Finished({"reclassify"})
  /\ job' = [job EXCEPT !.op = "apply", !.todo = buffers[job.region], !.bytes = 0]
  /\ UNCHANGED <<tick, heapVars, trace, writerVars>>

\* The sum of the sizes is checked once, then each buffer moves by itself.
ReclassifyChecked ==
  /\ Finished({"reclassify"})
  /\ job' = IF Fits(job.class, job.bytes)
            THEN [job EXCEPT !.op = "apply", !.todo = buffers[job.region], !.bytes = 0]
            ELSE Idle
  /\ UNCHANGED <<tick, heapVars, trace, writerVars>>

ApplyMoves ==
  /\ Working({"apply"}) /\ Valid(Current)
  /\ Recorded("HINT", Current) /\ Retag(Current, job.class)
  /\ Continue /\ UNCHANGED trace

ApplyFails ==
  /\ Working({"apply"})
  /\ \/ Missed(Current) /\ Release(Current, "EXPIRED") /\ UNCHANGED writerVars
     \/ Valid(Current) /\ Lost /\ UNCHANGED heapVars
     \/ /\ Valid(Current) /\ Recorded("HINT", Current)
        /\ NoRoom(Current, job.class) \/ MigrateFails(Current, job.class)
        /\ UNCHANGED heapVars
  /\ job' = Idle
  /\ UNCHANGED <<tick, trace>>

ApplyEnd ==
  /\ Finished({"apply"}) /\ job' = Idle
  /\ UNCHANGED <<tick, heapVars, trace, writerVars>>

-----------------------------------------------------------------------------
(* end_region_locked: rt_region_end, rt_region_destroy, rt_runtime_destroy.  *)

RegionEnd(r) ==
  /\ job = Idle /\ open[r]
  /\ job' = [Idle EXCEPT !.op = "end", !.region = r, !.todo = buffers[r]]
  /\ UNCHANGED <<tick, heapVars, trace, writerVars>>

RegionDestroy(r) ==
  /\ job = Idle /\ r \in ToSet(regions)
  /\ job' = [Idle EXCEPT !.op = "destroy", !.region = r,
                         !.todo = IF open[r] THEN buffers[r] ELSE <<>>]
  /\ UNCHANGED <<tick, heapVars, trace, writerVars>>

RuntimeDestroy ==
  /\ job = Idle
  /\ job' = [Idle EXCEPT !.op = "shutdown"]
  /\ UNCHANGED <<tick, heapVars, trace, writerVars>>

Ended(buffer) == IF buffer.state = "ACTIVE" THEN Released(buffer, "INVALID") ELSE buffer

\* The result of trace_free_locked is ignored, the storage released anyway.
EndBuffer ==
  /\ Working({"end", "destroy", "shutdown"}) /\ Continue
  /\ \/ FreeRecorded(Current)
        /\ buf' = [buf EXCEPT ![Current] = [Ended(@) EXCEPT !.traceLive = FALSE]]
     \/ FreeLost(Current) /\ buf' = [buf EXCEPT ![Current] = Ended(@)]
  /\ IF Active(Current) THEN Discounted(Current) ELSE UNCHANGED statVars
  /\ UNCHANGED <<tick, ownerVars, trace>>

EndRegion ==
  /\ Finished({"end"}) /\ job' = Idle
  /\ open' = [open EXCEPT ![job.region] = FALSE]
  /\ UNCHANGED <<tick, regions, policy, buffers, buf, statVars, trace, writerVars>>

DeleteRegion(r) ==
  /\ \E i \in DOMAIN regions : regions[i] = r /\ regions' = RemoveAt(regions, i)
  /\ open' = [open EXCEPT ![r] = FALSE] /\ policy' = [policy EXCEPT ![r] = NoPolicy]
  /\ buffers' = [buffers EXCEPT ![r] = <<>>]
  /\ buf' = [b \in Buffer |-> IF b \in ToSet(buffers[r]) THEN FreeSlot ELSE buf[b]]
  /\ UNCHANGED statVars

DestroyRegion ==
  /\ Finished({"destroy"}) /\ job' = Idle
  /\ DeleteRegion(job.region)
  /\ UNCHANGED <<tick, trace, writerVars>>

ShutdownRegion ==
  /\ Finished({"shutdown"})
  /\ \/ /\ job.region = NoRegion /\ regions # <<>>
        /\ LET r == Head(regions) IN
           job' = [job EXCEPT !.region = r, !.todo = IF open[r] THEN buffers[r] ELSE <<>>]
        /\ UNCHANGED heapVars
     \/ /\ job.region # NoRegion
        /\ DeleteRegion(job.region)
        /\ job' = [job EXCEPT !.region = NoRegion]
  /\ UNCHANGED <<tick, trace, writerVars>>

\* The runtime is gone, and with it its reference to the writer.
ShutdownEnd ==
  /\ Finished({"shutdown"}) /\ job.region = NoRegion /\ regions = <<>>
  /\ job' = [Idle EXCEPT !.op = "dead"] /\ trace' = NoTrace
  /\ UNCHANGED <<tick, heapVars, writerVars>>

-----------------------------------------------------------------------------
(* Attaching a writer announces the buffers that exist, detaching it frees   *)
(* them in the file: trace_live stays as it is.                              *)

AttachTrace(t) ==
  /\ job = Idle /\ trace = NoTrace
  /\ trace' = t
  /\ job' = [Idle EXCEPT !.op = "attach", !.rest = regions]
  /\ UNCHANGED <<tick, heapVars, writerVars>>

DetachTrace ==
  /\ job = Idle /\ trace # NoTrace
  /\ job' = [Idle EXCEPT !.op = "detach", !.rest = regions]
  /\ UNCHANGED <<tick, heapVars, trace, writerVars>>

\* Slip: attaching announces the active buffers only.
AnnouncesActive(b) == Active(b)

Announces(b) == buf[b].traceLive
Announced == IF job.op = "attach" THEN "ALLOC" ELSE "FREE"

AnnounceBuffer ==
  /\ Working({"attach", "detach"})
  /\ \/ /\ IF Announces(Current) THEN Recorded(Announced, Current) ELSE UNCHANGED writerVars
        /\ Continue /\ UNCHANGED trace
     \/ /\ Announces(Current) /\ Lost
        /\ job' = Idle /\ trace' = IF job.op = "attach" THEN NoTrace ELSE trace
  /\ UNCHANGED <<tick, heapVars>>

AttachEnd ==
  /\ Finished({"attach"}) /\ job' = Idle
  /\ UNCHANGED <<tick, heapVars, trace, writerVars>>

\* The last flush decides whether the writer is let go.
DetachEnd ==
  /\ Finished({"detach"}) /\ job' = Idle
  /\ \/ ~broken[trace] /\ trace' = NoTrace /\ UNCHANGED writerVars
     \/ Lost /\ UNCHANGED trace
  /\ UNCHANGED <<tick, heapVars>>

-----------------------------------------------------------------------------
Handler ==
  \/ \E d \in Strides : Advance(d)
  \/ \E r \in Region, p \in Policies : RegionCreate(r, p)
  \/ \E r \in Region, b \in Buffer, n \in Sizes : Alloc(r, b, n)
  \/ \E b \in Buffer : BufferFree(b) \/ FreePointer(b) \/ ExpireOnUse(b) \/ Unmap(b)
                       \/ MarkWritten(b) \/ Refresh(b) \/ Invalidate(b) \/ TraceAccess(b)
  \/ \E b \in Buffer, flags \in MapModes : Map(b, flags)
  \/ \E b \in Buffer, c \in Class : Reclassify(b, c)
  \/ \E r \in Region : RegionRefresh(r) \/ RegionEnd(r) \/ RegionDestroy(r)
  \/ \E r \in Region, c \in Class : RegionReclassify(r, c)
  \/ \E t \in Trace : AttachTrace(t)
  \/ Poll \/ DetachTrace \/ RuntimeDestroy

JobStep ==
  \/ NextRegion \/ PollStep \/ PollEnd
  \/ CheckPasses \/ CheckFails \/ RefreshAll
  \/ ReclassifyChecked \/ ApplyMoves \/ ApplyFails \/ ApplyEnd
  \/ EndBuffer \/ EndRegion \/ DestroyRegion \/ ShutdownRegion \/ ShutdownEnd
  \/ AnnounceBuffer \/ AttachEnd \/ DetachEnd

Environment == ClockTicks \/ \E t \in Trace : WriterBreaks(t)

Next == Handler \/ JobStep \/ Environment

Spec == Init /\ [][Next]_vars

-----------------------------------------------------------------------------
(* Properties.                                                               *)

Slot == [state : {"FREE", "ACTIVE", "INVALID", "EXPIRED"}, owner : Region \cup {NoRegion},
         size : Nat, class : Class, map : SUBSET {"R", "W"}, exposed : BOOLEAN,
         lastWrite : Nat, traceLive : BOOLEAN]
Ops == {"idle", "poll", "refresh", "reclassify", "apply", "end", "destroy", "shutdown",
        "dead", "attach", "detach"}
Job == [op : Ops, region : Region \cup {NoRegion}, rest : Seq(Region), todo : Seq(Buffer),
        now : Nat, class : Class, bytes : Nat]

\* Every variable stays in its type; the counters of rt_runtime_stats and
\* rt_region_stats, unsigned in the code, never wrap below zero.
TypeOK ==
  /\ tick \in Nat /\ job \in Job
  /\ regions \in Seq(Region) /\ open \in [Region -> BOOLEAN] /\ policy \in [Region -> Policy]
  /\ buffers \in [Region -> Seq(Buffer)] /\ buf \in [Buffer -> Slot]
  /\ activeBytes \in [Class -> Nat] /\ activeBuffers \in Nat /\ peak \in Nat
  /\ regionBytes \in [Region -> Nat] /\ regionBuffers \in [Region -> Nat]
  /\ trace \in Trace \cup {NoTrace} /\ broken \in [Trace -> BOOLEAN]
  /\ live \in [Trace -> SUBSET Buffer] /\ replayable \in [Trace -> BOOLEAN]

\* The bytes of a set of buffers, as a set.
Bytes(S) == UNION {{b} \X (1..buf[b].size) : b \in S}
ActiveIn(c) == {b \in Buffer : Active(b) /\ buf[b].class = c}
ActiveOf(r) == {b \in Buffer : Active(b) /\ buf[b].owner = r}

\* The counters kept by increments and decrements in alloc, release, migrate,
\* end and delete always equal what the heap holds (rtmem.cpp:157-175, 270-273,
\* 1142-1151).
Accounting ==
  /\ \A c \in Class : activeBytes[c] = Cardinality(Bytes(ActiveIn(c)))
  /\ activeBuffers = Cardinality({b \in Buffer : Active(b)})
  /\ \A r \in Region : /\ regionBytes[r] = Cardinality(Bytes(ActiveOf(r)))
                       /\ regionBuffers[r] = Cardinality(ActiveOf(r))

\* No sequence of allocations, migrations and poll promotions overfills a
\* class with a capacity, although each check sees one buffer or one sum
\* (rtmem.cpp:204-217).
CapacityRespected == \A c \in Class : Capacity[c] # 0 => activeBytes[c] <= Capacity[c]

\* peak_active_bytes is updated by rt_alloc only, yet covers the bytes active at any
\* time, promotions included (rtmem.cpp:1146-1148).
PeakCovers == Total <= peak

\* The vectors of the regions and the owner pointers of the buffers agree: every
\* handle in use is in exactly one vector, once, of a region of the runtime, so
\* no loop visits a deleted buffer (rtmem.cpp:354-368, 1078-1080).
VectorsMatchOwners ==
  /\ \A r \in Region :
       /\ IsInjective(buffers[r])
       /\ ToSet(buffers[r]) = {b \in Buffer : buf[b].state # "FREE" /\ buf[b].owner = r}
       /\ r \notin ToSet(regions) => buffers[r] = <<>> /\ ~open[r]
  /\ IsInjective(regions)

\* Storage is given back with the state: only an active buffer of a region
\* that has not ended is mapped, or has a pointer rt_region_free_pointer finds.
StorageReturned ==
  \A b \in Buffer : IF Active(b) THEN open[buf[b].owner] ELSE ~Mapped(b) /\ ~buf[b].exposed

\* A trace file that was written without an error replays: no ALLOC of a live
\* id, no FREE, HINT or ACCESS of an unknown one, whatever was attached,
\* detached, expired, invalidated and freed in between.
TraceReplays == \A t \in Trace : replayable[t]

\* Between calls an attached healthy writer's file holds exactly the handles
\* whose trace_live is set, which include every active buffer; a writer
\* that was let go without an error has no buffer left in its file.
TraceBalanced ==
  job.op \in {"idle", "dead"} =>
    \A t \in Trace : ~broken[t] =>
      IF t = trace
      THEN live[t] = {b \in Buffer : buf[b].traceLive} /\ \A b \in Buffer : Active(b) => b \in live[t]
      ELSE live[t] = {}

\* With the manual clock, a buffer whose deadline has passed gets a new age
\* from no call but the unmapping of a write (rtmem.cpp:1241-1244).
RepairedOnlyByUnmap ==
  [][\A b \in Buffer :
       Active(b) /\ Overdue(b, tick) /\ buf'[b].state = "ACTIVE"
         => \/ Deadline(b)' = Deadline(b)
            \/ "W" \in buf[b].map /\ buf'[b].map = {}]_vars

\* The age of a buffer is never set back, nor dated after the clock, although
\* poll dates its refreshes with a reading of the clock it took before its first
\* buffer, and reclassify with one taken after its checks (rtmem.cpp:286, 758).
AgesMonotone ==
  [][\A b \in Buffer :
       Active(b) /\ buf'[b].state = "ACTIVE"
         => buf[b].lastWrite <= buf'[b].lastWrite /\ buf'[b].lastWrite <= tick']_vars

\* What phase one of rt_region_reclassify checked for all buffers is enough
\* for phase two: with the manual clock, no trace and a backend that does not fail
\* the second loop moves every buffer, or none was touched (rtmem.cpp:973-1005).
ReclassifyAllOrNothing ==
  [][/\ ClockMode = "MANUAL" /\ ~BackendMayFail /\ trace = NoTrace
     /\ job.op = "apply" /\ job'.op = "idle"
     => \A b \in ToSet(buffers[job.region]) : Active(b) /\ buf[b].class = job.class]_vars

\* A buffer expires only when its class has really held it for its retention, also when
\* the last write plus the retention does not fit the clock's word
\* (rtmem.cpp:113-122, 193-194, 298-304).
ExpiresOnlyOverdue ==
  [][\A b \in Buffer :
       Active(b) /\ buf'[b].state = "EXPIRED"
         => tick' - buf[b].lastWrite >= Retention[buf[b].class]]_vars
=============================================================================
