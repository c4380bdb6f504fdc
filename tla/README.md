# Verification of the programmable-retention runtime

The repository is a runtime for memory whose cells forget: an application puts
buffers into *regions*, a region names a *retention class* (ephemeral, epoch,
durable), and data that is not rewritten before its class's retention has gone
by is lost. This directory holds TLA+ models of it, TLC runs on small
instances, and TLAPS proofs for all instances.

## 1. The system

| Part | State it keeps | Operations | Correct when |
|---|---|---|---|
| runtime core `src/rtmem.cpp` | regions, their policies and buffer vectors; per buffer state, class, mapping, exposed pointer, date of the last write; byte and buffer counters; the clock; the attached trace | region create / end / destroy, alloc, free, map, unmap, mark, refresh, reclassify, promote, invalidate, poll, attach, detach | counters match the heap, no class is overfilled, expired data is never handed out, storage goes with the state |
| trace writer `src/trace_writer.cpp` | an output stream, next trace id, last error | one call per event, flush | a file written without an error can be replayed |
| host backend `src/backend_host.cpp` | one heap block per buffer | allocate, map, unmap, migrate (in place) | pointers stay valid |
| XRT backend `src/backend_xrt.cpp`, kernel `fpga/u280/rtmem_migrate.cpp` | per buffer a host copy and device memory in one of three groups | allocate, map, unmap, flush, migrate | the application's bytes survive mapping and migration |
| C++ API `src/rtmem_cpp.cpp`, `include/rtmem/rtmem.hpp` | shared states of `runtime` and `region`; the handle a `buffer` or `trace` owns; the table of `retention_resource`; the buffer a `traced_view` is open on | make, copy, move, assign, destroy; allocate and deallocate by pointer | nothing dangles, nothing is freed twice or lost; a pointer frees the buffer it was given for |
| retention model `sim/retention_model.cpp` | three banks of lines and a directory | write, read, refresh, migrate, invalidate, advance | directory and banks agree; a hit is the last value, in time |
| evidence model `sim/evidence_model.cpp` | lines, bank usage, channels' ready cycles | reserve, release, read, write, refresh, migrate | usage counts match, no access before its write |
| replay `sim/workload_trace.cpp` | live allocations, live bytes, streams, counters of the report | replay under seven policies, maintenance, migration, oracle ages, lifetime analysis | accounts are exact; a safe report is safe; maintenance keeps what it maintains; the oracle is never late |
| metadata controller `rtl/retention_metadata_controller.sv` | valid, class, last-write epoch per line | one command per cycle | a hit is inside its retention |
| device profile `sim/device_profile.cpp`, command line | parsed text | read once | what it accepts is what the models assume |

How they interact. The application calls the C API; each call takes the
runtime's one mutex, so calls of several threads are serialised, but a call
that loops (poll, region refresh and reclassify, end, destroy, attach, detach,
runtime destroy) visits buffer after buffer while the monotonic clock goes on,
and a trace writer, shared and with a mutex of its own, can be flushed or fail at
any moment. The runtime calls the backend under its mutex; the backend may throw.
Some calls (`rt_region_malloc`, `rt_buffer_read_bytes`, `rt_buffer_write_bytes`, the
memory resource) take the mutex several times, and others come between.
The trace file is read later by the replay, which keeps its own set of live
buffers, looks at the trace twice as a whole (oracle, lifetimes) and drives the evidence model with
every line of every access. Nothing is persisted; there is no crash recovery.

What is hard: a long sequence of legal calls on one buffer while its deadline
passes, with a mapping open, with the writer failed; the two-phase calls; the
guard of poll; data that exists twice (host copy and device memory); pointers whose address
is handed out again; a migration of several lines that fails in the middle;
several streams and channels that disagree about the time.

## 2. Modules

### RetentionRuntime

All of `rtmem.cpp` that changes state. A call on one buffer is one action. A
loop under the mutex is a *job*: starting the call sets `job`, each
iteration is one action, and no other call starts before `job` is `Idle` again. Under
a job only the monotonic clock (`ClockTicks`) and the writer's stream
(`WriterBreaks`) can move.

| TLA+ | code |
|---|---|
| `regions`, `open`, `policy`, `buffers` | `runtime->regions`, `region->active`, `region->policy`, `region->buffers` |
| `buf[b]` | the fields of `rt_buffer`; `"FREE"` is a deleted one |
| `activeBytes` ... `regionBuffers` | the counters of `rt_runtime_stats`, `rt_region_stats` |
| `trace`, `broken` | `runtime->trace`, the sticky error of the stream |
| `live`, `replayable` | what a replay of the file written so far has as live buffers, and whether it rejected anything |
| `Fits` | `capacity_check_locked` |
| `Released`, `Discounted` | `release_storage_locked` |
| `Valid`, `Missed`, `ExpireOnUse` | `validate_active_locked`, which every call runs first and which expires an overdue buffer |
| `Retag`, `NoRoom`, `MigrateFails`, `Hinted` | the outcomes of `reclassify_locked` |
| `Poll`, `PollSkip` ... `PollEnd` | `rt_runtime_poll`, `maintain_locked` by policy |
| `CheckPasses`, `CheckFails`, `RefreshAll`, `ReclassifyChecked`, `ApplyMoves` ... | the two phases of `rt_region_refresh` and `rt_region_reclassify` |
| `EndBuffer`, `EndRegion`, `DestroyRegion`, `ShutdownRegion` | `end_region_locked` and its three callers |
| `AnnounceBuffer`, `AttachEnd`, `DetachEnd` | the loops of attach and detach |

A buffer's bytes, generations, counters that only count calls, argument checks without
effect and error texts are left out. `InPlace` tells the host backend (migration
returns null, pointers stay) from XRT. Handles passed in are ones the
caller has not freed, as the API requires. `rt_region_malloc`,
`rt_buffer_read_bytes` and `rt_buffer_write_bytes` take the mutex several
times; any interleaving of the calls they make is a behaviour of the model. Who
makes them, and what they do without the mutex, is `PointerAllocators`.

### PolledRuntime

`RetentionRuntime` under the rule of `docs/software_api.md:45-47`: `lag` is the
time since the last finished poll read the clock, and steps that let it exceed `poll_guard_ticks`
are left out. It is the application's duty, not the code's.

### PointerAllocators

Two threads in the middle of a call that takes the mutex more than once, over one
region of a host-coherent runtime: `call[t]` says which
call and which of its steps comes next, and any other step may come first. `buf` keeps what such a
call depends on (state, exposed pointer, mapping, age), `table` is the map of
`retention_resource`, `grants` the pointers the application holds. Storage has
*addresses*: it is freed when its buffer expires or is freed, and a new buffer may get
its address. `contents` is what is stored at an address, and a write is whole only at the end of
its copy, which is made without the mutex. `Store` is a write through a pointer to a buffer that is
gone. The promises exclude what only the application can avoid, and say so: an
address that was handed out again while a pointer to the old buffer was still
held is `contested`, one written through such a pointer is `strayed`.

### OwningHandles

The objects of `rtmem_cpp.cpp` and `rtmem.hpp` over handles of the C API. `shared[v]` is the `state_` of a
`runtime` or `region` (`Nil` once moved from), `states` the state objects these share; a state
without a reference destroys its handle in a step of its own (`DestroyRuntime`, `DestroyRegion`), since a
thread lets go of it in between. `owns[x]` is what a `buffer`, `trace` or `retention_resource` holds: its
reference to a region and its handles. `views[w]` is the address of a buffer object that `traced_view` keeps.
The handles have only what the objects can notice: who is deleted with whom, who has storage, and which mapping
is open for whom. Expiry (`Expire`) and failing unmappings may come at any time. The application may do
anything C++ allows with the objects except use one it has moved from, or move, assign, destroy, map or unmap
a buffer object with a view open on it. An allocation by a resource
may find its address in the table already, under a buffer that has expired (`unlisted`): `PointerAllocators`
models the addresses that lead there.

### XrtBackend and BufferContents

One XRT buffer object: the host copy that mappings expose and the device memory of
its class's group, `sync` copying the logical bytes, migration copying whole
words into a *new* object whose host copy nobody has written
(`Undefined`; the code says why it does not fill it, `backend_xrt.cpp:149-151`). `expected`
is a history variable: what the application stored. `BufferContents` is the
abstract specification, a plain array in which migration, refresh and flush do not
exist; `KeepsPromise` says the XRT buffer implements it, with the host copy as the contents
while it is mapped for writing and the device memory otherwise. Buffers share no
state, so one is enough.

### RetentionMemory and RetainedLines

The simulator's memory: `bank[<<class, slot>>]` is `banks_[class].lines[slot]`,
`directory` is `directory_`, `now` is `now_`, `result` the last `Result`. `FreeSlot` is
`allocate_slot`, `Failing` and `Checked` are `retention_failed` and the date it leaves, and
each command is one action per outcome. In the stochastic mode a check of a finite line
may go either way once a cycle has passed since the last one. Energy and counters of
commands are left out; they decide nothing.

`RetainedLines` is the abstract specification, the command semantics of
`docs/architecture.md` without banks, slots or a directory: a line holds a value of some age in some
class, or nothing, and only a class that holds as many lines as it has capacity refuses. The refinement
(`Contents`) reads each line through the directory.

### EvidenceProfile and EvidenceMemory

`EvidenceProfile` declares the device profile, constrained by what the loader accepts. `EvidenceMemory` is
`evidence_model.cpp`: `lines`, `used` (`used_lines`), `channelReady`, `makespan`, and the
operation last returned. Unlike in `RetentionMemory` the caller gives the
time: a command names its issue cycle and waits for the channel of its bank that is free
soonest (`Soonest`), so banks with several channels may serve a command at an earlier cycle
than the one before it. `Fails` and `Survives` are `retention_failed` in both error
modes, its unsigned subtraction included. An exception puts its
name in `fault`. The commands take any issue cycle; `MemoryNext` is any caller, and the theorems are
about that, while TLC runs it under the replay, which is one caller.

### TraceAnalysis and TraceReplay

`TraceAnalysis` holds the two passes over a whole trace as folds over its
events: `OracleAges` with `OracleClass`, and `Lifetimes` with `Percentile`, whose `Sorted` puts one sample after
the other in its place for `std::sort` (equal ages in any order give the same percentile).
`TraceReplay` is `run_workload_trace`: a trace is loaded event by event (so every
trace of the workload's events is one behaviour), then replayed on an `EvidenceMemory` under one of the
seven policies. `job` says how far the event at `pos` has come: the lines of
an access, each read after its maintenance (`Promote`, `Refresh`,
`RefreshAfterPromotion` are the ways through the loop of `ensure_retained`), and the lines of a migration, which
stops at the first one that fails. `stats` keeps the counters that decide the verdict.
`TraceEvent` is what the loader accepts, and the assumption that traces are drawn from it is all that
the theorems know of the workloads. An allocation that fits its bank gets lines of `Line` (a bound: there
are more addresses than capacity in the code).
(thread, stream) pairs are one value, a buffer's region is its own, `LineBytes` is small;
texts, hashes and tables by structure are left out.

### MetadataController

`retention_metadata_controller.sv`: the three memories, the registers of the answer, and one
action per clock edge by command, idle and reset edges included; `Dated` is the assignments that write,
refresh and migrate share. `current_epoch` is an input; `EpochMoves` lets it count
up between two edges and turn over at `EpochRange`, which is 2^EPOCH_W. `age` is a
history variable: the epochs since the last write, with one value for a whole turn or
more. `cmd` records the command of the edge, since a migration and a write may look alike. After the first reset only the valid bits are known, so `Init` takes any classes and
epochs. All four codes of the two-bit class are inputs. What
EPOCH_W bits cannot tell is left out of the promise: the properties speak of lines that are `Tracked`, written less
than a whole turn ago. Beyond that an old line is a hit again: nothing in the controller visits
lines that no command names, and `docs/architecture.md:54-55` leaves such a sweep to later work.

## 3. Runs

| Run | Question | Result |
|---|---|---|
| `heap` | every call on two buffers while the clock moves inside calls and loops, capacities, failing backend: counters, peak, vectors, storage, ages | holds |
| `trace` | two regions compete for a class with room for one under a writer failing anywhere, attached and detached again, mapped only to write: do files replay, are they balanced, is reclassify all or nothing, what gives an overdue buffer a new age | holds |
| `polled` | the guard is right: refreshed and preferred-promoted buffers never expire if polled in time; an overdue, unmapped buffer does not stay (liveness) | holds |
| `pointers` | calls in several steps, addresses handed out again: buffers in use are kept, reads are whole, pointers free what they were given for, nothing is orphaned, nobody waits for ever | holds |
| `handles` | objects made, copied, moved, assigned and destroyed in any order: nothing dangles, no handle is freed twice or lost, a view closes its own mapping | holds |
| `xrt` | bytes survive maps, device kernels, migrations, failing syncs; refinement of `BufferContents` | holds |
| `memory` | banks, directory, decay by age and at random; refinement of `RetainedLines` | holds |
| `metadata` | answers from wrapped epochs are right by the true ages, lost lines stay lost | holds |
| `replay` | every short trace under every policy and error mode: accounts, verdict, order of streams, oracle against lifetimes against replay, maintenance | holds |
| `xrt_stale_copy` | bytes survive flushes and write-only mappings after a migration | violated |
| `oracle_late` | the oracle's classes are conservative for every trace | violated |
| `replay_aborts` | an unsafe configuration gives a report | violated |

Bounds. Two buffers of one or two bytes and capacities of one to three make a class
full by one buffer, by two, and never; two regions are enough to release bytes in one and
use them in the other; one writer is let go and taken again, and the theorems have any number.
`MaxTick` of 1 to 4 covers a write before, at and after each deadline of
retentions 1, 2, 3 and infinite, and guards of one and two. `kInfinite` is small, but above `MaxTick`
plus the retentions the runs use. Three bytes in words of two give a partial last word.
The memory has three lines, banks of one, two and one
slot, and retentions of two, three and infinite cycles, so banks fill up, a free slot may lie below one in
use, and commands take a line past its deadline while they run. The
controller has two lines and epochs of two bits, which turn over in two to four steps.
In `heap` the clock's largest value is one tick above `MaxTick`, so that deadlines
that do not fit the clock occur, and a write is mapped, marked and checked there. In
`polled` retentions of two and three ticks and a guard of one leave four ticks for two rounds of
maintenance. Three handles over two addresses let a buffer expire, a second get its
address and a third compete for the other; retention of one tick within a clock of one makes every step of a call
race a deadline.

The traces of `replay` have up to five events from five sets, each with a case in mind: rewrites and
partial reads of a buffer of two lines; ticks and hints; two streams on a bank with two channels with
and without barriers; two buffers that do not fit one bank; a hint to a weaker
class that one of the two lines does not survive. Retentions of 6, 14 and infinite cycles, latencies of one to three
and a guard of three put reads before, at and after a deadline, and make maintenance of one read
run several rounds. A trace ends with the first event the replay would throw
at (`Referenced`): nothing comes after it. `MaxAttempts` is 3 in place of the code's 100000, and 12 in the runs that
expect a violation: with 3, a read at tick 50 after a hint brings maintenance to its limit by time alone, and so do failed
migrations, which makes both sides of `MaintenanceConverges` happen.

`handles` has one runtime object (a second one would be a copy, which regions show), two objects of every
other kind that is moved or assigned, two regions' states and two buffers: an assignment between buffers of different regions, a region
let go by its object but kept by a buffer, and a view moved over another are among its 163 611 states. Each handle is
created once; the theorems have no such bounds on objects or handles.

Symmetry is used for safety only, never in `polled`. Deadlock is checked in `pointers`,
where somebody can always go on. In the other runs it is not: after
`rt_runtime_destroy` nothing can be called, a replay is over at its report, all handles of `handles` may have
been created and destroyed, and the bounds stop the clock.

Fairness (`polled`). `WF(JobStep)`: the thread that holds the mutex goes on
with its loop. `SF(Poll)`: a thread that polls again and again asks for the mutex
each time, and gets it infinitely often, however busy other callers are; a weak condition
would not do, since each call disables `Poll` for a while. Nothing is
assumed of the other calls, nor of the clock.

`docs/software_api.md:46-47` says that a passed deadline "is never silently repaired". `rt_buffer_unmap` does not look at
the deadline, so closing a write mapping after it gives the data a new age (`rtmem.cpp:1241`, and
`software_api.md:56` says so): `RepairedOnlyByUnmap` in `trace` shows that this is the only way.

### What the violations mean

* **`xrt_stale_copy`** after a migration the new object's host copy is unwritten. TLC's
  shortest trace is a flush, which copies it over the device (`backend_xrt.cpp:188`); the write-back of a
  write-only mapping (`backend_xrt.cpp:131`, as in a partial `rt_buffer_write_bytes`) does the same
  when the run is restricted to it.
* **`oracle_late`** `oracle_ages` leaves out the ticks of the events
  (`workload_trace.cpp:386`), for which the replay waits (`workload_trace.cpp:808`): a buffer is placed by
  an age that is too small and read after its retention. `OracleNeverLate` and `LifetimesSuffice`
  hold for traces of one stream without ticks; `AnalysesAgree` says that there the two analyses see the same ages.
* **`replay_aborts`** a migration that fails at the second line leaves the first one in the new class
  (`workload_trace.cpp:547`), and the next write of the buffer throws (`evidence_model.cpp:204`): the
  replay ends without the report that was to show what is unsafe. `AllocationsWhole` says that nothing else makes
  the memory throw in this way.

## 4. Proofs

Where the provers settle an invariant for all constants and it is mostly about types (`TypeOK` of `XrtBackend`,
`RetentionMemory` and `MetadataController`, `OwnersTypeOK`, and with them `MakespanExact`), no run repeats it.

`RetentionRuntime_proofs` proves, for all handles, sizes, policies, capacities, retentions, clock
modes and failures:

* `TypeCorrect`: `Spec => []TypeOK`; the unsigned counters never wrap.
* `AccountingCorrect`: counters equal the heap.
* `CapacityCorrect`: no class is overfilled, and the peak covers what is active.
* `OwnersCorrect`: vectors and owner pointers agree, storage follows the state.

Assumptions are those of the module: `Buffer` is finite, the null handles are no
handles, options and inputs are in range. The argument: none of the invariants is inductive
alone. `Accounting` needs the vectors (end and destroy discount what a vector holds) and the job in
progress (an `end` half done has buffers left exactly in `todo`); `TypeOK` needs
`Accounting` (a counter is decremented only when the buffer is counted in it). `IInv` is
the conjunction `Shape /\ Owners /\ Accounting /\ CapacityRespected /\ PeakCovers`, where
`Shape` is the type invariant with counters that may be negative and `Owners` adds
to `VectorsMatchOwners` and `StorageReturned` what a job knows (`Ending`). Every action is
first shown to have one of eight *effects* on the heap (buffers touched,
reclaimed, removed, moved, created; region opened, closed, dropped), and each part of
the invariant is then proved once per effect instead of once per action. Byte sums
are cardinalities of sets of (buffer, byte) pairs, so adding and removing a buffer
is a lemma on finite sets, and no induction is needed.

The same module proves what a step may never do to the age of a buffer: `AgesCorrect`, `ExpiryCorrect`
and, for the manual clock, `RepairCorrect`. Every step gives each buffer one of eight *fates*
(kept, given back, lapsed, renewed by a call, renewed by poll, dated by unmap, refreshed with its region, born), which is one lemma per
kind of step; the rest is an invariant over `IInv`: no buffer is dated after the clock (`Dates`); poll
visits no buffer twice, and none it has still to visit was dated after its reading (`Polling`); what region refresh
has checked stays valid until the loop that dates it (`CheckedValid`, by the manual clock only).

It proves that traces are right: `TracesReplayCorrect` and `TracesBalancedCorrect`, for any
number of writers that may fail at any time. `TraceInv` says which buffers the healthy file holds in
the middle of attach and detach (`Files`, with `Filed`: those whose turn has come, or has not), that
no loop announces a buffer twice (`Announcing`), and that, unless a lost `FREE` has broken the stream, no mark is
left in a region that has ended (`MarksOpen`), which is why deleting a region with its buffers needs no line. Every
step is shown once to *report* itself (`Reported`): the line it writes, if any, is the one that its change of
marks asks for, or the stream breaks.

It proves `ReclassifyCorrect`: what the first loop of region reclassify has checked is enough for the
second. Both count bytes, so `MoveInv` keeps, while the first loop runs, that its sum is that of the
buffers visited which are to move (`Summed`), and while the second runs, that those still to move fit the class all together
(`Fitting`). That moving one takes from the sum what it adds to the class is `SizeSplit`; the last buffer leaves
nothing to fail. The capacities and bytes are the counters of `Accounting`, so `IInv` is needed too.

`MaintainedCorrect` is about `PolledRuntime`: for an application without mappings (poll leaves mapped buffers alone, so a mapping
may outlast a deadline) and a backend that does not fail, by either clock. `PollInv` says that a poll in
progress read the clock no more than `lag` ticks ago, and that every maintained buffer holds for longer than the guard past the clock reading of the last
completed poll, or of the poll in progress once that has gone past it (`Regular`). A poll that visits a buffer either finds
its deadline further away than the guard (`Beyond`) or renews it; in between the clock gets at most the guard further.

`PointerAllocators_proofs` proves all five invariants of the run `pointers` for any threads, handles, addresses,
retention and range of the clock: `TypeCorrect`, `BuffersKept`, `WholeReads`, `PointersCorrect` and `NothingLost`. They are not
inductive without what a thread in the middle of a call knows. `Calls` says at which point a call may be and over what kind of buffer,
`Storage` that no two buffers have one address at a time, `Grants`, `Table` and `Reached` how pointers, table
and addresses belong together, and `Copies` that only a copy in progress leaves an active buffer with other bytes than were stored in it. A step of one
thread is one of a few effects on the heap (`Aging`, `Deleting`) and on its own call (`GoesOn`, `Leaving`), and each part of the invariant is
proved once for each.

`XrtBackend_proofs` proves for every size and word size: `TypeCorrect`, and for
applications that keep to mappings that read (`Disciplined`), `DisciplinedIntact`
and `DisciplinedRefines` (`BufferContents` is implemented). `xrt_stale_copy`
shows what happens without the discipline.

`RetentionMemory_proofs` proves for every set of lines, capacities, retentions and costs:
`TypeCorrect`, `DirectoryCorrect` (the directory and the banks name each other) and
`ImplementsLines` (`RetainedLines` is implemented). The invariant is
`TypeOK /\ DirectoryExact`, which is inductive: every command *places* a line in a slot, *drops* one,
or *rechecks* one, and each of the three is a lemma for the invariant and one for the
refinement. That a refusal is right (`Full`) follows from `DirectoryExact`: each
slot of the full bank holds a line of its own.

`TraceReplay_proofs` begins with the memory and proves for every profile, number of channels and caller
`MemoryTypeCorrect`, `UsageCorrect`, `MakespanCorrect` and `SingleChannelCorrect`. The invariant `IInv`
adds that the makespan is reached by a channel (`LastChannel`), that a line without
data has no dates (`BlankUndated`), and that no line is dated after the makespan. Every command has one
of three *effects*: nothing moved, one line was `Served` by its bank, or one line went over (`MovedTo`); schedules of one
and of two commands are lemmas, and the channel chosen is the least by `Least`:
a nonempty set of numbers has a least one. That the counts do not wrap is
part of the type invariant, and follows from `UsageExact`: the line that leaves a bank is counted in it.

The same module goes on to the replay as one caller of that memory, for any trace, policy, error mode, profile, guard and number of
streams and buffers. `Base` is the invariant everything rests on: types (`Typed`), what the event at hand
may assume of its buffer (`Working`), live buffers over disjoint lines below `nextBase` (`Laid`), and
the memory's own invariant as far as it survives an exception (`Sound`). From it follow

* `ReplayTypeCorrect` and `LiveBytesCorrect`: the live bytes of each class are those of the buffers placed in it,
  and so never negative. Sums are cardinalities of sets of (buffer, byte) pairs, as in `RetentionRuntime_proofs`.
* `ReplayMemoryCorrect`: the memory's counts and the order of its banks, after an exception too.
* `AllocationsWholeCorrect`: until a migration fails, all lines of a buffer are in its class, those already moved by a
  migration in progress in the new one (`Whole`). With `Laid` this leaves the memory nothing to throw at but a date.
* `SafeCompleteCorrect`: every step waits, leaves an event that is no access behind, counts a failure,
  or counts the bytes of one access, so without a failure the bytes counted are those of the accesses so far (`Complete`).
* `SynchronizedCorrect`: `Timed` bounds the dates of each buffer's lines, for each stream that no pending conflict
  separates from them, by the cycle that stream has reached. A barrier passes the latest cycle on to every known
  stream, and an event joins those of its own; a line can be dated after the cycle it is read at only by two
  streams that conflict (`Clash`).
* `MaintainedReadsCorrect`: a line found decayed is found by its own refresh, since a read comes only after its line was not due.
  The refresh was issued before the deadline, so its bank must have been busy until after it: then every channel of that bank
  is (`Late`), time only goes forward (`Grows`), and any later read of the line, of whatever stream, finds it due.

Last come the passes over a whole trace and the maintenance loop.

* `OracleNeverLateCorrect` and `LifetimesSufficeCorrect`: a replay that follows no hints, of one stream without ticks, is compared
  with the oracle's pass event by event and, within an access, line by line (`OnTime`). As long as nothing expires it is `Paced`: every line with data was written
  in the pass too, and no more cycles have gone by since than the pass has counted there (`Fits`), because the pass takes the slowest class for each access.
  So a line found expired shows a buffer whose class does not hold its data as long as the pass says (`Outlived`), which the oracle's own choice rules out;
  with the next theorem, the analysis reports a lifetime as long.
* `AnalysesAgreeCorrect`: after each event, each line of each access included, the two passes have the same cycle, sizes and dates of lines, and
  the oracle's age of a buffer is the longest of its reported and its open lifetimes (`Agree`). At the end the
  open ones are reported, line by line (`FinishAllIs`), and nothing else is.
* `PercentilesCoverCorrect`: sorting lists each sample once and in order (`Arranged`), so the samples up to a place of the sorted list hold the bytes that the
  loop has summed, and the first age at which the sum reaches the rounded-up share is the least that covers it. Bytes are the cardinality
  of a set of (sample, byte) pairs (`Written`), which the sums of the code must equal.
* `MaintenanceConvergesCorrect`: each iteration of `ensure_retained` finds the line due, no earlier than the retention less the guard after its date, and rewrites
  it a reading and a writing later, or fails. So a line maintained n times is dated at least n times `Round`, the least sum of the three
  over the classes (`Rounds`), and the loop reaches its limit only `MaxAttempts * Round` cycles into the replay.

The passes are folds, over events and over the lines of an access, and what they compute is proved without induction over data. A *trail* of a fold
gives its value after every prefix of its index set (`FoldExists`, `FoldTrail`). That the trail exists follows from the
well-founded order of finite subsets (`Least`), and what each of its steps preserves holds for all of it because the least index at which it
failed would be a step (`Along`). The invariants above quantify over such trails (`Passing`, `Touching`). `TraceAnalysis_proofs` holds these lemmas, one for
each step of the two passes, and those about the percentiles.

Two proofs changed their property. `MaintenanceConverges` said that without a failed migration the loop never reaches its limit, which holds or
not according to the limit and the length of the trace; it now says how much time must have passed.
`MaintainedReadsHold` said, for traces of one stream, that what expires is maintenance or a failed migration.
That is false: a migration that fails half way leaves a line marked as decayed at a later cycle than the
stream has reached, and the next read is refused at the earlier one, without maintenance. And without a guard a refresh is issued at
the deadline itself, so that another stream, on another channel of the bank, may still find the line before that. It now asks for a guard and for no failed
migration, and needs neither the single stream nor the migrations in its count.

`OwningHandles_proofs` proves `OwnersTypeOK` and the four invariants of the run `handles` for every number of objects and handles:
`OwnersTypeCorrect`, `NothingDanglesCorrect`, `OwnedOnceCorrect`, `NothingLeaksCorrect` and `ViewsCorrect`, from
the assumption that handles of different kinds, and null, are different. They need each other: that an assignment
may free what its target held is `OwnedOnce`, that no region in use goes is
`NothingDangles`, and that a view finds its buffer's handle needs both. Together
they are inductive with two more facts: what is mapped has storage (`MappedIsActive`), and where there is no object there is no handle
(`NothingWithoutObject`). The proof has one lemma per kind of step, with a step per invariant under it.

`MetadataController_proofs` proves for every number of lines, width and retentions
`TypeCorrect`, `AnswersCorrect` and `LossCorrect`. The
inductive invariant adds to `TypeOK` that the wrapped difference is the age until a whole turn has gone
by (`Agrees`).

Only model-checked: liveness (`OverdueReclaimed`), since it rests on fairness and ENABLED, which are outside TLAPS.
Every invariant and every other action property that the passing runs check is stated by a theorem.

## 5. Not modelled

* Methods of the C++ API that pass on one C call without changing an object (they are the runtime's actions), and
  `load` and `store` of `traced_view`, which touch data and record an access.
* The text of device profiles and of traces: a line parses or the file is
  rejected (`Reject`). The command line.
* Texts of errors and reports, hashes, tables by structure, energy, and counters of commands, which decide nothing.
* The host's own heap running out (`rtmem.cpp:1125`), the unlocked text of the last error
  (`rtmem.cpp:598`), and a kernel that XRT reports as failed (`backend_xrt.cpp:178`): see the hazards in `PROJECT.json`.
* Overflow of 64-bit cycles and byte counts in the simulator. The runtime's deadlines
  at the end of the clock's range are modelled.
* The XRT stub (one function that throws), examples, benchmarks, tests.

## 6. What is left

1. *Composition*: the runtime writes what the replay reads; today the two share only the events they
   exchange (`Announces`, `Consumed`). Feeding the events of `RetentionRuntime` to `TraceReplay` needs
   smaller instances of both.
2. *One model of handles and addresses*: `OwningHandles` and `PointerAllocators` share the resource; the
   first leaves out addresses, the second the other objects.
