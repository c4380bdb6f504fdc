----------------------- MODULE RetentionRuntime_proofs -----------------------
(***************************************************************************)
(* For any number of regions, buffers, writers and bytes, any options and  *)
(* either clock: what the runtime accounts for; then what its steps do to  *)
(* the ages of buffers and to trace files, and what a regular poll makes   *)
(* of it.  Only what is said of polled runtimes uses GuardAssumption.      *)
(***************************************************************************)
EXTENDS PolledRuntime, FiniteSetTheorems, SequenceTheorems, TLAPS

-----------------------------------------------------------------------------
(* Bytes of sets of buffers.  A table of buffers is a function such as buf.  *)

BytesOf(table, S) == UNION {{b} \X (1..table[b].size) : b \in S}

\* A buffer of size n has n bytes.
LEMMA BufferBytes ==
  ASSUME NEW b, NEW n \in Nat
  PROVE  IsFiniteSet({b} \X (1..n)) /\ Cardinality({b} \X (1..n)) = n
<1>1. IsFiniteSet(1..n) /\ Cardinality(1..n) = n
  BY FS_Interval
<1>2. IsFiniteSet({b}) /\ Cardinality({b}) = 1
  BY FS_Singleton
<1>3. QED
  <2>1. /\ IsFiniteSet({b} \X (1..n))
        /\ Cardinality({b} \X (1..n)) = Cardinality({b}) * Cardinality(1..n)
    BY <1>1, <1>2, FS_Product, Zenon
  <2>2. QED BY <1>1, <1>2, <2>1

\* The bytes of any set of buffers can be counted.
LEMMA BytesFinite ==
  ASSUME NEW table \in [Buffer -> Slot], NEW S \in SUBSET Buffer
  PROVE  IsFiniteSet(BytesOf(table, S))
<1> DEFINE f == [b \in S |-> {b} \X (1..table[b].size)]
           T == {{b} \X (1..table[b].size) : b \in S}
<1>1. IsFiniteSet(S)
  BY HandlesAssumption, FS_Subset
<1>2. f \in Surjection(S, T)
  BY DEF Surjection
<1>3. IsFiniteSet(T)
  <2> HIDE DEF f, T
  <2>1. QED BY <1>1, <1>2, FS_Surjection
<1>4. \A b \in S : IsFiniteSet({b} \X (1..table[b].size))
  <2> SUFFICES ASSUME NEW b \in S PROVE IsFiniteSet({b} \X (1..table[b].size))
    OBVIOUS
  <2>1. table[b].size \in Nat
    BY DEF Slot
  <2>2. QED BY <2>1, BufferBytes
<1>5. QED 
  <2>1. \A U \in T : IsFiniteSet(U)
    BY <1>4, Zenon
  <2>2. IsFiniteSet(UNION T)
    <3> HIDE DEF T
    <3>1. QED BY <1>3, <2>1, FS_UNION, Zenon
  <2>3. QED BY <2>2 DEF BytesOf

\* Adding a buffer to a set adds its size to the bytes of the set.
LEMMA BytesAdd ==
  ASSUME NEW table \in [Buffer -> Slot], NEW S \in SUBSET Buffer, NEW b \in Buffer \ S
  PROVE  /\ Cardinality(BytesOf(table, S)) \in Nat
         /\ Cardinality(BytesOf(table, S \cup {b})) = Cardinality(BytesOf(table, S)) + table[b].size
<1> DEFINE old == BytesOf(table, S)
           new == {b} \X (1..table[b].size)
<1>1. IsFiniteSet(old) /\ Cardinality(old) \in Nat
  BY BytesFinite, FS_CardinalityType
<1>2. table[b].size \in Nat /\ IsFiniteSet(new) /\ Cardinality(new) = table[b].size
  <2>1. table[b].size \in Nat
    BY DEF Slot
  <2>2. QED BY <2>1, BufferBytes
<1>3. BytesOf(table, S \cup {b}) = old \cup new
  BY DEF BytesOf
<1>4. old \cap new = {}
  BY DEF BytesOf
<1>5. Cardinality(old \cup new) = Cardinality(old) + Cardinality(new) - Cardinality(old \cap new)
  BY <1>1, <1>2, FS_Union
<1>6. Cardinality(old \cap new) = 0
  BY <1>4, FS_EmptySet
<1>7. QED
  <2> HIDE DEF old, new
  <2>1. Cardinality(old \cup new) = Cardinality(old) + table[b].size
    BY <1>1, <1>2, <1>5, <1>6
  <2>2. QED BY <1>1, <1>3, <2>1 DEF old

\* The bytes of a set depend on the sizes of its members only.
LEMMA BytesSame ==
  ASSUME NEW t1, NEW t2, NEW S, \A b \in S : t1[b].size = t2[b].size
  PROVE  BytesOf(t1, S) = BytesOf(t2, S)
BY DEF BytesOf

-----------------------------------------------------------------------------
(* The shape of the state.  Counters are integers here: that they do not go  *)
(* below zero follows at the end, from what they count.                      *)

OwnerShape ==
  /\ regions \in Seq(Region) /\ open \in [Region -> BOOLEAN] /\ policy \in [Region -> Policy]
  /\ buffers \in [Region -> Seq(Buffer)]

BufShape ==
  /\ buf \in [Buffer -> Slot]
  /\ \A b \in Buffer : buf[b].state # "FREE" => buf[b].owner \in Region

StatShape ==
  /\ activeBytes \in [Class -> Int] /\ activeBuffers \in Int /\ peak \in Int
  /\ regionBytes \in [Region -> Int] /\ regionBuffers \in [Region -> Int]

JobShape ==
  /\ tick \in Nat /\ job \in Job
  /\ job.op \in {"refresh", "reclassify", "apply", "end", "destroy"} => job.region \in Region

WriterShape ==
  /\ trace \in Trace \cup {NoTrace} /\ broken \in [Trace -> BOOLEAN]
  /\ live \in [Trace -> SUBSET Buffer] /\ replayable \in [Trace -> BOOLEAN]

Shape == OwnerShape /\ BufShape /\ StatShape /\ JobShape /\ WriterShape

-----------------------------------------------------------------------------
(* All that a step may do to the heap.                                       *)

\* Ages, trace flags, and the mappings of active buffers.
Touched ==
  /\ BufShape'
  /\ \A b \in Buffer :
       /\ buf'[b].state = buf[b].state /\ buf'[b].owner = buf[b].owner
       /\ buf'[b].size = buf[b].size /\ buf'[b].class = buf[b].class
       /\ Active(b) \/ (buf'[b].map = buf[b].map /\ buf'[b].exposed = buf[b].exposed)
  /\ UNCHANGED <<ownerVars, statVars>>

\* An active buffer gives its storage back and stays in its region.
Reclaimed(b) ==
  /\ Active(b)
  /\ BufShape'
  /\ \A x \in Buffer \ {b} : buf'[x] = buf[x]
  /\ buf'[b].state \in {"INVALID", "EXPIRED"} /\ buf'[b].owner = buf[b].owner
  /\ buf'[b].map = {} /\ ~buf'[b].exposed
  /\ Discounted(b) /\ UNCHANGED ownerVars

\* An active buffer changes its class.
Moved(b, class) ==
  /\ Active(b) /\ class # buf[b].class /\ Fits(class, buf[b].size)
  /\ BufShape'
  /\ \A x \in Buffer \ {b} : buf'[x] = buf[x]
  /\ buf'[b].state = "ACTIVE" /\ buf'[b].owner = buf[b].owner
  /\ buf'[b].size = buf[b].size /\ buf'[b].class = class
  /\ activeBytes' = [activeBytes EXCEPT ![buf[b].class] = @ - buf[b].size,
                                        ![class] = @ + buf[b].size]
  /\ UNCHANGED <<ownerVars, activeBuffers, peak, regionBytes, regionBuffers>>

\* A new buffer.
Created(r, b, size) ==
  /\ open[r] /\ buf[b].state = "FREE" /\ Fits(policy[r].class, size)
  /\ BufShape'
  /\ \A x \in Buffer \ {b} : buf'[x] = buf[x]
  /\ buf'[b].state = "ACTIVE" /\ buf'[b].owner = r
  /\ buf'[b].size = size /\ buf'[b].class = policy[r].class
  /\ buffers' = [buffers EXCEPT ![r] = Append(@, b)]
  /\ activeBuffers' = activeBuffers + 1
  /\ activeBytes' = [activeBytes EXCEPT ![policy[r].class] = @ + size]
  /\ peak' = PeakWith(size)
  /\ regionBytes' = [regionBytes EXCEPT ![r] = @ + size]
  /\ regionBuffers' = [regionBuffers EXCEPT ![r] = @ + 1]
  /\ UNCHANGED <<regions, open, policy>>

\* A handle is deleted.
Removed(b) == buf[b].state # "FREE" /\ BufShape' /\ Deleted(b)

\* A region is created, ended, deleted.
Opened(r, p) ==
  /\ r \notin ToSet(regions)
  /\ regions' = Append(regions, r)
  /\ open' = [open EXCEPT ![r] = TRUE] /\ policy' = [policy EXCEPT ![r] = p]
  /\ regionBytes' = [regionBytes EXCEPT ![r] = 0]
  /\ regionBuffers' = [regionBuffers EXCEPT ![r] = 0]
  /\ UNCHANGED <<buffers, buf, activeBytes, activeBuffers, peak>>

Closed(r) ==
  /\ open' = [open EXCEPT ![r] = FALSE]
  /\ UNCHANGED <<regions, policy, buffers, buf, statVars>>

Dropped(r) == BufShape' /\ DeleteRegion(r)

Effect ==
  \/ Touched
  \/ \E b \in Buffer : Reclaimed(b) \/ Removed(b)
  \/ \E b \in Buffer, c \in Class : Moved(b, c)
  \/ \E r \in Region, b \in Buffer, n \in Sizes : Created(r, b, n)
  \/ \E r \in Region, p \in Policies : Opened(r, p)
  \/ Finished({"end"}) /\ Closed(job.region)
  \/ Finished({"destroy", "shutdown"}) /\ job.region \in Region /\ Dropped(job.region)

\* Leaving the heap alone is the smallest effect.
LEMMA SameHeap == Shape /\ UNCHANGED heapVars => Touched
BY DEF Shape, BufShape, Touched, heapVars

\* One slot is overwritten: the table stays typed and the others keep theirs.
LEMMA BufUpdate ==
  ASSUME Shape, NEW b \in Buffer, NEW s \in Slot, s.state # "FREE" => s.owner \in Region,
         buf' = [buf EXCEPT ![b] = s]
  PROVE  /\ BufShape' /\ buf'[b] = s
         /\ \A x \in Buffer \ {b} : buf'[x] = buf[x]
BY DEF Shape, BufShape

\* A new age is a touch.
LEMMA DatedTouches ==
  ASSUME Shape, NEW b \in Buffer, NEW t \in Nat, Dated(b, t)
  PROVE  Touched
<1> DEFINE s == [buf[b] EXCEPT !.lastWrite = t]
<1>1. /\ s \in Slot /\ s.state = buf[b].state /\ s.owner = buf[b].owner /\ s.size = buf[b].size
      /\ s.class = buf[b].class /\ s.map = buf[b].map /\ s.exposed = buf[b].exposed
  BY DEF Shape, BufShape, Slot
<1>2. buf' = [buf EXCEPT ![b] = s]
  BY DEF Dated
<1>3. buf[b].state # "FREE" => buf[b].owner \in Region
  BY DEF Shape, BufShape
<1>4. QED
  <2> HIDE DEF s
  <2>1. /\ BufShape' /\ buf'[b] = s
        /\ \A x \in Buffer \ {b} : buf'[x] = buf[x]
    BY <1>1, <1>2, <1>3, BufUpdate
  <2>2. QED BY <1>1, <2>1 DEF Touched, Dated

\* release_storage_locked on an active buffer.
LEMMA ReleaseReclaims ==
  ASSUME Shape, NEW b \in Buffer, NEW state \in {"INVALID", "EXPIRED"},
         Active(b), Release(b, state)
  PROVE  Reclaimed(b)
<1> DEFINE s == Released(buf[b], state)
<1>1. /\ s \in Slot /\ s.state = state /\ s.owner = buf[b].owner
      /\ s.map = {} /\ ~s.exposed
  BY DEF Shape, BufShape, Slot, Released
<1>2. buf' = [buf EXCEPT ![b] = s]
  BY DEF Release
<1>3. buf[b].owner \in Region
  BY DEF Shape, BufShape, Active
<1>4. QED
  <2> HIDE DEF s
  <2>1. /\ BufShape' /\ buf'[b] = s
        /\ \A x \in Buffer \ {b} : buf'[x] = buf[x]
    BY <1>1, <1>2, <1>3, BufUpdate
  <2>2. QED BY <1>1, <2>1 DEF Reclaimed, Release

\* Every reading of the clock is a natural number.
LEMMA LaterIsNatural == Shape => Later \subseteq Nat
BY OptionsAssumption DEF Shape, JobShape, Later

\* reclassify_locked gives a new age, and moves the buffer when the class is new.
LEMMA RetagMoves ==
  ASSUME Shape, NEW b \in Buffer, NEW class \in Class, Active(b), Retag(b, class)
  PROVE  tick' \in Nat /\ (Touched \/ Moved(b, class))
<1>1. PICK t \in Later :
        /\ tick' = t
        /\ \/ class = buf[b].class /\ Dated(b, t)
           \/ /\ class # buf[b].class /\ Fits(class, buf[b].size)
              /\ buf' = [buf EXCEPT ![b] = Retagged(@, class, t)]
              /\ activeBytes' = [activeBytes EXCEPT ![buf[b].class] = @ - buf[b].size,
                                                    ![class] = @ + buf[b].size]
              /\ UNCHANGED <<ownerVars, activeBuffers, peak, regionBytes, regionBuffers>>
  BY Zenon DEF Retag
<1>2. t \in Nat
  BY LaterIsNatural
<1>3. CASE class = buf[b].class
  BY <1>1, <1>2, <1>3, DatedTouches
<1>4. CASE class # buf[b].class
  <2> DEFINE s == Retagged(buf[b], class, t)
  <2>1. /\ s \in Slot /\ s.state = buf[b].state /\ s.owner = buf[b].owner
        /\ s.size = buf[b].size /\ s.class = class
    BY <1>2 DEF Shape, BufShape, Slot, Retagged
  <2>2. buf' = [buf EXCEPT ![b] = s]
    BY <1>1, <1>4
  <2>3. buf[b].owner \in Region
    BY DEF Shape, BufShape, Active
  <2>4. /\ BufShape' /\ buf'[b] = s
        /\ \A x \in Buffer \ {b} : buf'[x] = buf[x]
    <3> HIDE DEF s
    <3>1. QED BY <2>1, <2>2, <2>3, BufUpdate
  <2>5. QED
    <3> HIDE DEF s
    <3>1. QED BY <1>1, <1>2, <1>4, <2>1, <2>4 DEF Moved, Active
<1>5. QED BY <1>3, <1>4

\* Deleting a handle in use.
LEMMA DeletedRemoves ==
  ASSUME Shape, NEW b \in Buffer, buf[b].state # "FREE", Deleted(b)
  PROVE  Removed(b)
<1>1. FreeSlot \in Slot /\ FreeSlot.state = "FREE"
  BY DEF FreeSlot, Slot, Class
<1>2. buf' = [buf EXCEPT ![b] = FreeSlot]
  BY DEF Deleted
<1>3. BufShape'
  BY <1>1, <1>2, BufUpdate
<1>4. QED BY <1>3 DEF Removed

\* What the writers have seen stays typed, whatever is recorded, lost or left alone.
LEMMA WritersTyped ==
  ASSUME Shape, trace' \in Trace \cup {NoTrace}
  PROVE  /\ \A kind : \A b \in Buffer : Recorded(kind, b) => WriterShape'
         /\ Lost => WriterShape'
         /\ UNCHANGED writerVars => WriterShape'
         /\ \A b \in Buffer : FreeRecorded(b) \/ FreeLost(b) => WriterShape'
<1> USE DEF Shape, WriterShape
<1>1. ASSUME NEW kind, NEW b \in Buffer, Recorded(kind, b) PROVE WriterShape'
  <2>1. CASE trace = NoTrace
    BY <1>1, <2>1 DEF Recorded, writerVars
  <2>2. CASE trace # NoTrace
    <3>1. Consumed(trace, kind, b) /\ UNCHANGED broken
      BY <1>1, <2>2 DEF Recorded
    <3>2. replayable' \in [Trace -> BOOLEAN]
      BY <3>1 DEF Consumed
    <3>3. live' \in [Trace -> SUBSET Buffer]
      BY <3>1, <2>2 DEF Consumed
    <3>4. QED BY <3>1, <3>2, <3>3
  <2>3. QED BY <2>1, <2>2
<1>2. CASE Lost
  BY <1>2 DEF Lost
<1>3. CASE UNCHANGED writerVars
  BY <1>3 DEF writerVars
<1>4. QED
  <2> HIDE DEF Shape, WriterShape
  <2>1. QED BY <1>1, <1>2, <1>3 DEF FreeRecorded, FreeLost

\* The loop variables stay typed.
LEMMA JobsTyped ==
  ASSUME Shape
  PROVE  /\ Idle \in Job
         /\ UNCHANGED <<tick, job>> => JobShape'
         /\ job' = Idle /\ tick' = tick => JobShape'
         /\ \A ops : Working(ops) => Current \in Buffer
         /\ \A ops : Working(ops) /\ Continue /\ tick' \in Nat => JobShape'
<1> USE DEF Shape, JobShape
<1>1. Idle \in Job
  BY EmptySeq DEF Idle, Job, Ops, Class
<1>2. job' = Idle /\ tick' = tick => JobShape'
  BY <1>1 DEF Idle
<1>3. ASSUME NEW ops, Working(ops)
      PROVE  Current \in Buffer /\ (Continue /\ tick' \in Nat => JobShape')
  <2>1. job.todo \in Seq(Buffer) /\ job.todo # <<>>
    BY <1>3 DEF Job, Working
  <2>2. Head(job.todo) \in Buffer /\ Tail(job.todo) \in Seq(Buffer)
    BY <2>1, HeadTailProperties
  <2>3. [job EXCEPT !.todo = Tail(job.todo)] \in Job
    BY <2>2 DEF Job
  <2>4. QED BY <2>2, <2>3 DEF Current, Continue, Job
<1>4. QED BY <1>1, <1>2, <1>3

-----------------------------------------------------------------------------
(* Every step keeps the clock, the job and the writers typed, and does one of *)
(* these things to the heap.                                                 *)

Good == JobShape' /\ WriterShape' /\ Effect

\* Clock, and calls that leave the heap alone or start a loop.
LEMMA QuietSteps ==
  ASSUME Shape, UNCHANGED heapVars, JobShape',
         trace' \in Trace \cup {NoTrace},
         \/ UNCHANGED writerVars
         \/ Lost
         \/ \E kind : \E b \in Buffer : Recorded(kind, b)
  PROVE  Good
<1>1. WriterShape'
  BY WritersTyped
<1>2. Effect
  BY SameHeap DEF Effect
<1>3. QED BY <1>1, <1>2 DEF Good

\* Calls that start a loop only.
LEMMA StartersGood ==
  ASSUME Shape,
         \/ \E r \in Region : RegionRefresh(r) \/ RegionEnd(r) \/ RegionDestroy(r)
         \/ \E r \in Region, c \in Class : RegionReclassify(r, c)
         \/ \E t \in Trace : AttachTrace(t)
         \/ Poll \/ RuntimeDestroy \/ DetachTrace
  PROVE  Good
<1>1. /\ regions \in Seq(Region) /\ <<>> \in Seq(Buffer)
      /\ \A r \in Region : buffers[r] \in Seq(Buffer)
  BY EmptySeq DEF Shape, OwnerShape
<1>2. tick \in Nat /\ Idle \in Job
  BY JobsTyped DEF Shape, JobShape
<1>3. tick' = tick /\ job' \in Job
  <2>a. ASSUME NEW o \in Ops, NEW r \in Region, NEW q \in Seq(Buffer)
        PROVE  [Idle EXCEPT !.op = o, !.region = r, !.todo = q] \in Job
    BY <1>2, <2>a DEF Idle, Job
  <2>b. "refresh" \in Ops /\ "end" \in Ops /\ "destroy" \in Ops BY DEF Ops
  <2>1. CASE \E r \in Region : RegionRefresh(r) \/ RegionEnd(r) \/ RegionDestroy(r)
    <3>1. ASSUME NEW r \in Region, RegionRefresh(r) PROVE tick' = tick /\ job' \in Job
      BY <1>1, <2>a, <2>b, <3>1 DEF RegionRefresh
    <3>2. ASSUME NEW r \in Region, RegionEnd(r) PROVE tick' = tick /\ job' \in Job
      BY <1>1, <2>a, <2>b, <3>2 DEF RegionEnd
    <3>3. ASSUME NEW r \in Region, RegionDestroy(r) PROVE tick' = tick /\ job' \in Job
      <4>1. PICK q \in Seq(Buffer) : q = IF open[r] THEN buffers[r] ELSE <<>> BY <1>1
      <4>2. job' = [Idle EXCEPT !.op = "destroy", !.region = r, !.todo = q] /\ tick' = tick
        BY <3>3, <4>1 DEF RegionDestroy
      <4> QED BY <2>a, <2>b, <4>2
    <3> QED BY <2>1, <3>1, <3>2, <3>3
  <2>2. CASE \E r \in Region, c \in Class : RegionReclassify(r, c)
    BY <1>1, <1>2, <2>2 DEF RegionReclassify, Idle, Job, Ops
  <2>3. CASE \E t \in Trace : AttachTrace(t)
    BY <1>1, <1>2, <2>3 DEF AttachTrace, Idle, Job, Ops
  <2>4. CASE Poll \/ RuntimeDestroy \/ DetachTrace
    BY <1>1, <1>2, <2>4 DEF Poll, RuntimeDestroy, DetachTrace, Idle, Job, Ops
  <2>5. QED BY <2>1, <2>2, <2>3, <2>4
<1>4. JobShape'
  BY <1>2, <1>3 DEF RegionRefresh, RegionReclassify, RegionEnd, RegionDestroy, Poll,
     RuntimeDestroy, AttachTrace, DetachTrace, Idle, JobShape
<1>5. UNCHANGED <<heapVars, writerVars>>
  BY DEF RegionRefresh, RegionReclassify, RegionEnd, RegionDestroy, Poll,
     RuntimeDestroy, AttachTrace, DetachTrace
<1>6. trace' \in Trace \cup {NoTrace}
  BY DEF RegionRefresh, RegionReclassify, RegionEnd, RegionDestroy, Poll,
     RuntimeDestroy, AttachTrace, DetachTrace, Shape, WriterShape
<1>7. QED BY <1>4, <1>5, <1>6, QuietSteps

\* The clock moves.
LEMMA ClockGood ==
  ASSUME Shape, ClockTicks \/ \E d \in Strides : Advance(d)
  PROVE  Good
<1>1. tick' \in Nat /\ job' = job /\ trace' = trace /\ UNCHANGED <<heapVars, writerVars>>
  BY InputsAssumption DEF ClockTicks, Advance, Shape, JobShape
<1>2. JobShape' /\ trace' \in Trace \cup {NoTrace}
  BY <1>1 DEF Shape, JobShape, WriterShape
<1>3. QED BY <1>1, <1>2, QuietSteps

\* A writer's stream fails by itself.
LEMMA BreaksGood ==
  ASSUME Shape, NEW t \in Trace, WriterBreaks(t)
  PROVE  Good
<1>1. WriterShape'
  BY DEF WriterBreaks, Shape, WriterShape
<1>2. JobShape' /\ Effect
  BY SameHeap, JobsTyped DEF WriterBreaks, Effect
<1>3. QED BY <1>1, <1>2 DEF Good

\* rt_region_create.
LEMMA RegionCreateGood ==
  ASSUME Shape, NEW r \in Region, NEW p \in Policies, RegionCreate(r, p)
  PROVE  Good
<1>1. JobShape' /\ WriterShape'
  BY WritersTyped, JobsTyped DEF RegionCreate, Shape, WriterShape
<1>2. Opened(r, p)
  BY DEF RegionCreate, Opened
<1>3. QED BY <1>1, <1>2 DEF Good, Effect

\* rt_alloc, also when its ALLOC event is lost.
LEMMA AllocGood ==
  ASSUME Shape, NEW r \in Region, NEW b \in Buffer, NEW size \in Sizes, Alloc(r, b, size)
  PROVE  Good
<1>1. JobShape'
  BY JobsTyped DEF Alloc
<1>2. trace' \in Trace \cup {NoTrace}
  BY DEF Alloc, Shape, WriterShape
<1>3. CASE Lost /\ UNCHANGED heapVars
  BY <1>1, <1>2, <1>3, QuietSteps
<1>4. CASE ~(Lost /\ UNCHANGED heapVars)
  <2> DEFINE s == [state |-> "ACTIVE", owner |-> r, size |-> size, class |-> policy[r].class,
                   map |-> {}, exposed |-> FALSE, lastWrite |-> tick, traceLive |-> TRUE]
  <2>1. policy[r].class \in Class /\ size \in Nat /\ tick \in Nat
    BY InputsAssumption DEF Shape, OwnerShape, JobShape, Policy
  <2>2. s \in Slot
    BY <2>1 DEF Slot
  <2>3. buf' = [buf EXCEPT ![b] = s]
    BY <1>4 DEF Alloc
  <2>4. BufShape' /\ buf'[b] = s /\ \A x \in Buffer \ {b} : buf'[x] = buf[x]
    BY <2>2, <2>3, BufUpdate
  <2>5. WriterShape'
    BY <1>2, <1>4, WritersTyped DEF Alloc
  <2>6. Created(r, b, size)
    BY <1>4, <2>4 DEF Alloc, Created
  <2>7. QED BY <1>1, <2>5, <2>6 DEF Good, Effect
<1>5. QED BY <1>3, <1>4

\* rt_buffer_free and rt_region_free_pointer.
LEMMA DeletersGood ==
  ASSUME Shape, NEW b \in Buffer, BufferFree(b) \/ FreePointer(b),
         buf[b].exposed => buf[b].state # "FREE"
  PROVE  Good
<1>1. JobShape' /\ WriterShape'
  BY JobsTyped, WritersTyped DEF BufferFree, FreePointer, Shape, WriterShape
<1>2. CASE UNCHANGED heapVars
  BY <1>1, <1>2, SameHeap DEF Good, Effect
<1>3. CASE Deleted(b)
  <2>1. buf[b].state # "FREE"
    BY DEF BufferFree, FreePointer
  <2>2. Removed(b)
    BY <1>3, <2>1, DeletedRemoves
  <2>3. QED BY <1>1, <2>2 DEF Good, Effect
<1>4. QED BY <1>2, <1>3 DEF BufferFree, FreePointer

\* A mapping is opened or closed.
LEMMA MappingsGood ==
  ASSUME Shape, NEW b \in Buffer,
         Unmap(b) \/ \E flags \in MapModes : Map(b, flags)
  PROVE  Good
<1>1. JobShape' /\ WriterShape'
  BY JobsTyped, WritersTyped DEF Map, Unmap, Shape, WriterShape
<1>2. PICK s \in Slot :
        /\ buf' = [buf EXCEPT ![b] = s]
        /\ s.state = buf[b].state /\ s.owner = buf[b].owner
        /\ s.size = buf[b].size /\ s.class = buf[b].class
  <2>1. buf[b] \in Slot /\ tick \in Nat /\ MapModes \subseteq SUBSET {"R", "W"}
    BY InputsAssumption DEF Shape, BufShape, JobShape
  <2>2. ASSUME NEW flags \in MapModes, Map(b, flags)
        PROVE  \E s \in Slot :
                 /\ buf' = [buf EXCEPT ![b] = s]
                 /\ s.state = buf[b].state /\ s.owner = buf[b].owner
                 /\ s.size = buf[b].size /\ s.class = buf[b].class
    <3> DEFINE s == [buf[b] EXCEPT !.map = flags, !.exposed = TRUE]
    <3>1. /\ s \in Slot /\ s.state = buf[b].state /\ s.owner = buf[b].owner
          /\ s.size = buf[b].size /\ s.class = buf[b].class
      BY <2>1 DEF Slot
    <3>2. buf' = [buf EXCEPT ![b] = s]
      BY <2>2 DEF Map
    <3>3. QED BY <3>1, <3>2
  <2>3. CASE Unmap(b)
    <3> DEFINE s == Unmapped(buf[b])
    <3>1. /\ s \in Slot /\ s.state = buf[b].state /\ s.owner = buf[b].owner
          /\ s.size = buf[b].size /\ s.class = buf[b].class
      BY <2>1 DEF Slot, Unmapped
    <3>2. buf' = [buf EXCEPT ![b] = s]
      BY <2>3 DEF Unmap
    <3>3. QED BY <3>1, <3>2
  <2>4. QED BY <2>2, <2>3
<1>3. Active(b) /\ UNCHANGED <<ownerVars, statVars>>
  BY DEF Map, Unmap, Valid
<1>4. buf[b].state # "FREE" => buf[b].owner \in Region
  BY DEF Shape, BufShape
<1>5. BufShape' /\ buf'[b] = s /\ \A x \in Buffer \ {b} : buf'[x] = buf[x]
  BY <1>2, <1>4, BufUpdate
<1>6. Touched
  BY <1>2, <1>3, <1>5 DEF Touched
<1>7. QED BY <1>1, <1>6 DEF Good, Effect

\* The other calls on one buffer, and the shared parts of the loops.
LEMMA CallsGood ==
  ASSUME Shape, NEW b \in Buffer,
         \/ ExpireOnUse(b) \/ MarkWritten(b) \/ Refresh(b) \/ TraceAccess(b)
         \/ Invalidate(b) \/ \E c \in Class : Reclassify(b, c)
  PROVE  Good
<1>1. CASE ExpireOnUse(b)
  <2>1. Reclaimed(b)
    BY <1>1, ReleaseReclaims DEF ExpireOnUse, Missed
  <2>2. JobShape' /\ WriterShape'
    BY <1>1, JobsTyped, WritersTyped DEF ExpireOnUse, Shape, WriterShape
  <2>3. QED BY <2>1, <2>2 DEF Good, Effect
<1>2. CASE MarkWritten(b) \/ Refresh(b)
  <2>1. PICK t \in Nat : tick' = t /\ Dated(b, t)
    BY <1>2, LaterIsNatural DEF MarkWritten, Refresh
  <2>2. JobShape' /\ WriterShape'
    BY <1>2, <2>1, WritersTyped DEF MarkWritten, Refresh, Shape, JobShape, WriterShape
  <2>3. QED BY <2>1, <2>2, DatedTouches DEF Good, Effect
<1>3. CASE TraceAccess(b)
  <2>1. JobShape' /\ UNCHANGED heapVars /\ trace' \in Trace \cup {NoTrace}
    BY <1>3, JobsTyped DEF TraceAccess, Shape, WriterShape
  <2>2. QED BY <1>3, <2>1, QuietSteps DEF TraceAccess
<1>4. ASSUME NEW c \in Class, Reclassify(b, c) PROVE Good
  <2>1. Active(b) /\ Hinted(b, c) /\ UNCHANGED <<job, trace>>
    BY <1>4 DEF Reclassify, Valid
  <2>2. trace' \in Trace \cup {NoTrace}
    BY <2>1 DEF Shape, WriterShape
  <2>3. WriterShape'
    BY <2>1, <2>2, WritersTyped DEF Hinted
  <2>4. CASE UNCHANGED <<tick, heapVars>>
    BY <2>1, <2>3, <2>4, SameHeap, JobsTyped DEF Good, Effect
  <2>5. CASE Retag(b, c)
    <3>1. tick' \in Nat /\ (Touched \/ Moved(b, c))
      BY <2>1, <2>5, RetagMoves
    <3>2. JobShape'
      BY <2>1, <3>1 DEF Shape, JobShape
    <3>3. QED BY <2>3, <3>1, <3>2 DEF Good, Effect
  <2>6. QED BY <2>1, <2>4, <2>5 DEF Hinted
<1>5. CASE Invalidate(b)
  <2>1. Active(b) /\ UNCHANGED <<tick, job, trace>>
    BY <1>5 DEF Invalidate, Valid
  <2>2. JobShape' /\ WriterShape'
    BY <1>5, <2>1, JobsTyped, WritersTyped DEF Invalidate, Shape, WriterShape
  <2>3. CASE UNCHANGED heapVars
    BY <2>2, <2>3, SameHeap DEF Good, Effect
  <2>4. CASE ~UNCHANGED heapVars
    <3> DEFINE s == [Released(buf[b], "INVALID") EXCEPT !.traceLive = FALSE]
    <3>1. /\ s \in Slot /\ s.state = "INVALID" /\ s.owner = buf[b].owner
          /\ s.map = {} /\ ~s.exposed
      BY DEF Shape, BufShape, Slot, Released
    <3>2. buf' = [buf EXCEPT ![b] = s] /\ Discounted(b) /\ UNCHANGED ownerVars
      BY <1>5, <2>4 DEF Invalidate
    <3>3. buf[b].owner \in Region
      BY <2>1 DEF Shape, BufShape, Active
    <3>4. Reclaimed(b)
      <4> HIDE DEF s
      <4>1. BufShape' /\ buf'[b] = s /\ \A x \in Buffer \ {b} : buf'[x] = buf[x]
        BY <3>1, <3>2, <3>3, BufUpdate
      <4>2. QED BY <2>1, <3>1, <3>2, <4>1 DEF Reclaimed
    <3>5. QED BY <2>2, <3>4 DEF Good, Effect
  <2>5. QED BY <2>3, <2>4
<1>6. QED BY <1>1, <1>2, <1>3, <1>4, <1>5

\* A loop begins, ends, or goes on without touching the heap.
LEMMA LoopsGood ==
  ASSUME Shape,
         \/ NextRegion \/ PollEnd \/ CheckPasses \/ ReclassifyChecked \/ ApplyEnd
         \/ ShutdownEnd \/ AnnounceBuffer \/ AttachEnd \/ DetachEnd
  PROVE  Good
<1>1. job \in Job /\ tick \in Nat /\ Idle \in Job
  BY JobsTyped DEF Shape, JobShape
<1>2. CASE NextRegion
  <2> DEFINE r == Head(job.rest)
             todo == IF job.op = "poll" /\ ~open[r] THEN <<>> ELSE buffers[r]
  <2>1. job.rest \in Seq(Region) /\ job.rest # <<>>
    BY <1>1, <1>2 DEF NextRegion, Job
  <2>2. r \in Region /\ Tail(job.rest) \in Seq(Region)
    BY <2>1, HeadTailProperties
  <2>3. todo \in Seq(Buffer)
    BY <2>2, EmptySeq DEF Shape, OwnerShape
  <2>4. job' = [job EXCEPT !.rest = Tail(job.rest), !.todo = todo]
    BY <1>2 DEF NextRegion
  <2>5. job' \in Job /\ job'.op = job.op /\ job'.region = job.region
    <3> HIDE DEF todo
    <3>1. QED BY <1>1, <2>2, <2>3, <2>4 DEF Job
  <2>6. JobShape' /\ trace' \in Trace \cup {NoTrace}
    BY <1>1, <1>2, <2>5 DEF NextRegion, JobShape, Shape, WriterShape
  <2>7. QED BY <1>2, <2>6, QuietSteps DEF NextRegion
<1>3. CASE PollEnd \/ ApplyEnd \/ AttachEnd
  <2>1. JobShape' /\ trace' \in Trace \cup {NoTrace}
    BY <1>3, JobsTyped DEF PollEnd, ApplyEnd, AttachEnd, Shape, WriterShape
  <2>2. QED BY <1>3, <2>1, QuietSteps DEF PollEnd, ApplyEnd, AttachEnd
<1>4. CASE CheckPasses
  <2> DEFINE bytes == IF job.op = "reclassify" /\ buf[Current].class # job.class
                      THEN job.bytes + buf[Current].size ELSE job.bytes
  <2>1. Current \in Buffer /\ job.todo \in Seq(Buffer) /\ job.todo # <<>>
    BY <1>1, <1>4, JobsTyped DEF CheckPasses, Working, Job
  <2>2. Tail(job.todo) \in Seq(Buffer)
    BY <2>1, HeadTailProperties
  <2>3. bytes \in Nat
    BY <1>1, <2>1 DEF Shape, BufShape, Slot, Job
  <2>4. job' = [job EXCEPT !.todo = Tail(job.todo), !.bytes = bytes]
    BY <1>4 DEF CheckPasses
  <2>5. job' \in Job /\ job'.op = job.op /\ job'.region = job.region
    <3> HIDE DEF bytes
    <3>1. QED BY <1>1, <2>2, <2>3, <2>4 DEF Job
  <2>6. JobShape' /\ trace' \in Trace \cup {NoTrace}
    BY <1>1, <1>4, <2>5 DEF CheckPasses, JobShape, Shape, WriterShape
  <2>7. QED BY <1>4, <2>6, QuietSteps DEF CheckPasses
<1>5. CASE ReclassifyChecked
  <2>1. job.op = "reclassify" /\ job.region \in Region /\ tick' = tick
    BY <1>5 DEF ReclassifyChecked, Finished, Shape, JobShape
  <2>2. buffers[job.region] \in Seq(Buffer)
    BY <2>1 DEF Shape, OwnerShape
  <2>3. CASE job' = Idle
    <3>1. JobShape' /\ trace' \in Trace \cup {NoTrace}
      BY <2>1, <2>3, <1>5, JobsTyped DEF ReclassifyChecked, Shape, WriterShape
    <3>2. QED BY <1>5, <3>1, QuietSteps DEF ReclassifyChecked
  <2>4. CASE job' = [job EXCEPT !.op = "apply", !.todo = buffers[job.region], !.bytes = 0]
    <3>1. job' \in Job /\ job'.region = job.region
      BY <1>1, <2>2, <2>4 DEF Job, Ops
    <3>2. JobShape' /\ trace' \in Trace \cup {NoTrace}
      BY <1>1, <1>5, <2>1, <3>1 DEF ReclassifyChecked, JobShape, Shape, WriterShape
    <3>3. QED BY <1>5, <3>2, QuietSteps DEF ReclassifyChecked
  <2>5. QED BY <1>5, <2>3, <2>4 DEF ReclassifyChecked
<1>6. CASE ShutdownEnd
  <2>1. job' \in Job /\ job'.op = "dead" /\ tick' = tick
    BY <1>1, <1>6 DEF ShutdownEnd, Idle, Job, Ops
  <2>2. JobShape' /\ trace' \in Trace \cup {NoTrace}
    BY <1>1, <1>6, <2>1 DEF ShutdownEnd, JobShape
  <2>3. QED BY <1>6, <2>2, QuietSteps DEF ShutdownEnd
<1>7. CASE AnnounceBuffer
  <2>1. Current \in Buffer /\ trace' \in Trace \cup {NoTrace} /\ tick' = tick /\ UNCHANGED heapVars
    BY <1>7, JobsTyped DEF AnnounceBuffer, Shape, WriterShape
  <2>2. JobShape'
    BY <1>1, <1>7, <2>1, JobsTyped DEF AnnounceBuffer
  <2>3. QED BY <1>7, <2>1, <2>2, QuietSteps DEF AnnounceBuffer
<1>8. CASE DetachEnd
  <2>1. JobShape' /\ trace' \in Trace \cup {NoTrace} /\ UNCHANGED heapVars
    BY <1>8, JobsTyped DEF DetachEnd, Shape, WriterShape
  <2>2. QED BY <1>8, <2>1, QuietSteps DEF DetachEnd
<1>9. QED BY <1>2, <1>3, <1>4, <1>5, <1>6, <1>7, <1>8

\* One iteration of poll.
LEMMA PollStepGood ==
  ASSUME Shape, PollStep
  PROVE  Good
<1>1. Current \in Buffer /\ job \in Job /\ tick \in Nat
  BY JobsTyped DEF PollStep, Shape, JobShape
<1>2. policy[buf[Current].owner].target \in Class \/ ~Active(Current)
  BY <1>1 DEF Shape, BufShape, OwnerShape, Policy, Active
<1>3. tick' \in Nat /\ Effect
  <2>1. CASE PollSkip(Current)
    BY <1>1, <2>1, SameHeap DEF PollSkip, Effect
  <2>2. CASE PollExpire(Current)
    BY <1>1, <2>2, ReleaseReclaims DEF PollExpire, Effect
  <2>3. CASE PollInvalidate(Current)
    BY <1>1, <2>3, ReleaseReclaims DEF PollInvalidate, Due, Effect
  <2>4. CASE PollRefresh(Current)
    BY <1>1, <2>4, DatedTouches DEF PollRefresh, Job, Effect
  <2>5. CASE PollPromote(Current)
    <3> DEFINE c == policy[buf[Current].owner].target
    <3>1. Active(Current) /\ c \in Class
      BY <1>2, <2>5 DEF PollPromote, Due
    <3>2. CASE Release(Current, "EXPIRED") /\ UNCHANGED tick
      BY <1>1, <3>1, <3>2, ReleaseReclaims DEF Effect
    <3>3. CASE Retag(Current, c)
      BY <1>1, <3>1, <3>3, RetagMoves DEF Effect
    <3>4. CASE Dated(Current, job.now) /\ UNCHANGED tick
      BY <1>1, <3>4, DatedTouches DEF Job, Effect
    <3>5. CASE UNCHANGED <<tick, heapVars>>
      BY <1>1, <3>5, SameHeap DEF Effect
    <3>6. QED BY <2>5, <3>2, <3>3, <3>4, <3>5 DEF PollPromote
  <2>6. QED BY <2>1, <2>2, <2>3, <2>4, <2>5 DEF PollStep
<1>4. JobShape' /\ WriterShape'
  BY <1>3, JobsTyped, WritersTyped DEF PollStep, Shape, WriterShape
<1>5. QED BY <1>3, <1>4 DEF Good

\* The loops of region refresh and reclassify.
LEMMA RegionLoopsGood ==
  ASSUME Shape, CheckFails \/ RefreshAll \/ ApplyMoves \/ ApplyFails
  PROVE  Good
<1>1. job \in Job /\ tick \in Nat
  BY DEF Shape, JobShape
<1>2. CASE CheckFails
  <2>1. Current \in Buffer /\ JobShape' /\ WriterShape'
    BY <1>2, JobsTyped, WritersTyped DEF CheckFails, Shape, WriterShape
  <2>2. Effect
    BY <1>2, <2>1, SameHeap, ReleaseReclaims DEF CheckFails, Missed, Effect
  <2>3. QED BY <2>1, <2>2 DEF Good
<1>3. CASE RefreshAll
  <2>1. JobShape' /\ WriterShape'
    BY <1>3, JobsTyped, WritersTyped DEF RefreshAll, Shape, WriterShape
  <2>2. \A b \in Buffer :
          LET s == [buf[b] EXCEPT !.lastWrite = tick] IN
          /\ s \in Slot /\ s.state = buf[b].state /\ s.owner = buf[b].owner
          /\ s.size = buf[b].size /\ s.class = buf[b].class /\ s.map = buf[b].map
          /\ s.exposed = buf[b].exposed
    BY <1>1 DEF Shape, BufShape, Slot
  <2>3. /\ buf' = [b \in Buffer |-> IF b \in ToSet(buffers[job.region])
                                    THEN [buf[b] EXCEPT !.lastWrite = tick] ELSE buf[b]]
        /\ UNCHANGED <<ownerVars, statVars>>
    BY <1>3 DEF RefreshAll
  <2>4. Touched
    BY <2>2, <2>3 DEF Shape, BufShape, Touched
  <2>5. QED BY <2>1, <2>4 DEF Good, Effect
<1>4. CASE ApplyMoves
  <2>1. Current \in Buffer /\ Active(Current) /\ job.class \in Class
    BY <1>1, <1>4, JobsTyped DEF ApplyMoves, Valid, Job
  <2>2. tick' \in Nat /\ (Touched \/ Moved(Current, job.class))
    BY <1>4, <2>1, RetagMoves DEF ApplyMoves
  <2>3. JobShape' /\ WriterShape'
    BY <1>4, <2>1, <2>2, JobsTyped, WritersTyped DEF ApplyMoves, Shape, WriterShape
  <2>4. QED BY <2>1, <2>2, <2>3 DEF Good, Effect
<1>5. CASE ApplyFails
  <2>1. Current \in Buffer
    BY <1>5, JobsTyped DEF ApplyFails
  <2>2. JobShape' /\ WriterShape'
    BY <1>5, <2>1, JobsTyped, WritersTyped DEF ApplyFails, Shape, WriterShape
  <2>3. Effect
    BY <1>5, <2>1, SameHeap, ReleaseReclaims DEF ApplyFails, Missed, Effect
  <2>4. QED BY <2>2, <2>3 DEF Good
<1>6. QED BY <1>2, <1>3, <1>4, <1>5

\* One buffer of a region that ends.
LEMMA EndBufferGood ==
  ASSUME Shape, EndBuffer
  PROVE  Good /\ (\A x \in Buffer \ {Current} : buf'[x] = buf[x])
              /\ (Current \in Buffer /\ buf'[Current].state # "ACTIVE")
<1>1. Current \in Buffer /\ JobShape' /\ WriterShape'
  BY JobsTyped, WritersTyped DEF EndBuffer, Shape, JobShape, WriterShape
<1>2. PICK flag \in BOOLEAN :
        buf' = [buf EXCEPT ![Current] = [Ended(buf[Current]) EXCEPT !.traceLive = flag]]
  <2>1. buf[Current] \in Slot
    BY <1>1 DEF Shape, BufShape
  <2>2. Ended(buf[Current]) \in Slot
    BY <2>1 DEF Ended, Released, Slot
  <2>3. [Ended(buf[Current]) EXCEPT !.traceLive = Ended(buf[Current]).traceLive]
          = Ended(buf[Current]) /\ Ended(buf[Current]).traceLive \in BOOLEAN
    BY <2>2 DEF Slot
  <2>4. QED BY <2>3 DEF EndBuffer
<1> DEFINE s == [Ended(buf[Current]) EXCEPT !.traceLive = flag]
<1>3. /\ s \in Slot /\ s.owner = buf[Current].owner
      /\ IF Active(Current)
         THEN s.state = "INVALID" /\ s.map = {} /\ ~s.exposed
         ELSE /\ s.state = buf[Current].state /\ s.state # "ACTIVE" /\ s.map = buf[Current].map
              /\ s.exposed = buf[Current].exposed /\ s.size = buf[Current].size
              /\ s.class = buf[Current].class
  BY <1>1 DEF Shape, BufShape, Slot, Ended, Released, Active
<1>4. s.state # "FREE" => s.owner \in Region
  BY <1>1, <1>3 DEF Shape, BufShape, Active
<1>5. BufShape' /\ buf'[Current] = s /\ \A x \in Buffer \ {Current} : buf'[x] = buf[x]
  <2> HIDE DEF s
  <2>1. buf' = [buf EXCEPT ![Current] = s]
    BY <1>2 DEF s
  <2>2. QED BY <1>1, <1>3, <1>4, <2>1, BufUpdate
<1> HIDE DEF s
<1>6. CASE Active(Current)
  <2>1. Reclaimed(Current)
    BY <1>1, <1>3, <1>5, <1>6 DEF Reclaimed, EndBuffer
  <2>2. QED BY <1>1, <1>3, <1>5, <1>6, <2>1 DEF Good, Effect
<1>7. CASE ~Active(Current)
  <2>1. Touched
    BY <1>1, <1>3, <1>5, <1>7 DEF Touched, EndBuffer
  <2>2. QED BY <1>1, <1>3, <1>5, <1>7, <2>1 DEF Good, Effect
<1>8. QED BY <1>6, <1>7

\* A region whose buffers have ended is closed or deleted.
LEMMA EndingsGood ==
  ASSUME Shape, EndRegion \/ DestroyRegion \/ ShutdownRegion
  PROVE  Good
<1>1. job \in Job /\ tick \in Nat
  BY DEF Shape, JobShape
<1>2. ASSUME NEW r \in Region, DeleteRegion(r) PROVE Dropped(r)
  <2>1. FreeSlot \in Slot /\ FreeSlot.state = "FREE"
    BY DEF FreeSlot, Slot, Class
  <2>2. QED BY <1>2, <2>1 DEF DeleteRegion, Dropped, Shape, BufShape
<1>3. CASE EndRegion
  <2>1. JobShape' /\ WriterShape' /\ Closed(job.region)
    BY <1>3, JobsTyped, WritersTyped DEF EndRegion, Closed, Shape, WriterShape
  <2>2. QED BY <1>3, <2>1 DEF Good, Effect, EndRegion
<1>4. CASE DestroyRegion
  <2>1. JobShape' /\ WriterShape'
    BY <1>4, JobsTyped, WritersTyped DEF DestroyRegion, Shape, WriterShape
  <2>2. Finished({"destroy", "shutdown"}) /\ job.region \in Region
    BY <1>4 DEF DestroyRegion, Finished, Shape, JobShape
  <2>3. QED BY <1>2, <1>4, <2>1, <2>2 DEF Good, Effect, DestroyRegion
<1>5. CASE ShutdownRegion
  <2>1. WriterShape' /\ job.op = "shutdown"
    BY <1>5, WritersTyped DEF ShutdownRegion, Finished, Shape, WriterShape
  <2>2. CASE job.region = NoRegion
    <3> DEFINE r == Head(regions)
               todo == IF open[r] THEN buffers[r] ELSE <<>>
    <3>1. regions # <<>> /\ job' = [job EXCEPT !.region = r, !.todo = todo] /\ UNCHANGED heapVars
      BY <1>5, <2>2 DEF ShutdownRegion
    <3>2. r \in Region
      BY <3>1, HeadTailProperties DEF Shape, OwnerShape
    <3>3. todo \in Seq(Buffer)
      BY <3>2, EmptySeq DEF Shape, OwnerShape
    <3>4. job' \in Job /\ job'.op = "shutdown"
      <4> HIDE DEF todo, r
      <4>1. QED BY <1>1, <2>1, <3>1, <3>2, <3>3 DEF Job
    <3>5. JobShape'
      BY <1>1, <1>5, <3>4 DEF JobShape, ShutdownRegion
    <3>6. QED BY <2>1, <3>1, <3>5, SameHeap DEF Good, Effect
  <2>3. CASE job.region # NoRegion
    <3>1. job.region \in Region /\ DeleteRegion(job.region)
          /\ job' = [job EXCEPT !.region = NoRegion]
      BY <1>1, <1>5, <2>3 DEF ShutdownRegion, Job
    <3>2. job' \in Job /\ job'.op = "shutdown"
      BY <1>1, <2>1, <3>1 DEF Job
    <3>3. JobShape'
      BY <1>1, <1>5, <3>2 DEF JobShape, ShutdownRegion
    <3>4. Finished({"destroy", "shutdown"})
      BY <1>5 DEF ShutdownRegion, Finished
    <3>5. QED BY <1>2, <2>1, <3>1, <3>3, <3>4 DEF Good, Effect
  <2>4. QED BY <2>2, <2>3
<1>6. QED BY <1>3, <1>4, <1>5

\* Together: every step is good.
LEMMA StepsGood ==
  ASSUME Shape, StorageReturned, [Next]_vars
  PROVE  Good
<1>1. CASE Handler
  <2>1. \A b \in Buffer : buf[b].exposed => buf[b].state # "FREE"
    BY DEF StorageReturned, Active
  <2>2. QED
    BY <1>1, <2>1, ClockGood, RegionCreateGood, AllocGood, DeletersGood, CallsGood,
       MappingsGood, StartersGood, Zenon DEF Handler
<1>2. CASE JobStep
  BY <1>2, LoopsGood, PollStepGood, RegionLoopsGood, EndBufferGood, EndingsGood DEF JobStep
<1>3. CASE Environment
  BY <1>3, ClockGood, BreaksGood DEF Environment
<1>4. CASE UNCHANGED vars
  BY <1>4, JobsTyped, QuietSteps DEF vars, heapVars, Shape, WriterShape
<1>5. QED BY <1>1, <1>2, <1>3, <1>4 DEF Next

-----------------------------------------------------------------------------
(* Capacities and the peak depend on the counters alone.                     *)

\* No effect overfills a class: bytes enter it behind Fits only.
LEMMA CapacityStep ==
  ASSUME Shape, Effect, CapacityRespected
  PROVE  CapacityRespected'
<1> USE DEF CapacityRespected
<1>1. /\ activeBytes \in [Class -> Int] /\ Capacity \in [Class -> Nat]
      /\ \A b \in Buffer : buf[b].size \in Nat /\ buf[b].class \in Class
      /\ Sizes \subseteq Nat /\ \A r \in Region : policy[r].class \in Class
  BY OptionsAssumption, InputsAssumption
     DEF Shape, OwnerShape, StatShape, BufShape, Slot, Policy
<1>2. CASE UNCHANGED activeBytes
  BY <1>2
<1>3. ASSUME NEW b \in Buffer, Discounted(b) PROVE CapacityRespected'
  BY <1>1, <1>3 DEF Discounted
<1>4. ASSUME NEW b \in Buffer, NEW c \in Class, Moved(b, c) PROVE CapacityRespected'
  BY <1>1, <1>4 DEF Moved, Fits
<1>5. ASSUME NEW r \in Region, NEW b \in Buffer, NEW n \in Sizes, Created(r, b, n)
      PROVE  CapacityRespected'
  BY <1>1, <1>5 DEF Created, Fits
<1>6. UNCHANGED activeBytes \/ (\E b \in Buffer : Discounted(b))
      \/ (\E b \in Buffer, c \in Class : Moved(b, c))
      \/ (\E r \in Region, b \in Buffer, n \in Sizes : Created(r, b, n))
  BY DEF Effect, Touched, Reclaimed, Removed, Deleted, Opened, Closed, Dropped, DeleteRegion, statVars
<1>7. QED BY <1>2, <1>3, <1>4, <1>5, <1>6

\* Only a creation raises the total, and it raises the peak with it.
LEMMA PeakStep ==
  ASSUME Shape, Effect, PeakCovers
  PROVE  PeakCovers'
<1> USE DEF PeakCovers, Total
<1>1. /\ activeBytes \in [Class -> Int] /\ peak \in Int
      /\ \A b \in Buffer : buf[b].size \in Nat /\ buf[b].class \in Class
      /\ Sizes \subseteq Nat /\ \A r \in Region : policy[r].class \in Class
  BY InputsAssumption DEF Shape, OwnerShape, StatShape, BufShape, Slot, Policy
<1>2. CASE UNCHANGED <<activeBytes, peak>>
  BY <1>2
<1>3. ASSUME NEW b \in Buffer, Discounted(b) PROVE PeakCovers'
  BY <1>1, <1>3 DEF Discounted, Class
<1>4. ASSUME NEW b \in Buffer, NEW c \in Class, Moved(b, c) PROVE PeakCovers'
  BY <1>1, <1>4 DEF Moved, Class
<1>5. ASSUME NEW r \in Region, NEW b \in Buffer, NEW n \in Sizes, Created(r, b, n)
      PROVE  PeakCovers'
  BY <1>1, <1>5 DEF Created, PeakWith, Class
<1>6. UNCHANGED <<activeBytes, peak>> \/ (\E b \in Buffer : Discounted(b))
      \/ (\E b \in Buffer, c \in Class : Moved(b, c))
      \/ (\E r \in Region, b \in Buffer, n \in Sizes : Created(r, b, n))
  BY DEF Effect, Touched, Reclaimed, Removed, Deleted, Opened, Closed, Dropped, DeleteRegion, statVars
<1>7. QED BY <1>2, <1>3, <1>4, <1>5, <1>6

-----------------------------------------------------------------------------
(* Vectors.                                                                  *)

\* A new element at the end keeps a vector free of duplicates.
LEMMA AppendFresh ==
  ASSUME NEW S, NEW s \in Seq(S), NEW e \in S, e \notin ToSet(s), IsInjective(s)
  PROVE  /\ IsInjective(Append(s, e))
         /\ ToSet(Append(s, e)) = ToSet(s) \cup {e}
<1> DEFINE a == Append(s, e)
<1>1. /\ Len(s) \in Nat /\ DOMAIN s = 1..Len(s) /\ a \in Seq(S)
      /\ DOMAIN a = 1..(Len(s) + 1)
      /\ \A i \in 1..Len(s) : a[i] = s[i]
      /\ a[Len(s) + 1] = e
  BY AppendProperties, LenProperties
<1>2. \A i \in 1..(Len(s) + 1) : i \in 1..Len(s) \/ i = Len(s) + 1
  BY <1>1
<1>3. Len(s) + 1 \in 1..(Len(s) + 1) /\ \A i \in 1..Len(s) : i \in 1..(Len(s) + 1)
  BY <1>1
<1>4. QED
  <2> HIDE DEF a
  <2>1. ToSet(a) = ToSet(s) \cup {e}
    BY <1>1, <1>2, <1>3 DEF ToSet
  <2>2. IsInjective(a)
    BY <1>1, <1>2 DEF ToSet, IsInjective
  <2>3. QED BY <2>1, <2>2 DEF a

\* What vector::erase leaves.
LEMMA RemoveAtElements ==
  ASSUME NEW S, NEW s \in Seq(S), NEW i \in DOMAIN s
  PROVE  /\ RemoveAt(s, i) \in Seq(S)
         /\ Len(RemoveAt(s, i)) = Len(s) - 1
         /\ \A j \in 1..(Len(s) - 1) : RemoveAt(s, i)[j] = IF j < i THEN s[j] ELSE s[j + 1]
<1> DEFINE left == SubSeq(s, 1, i - 1)
           right == SubSeq(s, i + 1, Len(s))
<1>1. Len(s) \in Nat /\ i \in 1..Len(s) /\ \A k \in 1..Len(s) : s[k] \in S
  BY LenProperties, ElementOfSeq
<1>2. /\ left \in Seq(S) /\ Len(left) = i - 1
      /\ \A j \in 1..(i - 1) : left[j] = s[j]
  <2>1. \A k \in 1..(i - 1) : s[k] \in S
    BY <1>1
  <2>2. /\ left \in Seq(S)
        /\ Len(left) = IF 1 <= i - 1 THEN (i - 1) - 1 + 1 ELSE 0
        /\ \A j \in 1..((i - 1) - 1 + 1) : left[j] = s[1 + j - 1]
    <3>1. 1 \in Int /\ i - 1 \in Int
      BY <1>1
    <3>2. QED BY <2>1, <3>1, SubSeqProperties
  <2>3. QED
    <3> HIDE DEF left
    <3>1. QED BY <1>1, <2>2
<1>3. /\ right \in Seq(S) /\ Len(right) = Len(s) - i
      /\ \A j \in 1..(Len(s) - i) : right[j] = s[i + j]
  <2>1. \A k \in (i + 1)..Len(s) : s[k] \in S
    BY <1>1
  <2>2. /\ right \in Seq(S)
        /\ Len(right) = IF i + 1 <= Len(s) THEN Len(s) - (i + 1) + 1 ELSE 0
        /\ \A j \in 1..(Len(s) - (i + 1) + 1) : right[j] = s[(i + 1) + j - 1]
    <3>1. i + 1 \in Int /\ Len(s) \in Int
      BY <1>1
    <3>2. QED BY <2>1, <3>1, SubSeqProperties
  <2>3. QED
    <3> HIDE DEF right
    <3>1. QED BY <1>1, <2>2
<1>4. RemoveAt(s, i) = left \o right
  BY DEF RemoveAt
<1> HIDE DEF left, right
<1>5. /\ left \o right \in Seq(S)
      /\ Len(left \o right) = Len(left) + Len(right)
      /\ \A j \in 1..(Len(left) + Len(right)) :
           (left \o right)[j] = IF j <= Len(left) THEN left[j] ELSE right[j - Len(left)]
  BY <1>2, <1>3, ConcatProperties
<1>6. ASSUME NEW j \in 1..(Len(s) - 1)
      PROVE  (left \o right)[j] = IF j < i THEN s[j] ELSE s[j + 1]
  <2>1. j \in 1..(Len(left) + Len(right))
    BY <1>1, <1>2, <1>3, <1>6
  <2>2. CASE j < i
    BY <1>1, <1>2, <1>5, <2>1, <2>2
  <2>3. CASE ~(j < i)
    <3>1. j - Len(left) \in 1..(Len(s) - i) /\ ~(j <= Len(left))
      BY <1>1, <1>2, <2>3
    <3>2. right[j - Len(left)] = s[i + (j - Len(left))] /\ i + (j - Len(left)) = j + 1
      BY <1>1, <1>2, <1>3, <3>1, SMTT(30)
    <3>3. QED BY <1>5, <2>1, <2>3, <3>1, <3>2
  <2>4. QED BY <2>2, <2>3
<1>7. Len(left \o right) = Len(s) - 1
  <2>1. Len(left \o right) = (i - 1) + (Len(s) - i)
    BY <1>2, <1>3, <1>5
  <2>2. QED BY <1>1, <2>1
<1>8. left \o right \in Seq(S)
  BY <1>5
<1>9. QED BY <1>4, <1>6, <1>7, <1>8

\* Erasing an element of a vector without duplicates removes it altogether.
LEMMA RemoveAtInjective ==
  ASSUME NEW S, NEW s \in Seq(S), NEW i \in DOMAIN s, IsInjective(s)
  PROVE  /\ IsInjective(RemoveAt(s, i))
         /\ ToSet(RemoveAt(s, i)) = ToSet(s) \ {s[i]}
<1> DEFINE r == RemoveAt(s, i)
           n == Len(s)
<1>1. /\ n \in Nat /\ DOMAIN s = 1..n /\ i \in 1..n
      /\ \A j, k \in 1..n : s[j] = s[k] => j = k
  BY LenProperties DEF IsInjective
<1>2. /\ DOMAIN r = 1..(n - 1)
      /\ \A j \in 1..(n - 1) : r[j] = IF j < i THEN s[j] ELSE s[j + 1]
  BY RemoveAtElements, LenProperties
<1>3. ToSet(s) = {s[j] : j \in 1..n} /\ ToSet(r) = {r[j] : j \in 1..(n - 1)}
  BY <1>1, <1>2 DEF ToSet
<1> HIDE DEF r, n
<1>4. IsInjective(r)
  BY <1>1, <1>2 DEF IsInjective
<1>5. ASSUME NEW j \in 1..(n - 1) PROVE r[j] \in ToSet(s) /\ r[j] # s[i]
  <2>1. CASE j < i
    BY <1>1, <1>2, <1>3, <2>1
  <2>2. CASE ~(j < i)
    <3>1. r[j] = s[j + 1] /\ j + 1 \in 1..n /\ j + 1 # i
      BY <1>1, <1>2, <2>2
    <3>2. QED BY <1>1, <1>3, <3>1
  <2>3. QED BY <2>1, <2>2
<1>6. ASSUME NEW j \in 1..n, j # i PROVE s[j] \in ToSet(r)
  <2>1. CASE j < i
    <3>1. j \in 1..(n - 1) /\ r[j] = s[j]
      BY <1>1, <1>2, <2>1
    <3>2. QED BY <1>3, <3>1
  <2>2. CASE ~(j < i)
    <3>1. j - 1 \in 1..(n - 1) /\ ~(j - 1 < i) /\ (j - 1) + 1 = j
      BY <1>1, <1>6, <2>2
    <3>2. r[j - 1] = s[j]
      BY <1>2, <3>1
    <3>3. QED BY <1>3, <3>1, <3>2
  <2>3. QED BY <2>1, <2>2
<1>7. ToSet(r) = ToSet(s) \ {s[i]}
  BY <1>1, <1>3, <1>5, <1>6
<1>8. QED BY <1>4, <1>7 DEF r

-----------------------------------------------------------------------------
(* Owners.  While a region ends, its active buffers are those still to come. *)

Ending ==
  job.op \in {"end", "destroy", "shutdown"} =>
    \A b \in Buffer : Active(b) /\ buf[b].owner = job.region => b \in ToSet(job.todo)

Owners == VectorsMatchOwners /\ StorageReturned /\ Ending

\* When the loop is through, no active buffer is left.
LEMMA NoneLeft ==
  ASSUME Ending, Finished({"end", "destroy", "shutdown"})
  PROVE  \A b \in Buffer : buf[b].owner = job.region => ~Active(b)
BY DEF Ending, Finished, ToSet

\* Every step keeps the shape.
LEMMA ShapeStep ==
  ASSUME Shape, VectorsMatchOwners, Good
  PROVE  Shape'
<1>1. JobShape' /\ WriterShape' /\ Effect
  BY DEF Good
<1>2. BufShape'
  BY <1>1 DEF Effect, Touched, Reclaimed, Removed, Moved, Created, Opened, Closed, Dropped,
     Shape, BufShape, statVars
<1>3. StatShape'
  <2> USE DEF Shape, StatShape
  <2>1. /\ \A b \in Buffer : buf[b].size \in Nat /\ buf[b].class \in Class
        /\ Sizes \subseteq Nat /\ \A r \in Region : policy[r].class \in Class
    BY InputsAssumption DEF OwnerShape, BufShape, Slot, Policy
  <2>2. CASE UNCHANGED statVars
    BY <2>2 DEF statVars
  <2>3. ASSUME NEW b \in Buffer, Active(b), Discounted(b) PROVE StatShape'
    <3>1. buf[b].owner \in Region
      BY <2>3 DEF BufShape, Active
    <3>2. QED BY <2>1, <2>3, <3>1 DEF Discounted
  <2>4. ASSUME NEW b \in Buffer, NEW c \in Class, Moved(b, c) PROVE StatShape'
    BY <2>1, <2>4 DEF Moved
  <2>5. ASSUME NEW r \in Region, NEW b \in Buffer, NEW n \in Sizes, Created(r, b, n)
        PROVE  StatShape'
    <3>1. Total \in Int
      BY DEF Total, Class
    <3>2. PeakWith(n) \in Int
      BY <2>1, <3>1 DEF PeakWith
    <3>3. QED BY <2>1, <2>5, <3>2 DEF Created
  <2>6. ASSUME NEW r \in Region, NEW p \in Policies, Opened(r, p) PROVE StatShape'
    BY <2>6 DEF Opened
  <2>7. QED
    BY <1>1, <2>2, <2>3, <2>4, <2>5, <2>6
       DEF Effect, Touched, Reclaimed, Removed, Deleted, Closed, Dropped, DeleteRegion
<1>4. OwnerShape'
  <2> USE DEF Shape, OwnerShape
  <2>1. CASE UNCHANGED ownerVars
    BY <2>1 DEF ownerVars
  <2>2. ASSUME NEW b \in Buffer, Removed(b) PROVE OwnerShape'
    <3>1. buf[b].owner \in Region
      BY <2>2 DEF Removed, BufShape
    <3>2. PICK k \in DOMAIN buffers[buf[b].owner] :
            buffers' = [buffers EXCEPT ![buf[b].owner] = RemoveAt(@, k)]
      BY <2>2 DEF Removed, Deleted
    <3>3. RemoveAt(buffers[buf[b].owner], k) \in Seq(Buffer)
      BY <3>1, <3>2, RemoveAtElements
    <3>4. QED BY <2>2, <3>1, <3>2, <3>3 DEF Removed, Deleted
  <2>3. ASSUME NEW r \in Region, NEW b \in Buffer, NEW n \in Sizes, Created(r, b, n)
        PROVE  OwnerShape'
    <3>1. Append(buffers[r], b) \in Seq(Buffer)
      BY AppendProperties
    <3>2. QED BY <2>3, <3>1 DEF Created
  <2>4. ASSUME NEW r \in Region, NEW p \in Policies, Opened(r, p) PROVE OwnerShape'
    <3>1. Append(regions, r) \in Seq(Region) /\ p \in Policy
      BY AppendProperties, InputsAssumption
    <3>2. QED BY <2>4, <3>1 DEF Opened
  <2>5. CASE Finished({"end"}) /\ Closed(job.region)
    BY <2>5 DEF Closed
  <2>6. ASSUME NEW r \in Region, Dropped(r) PROVE OwnerShape'
    <3>1. NoPolicy \in Policy /\ <<>> \in Seq(Buffer)
      BY EmptySeq DEF NoPolicy, Policy, Class, Actions
    <3>2. PICK k \in DOMAIN regions : regions' = RemoveAt(regions, k)
      BY <2>6 DEF Dropped, DeleteRegion
    <3>3. regions' \in Seq(Region)
      BY <3>2, RemoveAtElements
    <3>4. QED BY <2>6, <3>1, <3>3 DEF Dropped, DeleteRegion
  <2>7. QED
    BY <1>1, <2>1, <2>2, <2>3, <2>4, <2>5, <2>6
       DEF Effect, Touched, Reclaimed, Moved
<1>5. QED BY <1>1, <1>2, <1>3, <1>4 DEF Shape

\* Every effect keeps storage with the active buffers of open regions.
LEMMA StorageStep ==
  ASSUME Shape, Owners, Effect
  PROVE  StorageReturned'
<1> USE DEF Owners, StorageReturned, Active, Mapped
<1>1. \A b \in Buffer : buf[b].state # "FREE" => buf[b].owner \in Region
  BY DEF Shape, BufShape
<1>2. CASE Touched
  BY <1>2 DEF Touched, ownerVars
<1>3. ASSUME NEW b \in Buffer, Reclaimed(b) PROVE StorageReturned'
  BY <1>3 DEF Reclaimed, ownerVars
<1>4. ASSUME NEW b \in Buffer, Removed(b) PROVE StorageReturned'
  BY <1>4 DEF Removed, Deleted, FreeSlot, Shape, BufShape
<1>5. ASSUME NEW b \in Buffer, NEW c \in Class, Moved(b, c) PROVE StorageReturned'
  BY <1>5 DEF Moved, ownerVars
<1>6. ASSUME NEW r \in Region, NEW b \in Buffer, NEW n \in Sizes, Created(r, b, n)
      PROVE  StorageReturned'
  BY <1>6 DEF Created
<1>7. ASSUME NEW r \in Region, NEW p \in Policies, Opened(r, p) PROVE StorageReturned'
  BY <1>1, <1>7 DEF Opened, Shape, OwnerShape
<1>8. CASE Finished({"end"}) /\ Closed(job.region)
  <2>1. \A b \in Buffer : buf[b].owner = job.region => ~Active(b)
    BY <1>8, NoneLeft DEF Finished
  <2>2. QED BY <1>1, <1>8, <2>1 DEF Closed, Shape, OwnerShape
<1>9. CASE Finished({"destroy", "shutdown"}) /\ job.region \in Region /\ Dropped(job.region)
  <2>1. \A b \in Buffer : buf[b].owner = job.region => ~Active(b)
    BY <1>9, NoneLeft DEF Finished
  <2>2. \A b \in Buffer : buf'[b] = buf[b] \/ buf'[b] = FreeSlot
    BY <1>9 DEF Dropped, DeleteRegion
  <2>3. \A r \in Region \ {job.region} : open'[r] = open[r]
    BY <1>9 DEF Dropped, DeleteRegion, Shape, OwnerShape
  <2>4. QED BY <1>1, <2>1, <2>2, <2>3 DEF FreeSlot
<1>10. QED BY <1>2, <1>3, <1>4, <1>5, <1>6, <1>7, <1>8, <1>9 DEF Effect

\* Every effect keeps vectors and owner pointers in agreement.
LEMMA VectorsStep ==
  ASSUME Shape, Owners, Effect
  PROVE  VectorsMatchOwners'
<1> DEFINE Mine(r) == {b \in Buffer : buf[b].state # "FREE" /\ buf[b].owner = r}
           Fine(r) == /\ IsInjective(buffers[r])
                      /\ ToSet(buffers[r]) = Mine(r)
                      /\ r \notin ToSet(regions) => buffers[r] = <<>> /\ ~open[r]
<1>1. /\ \A r \in Region : Fine(r)
      /\ IsInjective(regions)
      /\ \A r \in Region : buffers[r] \in Seq(Buffer)
      /\ regions \in Seq(Region)
      /\ \A b \in Buffer : buf[b].state # "FREE" => buf[b].owner \in Region
  BY DEF Owners, VectorsMatchOwners, Shape, OwnerShape, BufShape
<1>2. SUFFICES (\A r \in Region : Fine(r)') /\ IsInjective(regions)'
  BY DEF VectorsMatchOwners
<1>3. ASSUME UNCHANGED ownerVars,
             \A b \in Buffer : /\ buf[b].state = "FREE" <=> buf'[b].state = "FREE"
                               /\ buf[b].owner = buf'[b].owner
      PROVE  (\A r \in Region : Fine(r)') /\ IsInjective(regions)'
  BY <1>1, <1>3 DEF ownerVars
<1>4. CASE Touched
  BY <1>3, <1>4 DEF Touched
<1>5. ASSUME NEW b \in Buffer, Reclaimed(b)
      PROVE  (\A r \in Region : Fine(r)') /\ IsInjective(regions)'
  BY <1>3, <1>5 DEF Reclaimed, Active
<1>6. ASSUME NEW b \in Buffer, NEW c \in Class, Moved(b, c)
      PROVE  (\A r \in Region : Fine(r)') /\ IsInjective(regions)'
  BY <1>3, <1>6 DEF Moved, Active
<1>7. ASSUME NEW r \in Region, NEW b \in Buffer, NEW n \in Sizes, Created(r, b, n)
      PROVE  (\A q \in Region : Fine(q)') /\ IsInjective(regions)'
  <2>1. b \notin ToSet(buffers[r]) /\ r \in ToSet(regions)
    BY <1>1, <1>7 DEF Created
  <2>2. /\ IsInjective(Append(buffers[r], b))
        /\ ToSet(Append(buffers[r], b)) = ToSet(buffers[r]) \cup {b}
    BY <1>1, <2>1, AppendFresh
  <2>3. /\ buffers'[r] = Append(buffers[r], b)
        /\ \A q \in Region \ {r} : buffers'[q] = buffers[q]
        /\ regions' = regions /\ open' = open
    BY <1>7 DEF Created, Shape, OwnerShape
  <2>4. Mine(r)' = Mine(r) \cup {b} /\ \A q \in Region \ {r} : Mine(q)' = Mine(q)
    BY <1>7 DEF Created
  <2>5. QED BY <1>1, <2>1, <2>2, <2>3, <2>4
<1>8. ASSUME NEW b \in Buffer, Removed(b)
      PROVE  (\A q \in Region : Fine(q)') /\ IsInjective(regions)'
  <2>1. PICK r \in Region : r = buf[b].owner /\ b \in ToSet(buffers[r])
    BY <1>1, <1>8 DEF Removed
  <2>2. PICK k \in DOMAIN buffers[r] :
          buffers[r][k] = b /\ buffers' = [buffers EXCEPT ![r] = RemoveAt(buffers[r], k)]
    BY <1>8, <2>1 DEF Removed, Deleted
  <2>3. /\ IsInjective(RemoveAt(buffers[r], k))
        /\ ToSet(RemoveAt(buffers[r], k)) = ToSet(buffers[r]) \ {b}
    BY <1>1, <2>1, <2>2, RemoveAtInjective
  <2>4. /\ buffers'[r] = RemoveAt(buffers[r], k)
        /\ \A q \in Region \ {r} : buffers'[q] = buffers[q]
        /\ regions' = regions /\ open' = open
    BY <1>8, <2>1, <2>2 DEF Removed, Deleted, Shape, OwnerShape
  <2>5. buf'[b].state = "FREE" /\ \A x \in Buffer \ {b} : buf'[x] = buf[x]
    BY <1>8 DEF Removed, Deleted, FreeSlot, Shape, BufShape
  <2>6. Mine(r)' = Mine(r) \ {b} /\ \A q \in Region \ {r} : Mine(q)' = Mine(q)
    BY <2>1, <2>5
  <2>7. r \in ToSet(regions)
    BY <1>1, <2>1 DEF ToSet
  <2>8. QED BY <1>1, <2>1, <2>3, <2>4, <2>6, <2>7
<1>9. ASSUME NEW r \in Region, NEW p \in Policies, Opened(r, p)
      PROVE  (\A q \in Region : Fine(q)') /\ IsInjective(regions)'
  <2>1. IsInjective(regions') /\ ToSet(regions') = ToSet(regions) \cup {r}
    BY <1>1, <1>9, AppendFresh DEF Opened
  <2>2. buffers' = buffers /\ buf' = buf /\ \A q \in Region \ {r} : open'[q] = open[q]
    BY <1>9 DEF Opened, Shape, OwnerShape
  <2>3. QED BY <1>1, <2>1, <2>2
<1>10. CASE Finished({"end"}) /\ Closed(job.region)
  <2>1. /\ buffers' = buffers /\ buf' = buf /\ regions' = regions
        /\ \A q \in Region : open'[q] => open[q]
    BY <1>10 DEF Closed, Shape, OwnerShape
  <2>2. QED BY <1>1, <2>1
<1>11. ASSUME NEW r \in Region, Dropped(r)
       PROVE  (\A q \in Region : Fine(q)') /\ IsInjective(regions)'
  <2>1. PICK k \in DOMAIN regions : regions[k] = r /\ regions' = RemoveAt(regions, k)
    BY <1>11 DEF Dropped, DeleteRegion
  <2>2. IsInjective(regions') /\ ToSet(regions') = ToSet(regions) \ {r}
    BY <1>1, <2>1, RemoveAtInjective
  <2>3. /\ ~open'[r] /\ buffers'[r] = <<>>
        /\ \A q \in Region \ {r} : open'[q] = open[q] /\ buffers'[q] = buffers[q]
        /\ \A b \in Buffer : buf'[b] = IF b \in ToSet(buffers[r]) THEN FreeSlot ELSE buf[b]
    BY <1>11 DEF Dropped, DeleteRegion, Shape, OwnerShape
  <2>4. Mine(r)' = {} /\ \A q \in Region \ {r} : Mine(q)' = Mine(q)
    BY <1>1, <2>3, SMTT(30) DEF FreeSlot
  <2>5. IsInjective(<<>>) /\ ToSet(<<>>) = {}
    BY DEF IsInjective, ToSet
  <2>6. QED BY <1>1, <2>2, <2>3, <2>4, <2>5
<1>12. QED BY <1>4, <1>5, <1>6, <1>7, <1>8, <1>9, <1>10, <1>11 DEF Effect

\* Until a region has ended, its active buffers are ahead of the loop.
LEMMA EndingStep ==
  ASSUME Shape, Shape', Owners, [Next]_vars
  PROVE  Ending'
<1>1. ASSUME NEW b \in Buffer, Active(b)
      PROVE  buf[b].owner \in Region /\ open[buf[b].owner] /\ b \in ToSet(buffers[buf[b].owner])
  BY <1>1 DEF Shape, BufShape, Owners, StorageReturned, VectorsMatchOwners, Active
<1>2. CASE job'.op \notin {"end", "destroy", "shutdown"}
  BY <1>2 DEF Ending
<1>3. CASE UNCHANGED <<job, buf>>
  BY <1>3 DEF Owners, Ending, Active
<1>4. CASE EndBuffer
  <2>1. job.todo \in Seq(Buffer) /\ job.todo # <<>>
    BY <1>4 DEF EndBuffer, Working, Shape, JobShape, Job
  <2>2. ToSet(job.todo) \subseteq ToSet(Tail(job.todo)) \cup {Current}
    <3>1. /\ Len(job.todo) \in Nat /\ DOMAIN job.todo = 1..Len(job.todo)
          /\ Tail(job.todo) \in Seq(Buffer) /\ Len(Tail(job.todo)) = Len(job.todo) - 1
          /\ DOMAIN Tail(job.todo) = 1..(Len(job.todo) - 1)
          /\ \A i \in 1..(Len(job.todo) - 1) : Tail(job.todo)[i] = job.todo[i + 1]
      BY <2>1, HeadTailProperties, LenProperties
    <3>2. Current = job.todo[1]
      BY <2>1 DEF Current
    <3>3. ASSUME NEW i \in 1..Len(job.todo), i # 1
          PROVE  job.todo[i] \in ToSet(Tail(job.todo))
      <4>1. i - 1 \in 1..(Len(job.todo) - 1) /\ (i - 1) + 1 = i
        BY <3>1, <3>3
      <4>2. Tail(job.todo)[i - 1] = job.todo[i]
        BY <3>1, <4>1
      <4>3. QED BY <3>1, <4>1, <4>2 DEF ToSet
    <3>4. QED BY <3>1, <3>2, <3>3 DEF ToSet
  <2>3. /\ Current \in Buffer /\ buf'[Current].state # "ACTIVE"
        /\ \A x \in Buffer \ {Current} : buf'[x] = buf[x]
    BY <1>4, EndBufferGood
  <2>4. job'.op = job.op /\ job'.region = job.region /\ job'.todo = Tail(job.todo)
    BY <1>4 DEF EndBuffer, Continue, Shape, JobShape, Job
  <2>5. job.op \in {"end", "destroy", "shutdown"}
    BY <1>4 DEF EndBuffer, Working
  <2>6. QED BY <2>2, <2>3, <2>4, <2>5 DEF Owners, Ending, Active
<1>5. ASSUME NEW r \in Region, RegionEnd(r) \/ RegionDestroy(r) PROVE Ending'
  <2>1. /\ job'.region = r /\ buf' = buf
        /\ job'.todo = buffers[r] \/ (job'.todo = <<>> /\ ~open[r])
    BY <1>5 DEF RegionEnd, RegionDestroy, Idle, heapVars
  <2>2. QED BY <1>1, <2>1 DEF Ending, Active
<1>6. CASE RuntimeDestroy
  <2>1. job'.region = NoRegion /\ buf' = buf
    BY <1>6 DEF RuntimeDestroy, Idle, heapVars
  <2>2. QED BY <1>1, <2>1, HandlesAssumption DEF Ending, Active
<1>7. CASE ShutdownRegion
  <2>1. CASE job.region = NoRegion
    <3>1. /\ buf' = buf
          /\ \E r : /\ job'.region = r
                    /\ job'.todo = IF open[r] THEN buffers[r] ELSE <<>>
      BY <1>7, <2>1 DEF ShutdownRegion, heapVars, Shape, JobShape, Job
    <3>2. QED BY <1>1, <3>1 DEF Ending, Active
  <2>2. CASE job.region # NoRegion
    <3>1. job'.region = NoRegion
      BY <1>7, <2>2 DEF ShutdownRegion, Shape, JobShape, Job
    <3>2. \A b \in Buffer : Active(b)' => buf'[b].owner \in Region
      BY DEF Shape, BufShape, Active
    <3>3. QED BY <3>1, <3>2, HandlesAssumption DEF Ending
  <2>3. QED BY <2>1, <2>2
<1>8. CASE Handler
  <2>1. job = Idle
    BY <1>8 DEF Handler, Advance, RegionCreate, Alloc, BufferFree, FreePointer, ExpireOnUse,
       Unmap, MarkWritten, Refresh, Invalidate, TraceAccess, Map, Reclassify, RegionRefresh,
       RegionEnd, RegionDestroy, RegionReclassify, AttachTrace, Poll, DetachTrace, RuntimeDestroy
  <2>2. \/ job' = job
        \/ job'.op \in {"refresh", "reclassify", "attach", "detach", "poll"}
        \/ \E r \in Region : RegionEnd(r) \/ RegionDestroy(r)
        \/ RuntimeDestroy
    BY <1>8 DEF Handler, Advance, RegionCreate, Alloc, BufferFree, FreePointer, ExpireOnUse,
       Unmap, MarkWritten, Refresh, Invalidate, TraceAccess, Map, Reclassify, RegionRefresh,
       RegionReclassify, AttachTrace, Poll, DetachTrace, Idle
  <2>3. QED BY <1>2, <1>5, <1>6, <2>1, <2>2 DEF Idle
<1>9. CASE JobStep
  <2>1. job \in Job
    BY DEF Shape, JobShape
  <2>2. CASE job' = Idle
    BY <1>2, <2>2 DEF Idle
  <2>3. CASE NextRegion \/ PollStep \/ ApplyMoves \/ AnnounceBuffer
    <3>1. /\ job'.op = job.op \/ job' = Idle
          /\ job.op \in {"poll", "apply", "attach", "detach"}
      BY <2>1, <2>3
         DEF NextRegion, PollStep, ApplyMoves, AnnounceBuffer, Continue, Working, Job
    <3>2. QED BY <1>2, <2>2, <3>1
  <2>4. CASE CheckPasses \/ ReclassifyChecked \/ ShutdownEnd
    <3>1. job' = Idle \/ job'.op \in {"refresh", "reclassify", "apply", "dead"}
      BY <2>1, <2>4 DEF CheckPasses, ReclassifyChecked, ShutdownEnd, Working, Idle, Job
    <3>2. QED BY <1>2, <2>2, <3>1
  <2>5. CASE \/ PollEnd \/ CheckFails \/ RefreshAll \/ ApplyFails \/ ApplyEnd
             \/ EndRegion \/ DestroyRegion \/ AttachEnd \/ DetachEnd
    BY <2>2, <2>5 DEF PollEnd, CheckFails, RefreshAll, ApplyFails, ApplyEnd, EndRegion,
       DestroyRegion, AttachEnd, DetachEnd
  <2>6. QED BY <1>4, <1>7, <1>9, <2>3, <2>4, <2>5 DEF JobStep
<1>10. CASE Environment \/ UNCHANGED vars
  BY <1>3, <1>10 DEF Environment, ClockTicks, WriterBreaks, vars, heapVars
<1>11. QED BY <1>8, <1>9, <1>10 DEF Next

-----------------------------------------------------------------------------
(* Accounting.  A step changes the counted sets by one buffer at most.       *)

\* How the count of a set of buffers, and its bytes, change from one state to
\* the next when the set loses b.
LEMMA CountedOut ==
  ASSUME NEW t1 \in [Buffer -> Slot], NEW t2 \in [Buffer -> Slot],
         NEW S \in SUBSET Buffer, NEW b \in S,
         \A x \in S \ {b} : t2[x].size = t1[x].size
  PROVE  /\ Cardinality(S \ {b}) = Cardinality(S) - 1
         /\ Cardinality(BytesOf(t2, S \ {b})) = Cardinality(BytesOf(t1, S)) - t1[b].size
<1> DEFINE R == S \ {b}
<1>1. Cardinality(R) = Cardinality(S) - 1
  <2>1. IsFiniteSet(S)
    BY HandlesAssumption, FS_Subset
  <2>2. QED BY <2>1, FS_RemoveElement
<1>2. R \in SUBSET Buffer /\ b \in Buffer \ R /\ R \cup {b} = S
  OBVIOUS
<1>3. \A x \in R : t2[x].size = t1[x].size
  OBVIOUS
<1>4. t1[b].size \in Nat
  BY DEF Slot
<1> HIDE DEF R
<1>5. /\ Cardinality(BytesOf(t1, R)) \in Nat
      /\ Cardinality(BytesOf(t1, R \cup {b})) = Cardinality(BytesOf(t1, R)) + t1[b].size
  BY <1>2, BytesAdd
<1>6. BytesOf(t2, R) = BytesOf(t1, R)
  BY <1>3, BytesSame
<1>7. Cardinality(BytesOf(t1, S)) = Cardinality(BytesOf(t1, R)) + t1[b].size
  BY <1>2, <1>5
<1>8. QED BY <1>1, <1>4, <1>5, <1>6, <1>7 DEF R

\* The same for a set that gains b.
LEMMA CountedIn ==
  ASSUME NEW t1 \in [Buffer -> Slot], NEW t2 \in [Buffer -> Slot],
         NEW S \in SUBSET Buffer, NEW b \in Buffer \ S,
         \A x \in S : t2[x].size = t1[x].size
  PROVE  /\ Cardinality(S \cup {b}) = Cardinality(S) + 1
         /\ Cardinality(BytesOf(t2, S \cup {b})) = Cardinality(BytesOf(t1, S)) + t2[b].size
<1>1. Cardinality(S \cup {b}) = Cardinality(S) + 1
  <2>1. IsFiniteSet(S)
    BY HandlesAssumption, FS_Subset
  <2>2. QED BY <2>1, FS_AddElement
<1>2. Cardinality(BytesOf(t2, S \cup {b})) = Cardinality(BytesOf(t2, S)) + t2[b].size
  BY BytesAdd
<1>3. BytesOf(t2, S) = BytesOf(t1, S)
  BY BytesSame
<1>4. QED BY <1>1, <1>2, <1>3

\* Accounting in terms of sets and BytesOf.
Held(t) == {b \in Buffer : t[b].state = "ACTIVE"}
HeldIn(t, c) == {b \in Buffer : t[b].state = "ACTIVE" /\ t[b].class = c}
HeldOf(t, r) == {b \in Buffer : t[b].state = "ACTIVE" /\ t[b].owner = r}

Books(t, ab, n, rb, rn) ==
  /\ \A c \in Class : ab[c] = Cardinality(BytesOf(t, HeldIn(t, c)))
  /\ n = Cardinality(Held(t))
  /\ \A r \in Region : /\ rb[r] = Cardinality(BytesOf(t, HeldOf(t, r)))
                       /\ rn[r] = Cardinality(HeldOf(t, r))

\* Both forms of the accounting say the same.
LEMMA BooksAreAccounting ==
  /\ Accounting <=> Books(buf, activeBytes, activeBuffers, regionBytes, regionBuffers)
  /\ Accounting' <=> Books(buf', activeBytes', activeBuffers', regionBytes', regionBuffers')
BY DEF Accounting, Books, BytesOf, Bytes, Held, HeldIn, HeldOf, Active, ActiveIn, ActiveOf

\* A buffer that is no longer active leaves the books.
LEMMA BooksDiscounted ==
  ASSUME Shape, BufShape', Accounting, NEW b \in Buffer, Active(b), Discounted(b),
         buf'[b].state # "ACTIVE", \A x \in Buffer \ {b} : buf'[x] = buf[x]
  PROVE  Accounting'
<1>1. /\ buf \in [Buffer -> Slot] /\ buf' \in [Buffer -> Slot]
      /\ activeBytes \in [Class -> Int] /\ regionBytes \in [Region -> Int]
      /\ regionBuffers \in [Region -> Int]
      /\ buf[b].class \in Class /\ buf[b].owner \in Region /\ buf[b].state = "ACTIVE"
  BY DEF Shape, BufShape, StatShape, Slot, Active
<1>2. Books(buf, activeBytes, activeBuffers, regionBytes, regionBuffers)
  BY BooksAreAccounting
<1>3. /\ Held(buf') = Held(buf) \ {b} /\ b \in Held(buf)
      /\ HeldIn(buf', buf[b].class) = HeldIn(buf, buf[b].class) \ {b}
      /\ b \in HeldIn(buf, buf[b].class)
      /\ HeldOf(buf', buf[b].owner) = HeldOf(buf, buf[b].owner) \ {b}
      /\ b \in HeldOf(buf, buf[b].owner)
  BY <1>1 DEF Held, HeldIn, HeldOf
<1>4. activeBuffers' = Cardinality(Held(buf'))
  <2>1. Held(buf) \in SUBSET Buffer
    BY DEF Held
  <2>2. IsFiniteSet(Held(buf))
    BY <2>1, HandlesAssumption, FS_Subset
  <2>3. Cardinality(Held(buf) \ {b}) = Cardinality(Held(buf)) - 1
    BY <1>3, <2>2, FS_RemoveElement
  <2>4. QED BY <1>2, <1>3, <2>3 DEF Discounted, Books
<1>5. ASSUME NEW c \in Class PROVE activeBytes'[c] = Cardinality(BytesOf(buf', HeldIn(buf', c)))
  <2>1. HeldIn(buf, c) \in SUBSET Buffer
    BY DEF HeldIn
  <2>2. CASE c = buf[b].class
    <3>1. b \in HeldIn(buf, c) /\ HeldIn(buf', c) = HeldIn(buf, c) \ {b}
      BY <1>3, <2>2
    <3>2. Cardinality(BytesOf(buf', HeldIn(buf, c) \ {b}))
            = Cardinality(BytesOf(buf, HeldIn(buf, c))) - buf[b].size
      BY <1>1, <2>1, <3>1, CountedOut
    <3>3. activeBytes[c] = Cardinality(BytesOf(buf, HeldIn(buf, c)))
      BY <1>2 DEF Books
    <3>4. QED BY <1>1, <2>2, <3>1, <3>2, <3>3 DEF Discounted
  <2>3. CASE c # buf[b].class
    <3>1. HeldIn(buf', c) = HeldIn(buf, c) /\ b \notin HeldIn(buf, c)
      BY <1>1, <2>3 DEF HeldIn
    <3>2. BytesOf(buf', HeldIn(buf, c)) = BytesOf(buf, HeldIn(buf, c))
      BY <2>1, <3>1, BytesSame
    <3>3. QED BY <1>1, <1>2, <2>3, <3>1, <3>2 DEF Discounted, Books
  <2>4. QED BY <2>2, <2>3
<1>6. ASSUME NEW r \in Region
      PROVE  /\ regionBytes'[r] = Cardinality(BytesOf(buf', HeldOf(buf', r)))
             /\ regionBuffers'[r] = Cardinality(HeldOf(buf', r))
  <2>1. HeldOf(buf, r) \in SUBSET Buffer
    BY DEF HeldOf
  <2>2. CASE r = buf[b].owner
    <3>1. b \in HeldOf(buf, r) /\ HeldOf(buf', r) = HeldOf(buf, r) \ {b}
      BY <1>3, <2>2
    <3>2. /\ Cardinality(BytesOf(buf', HeldOf(buf, r) \ {b}))
               = Cardinality(BytesOf(buf, HeldOf(buf, r))) - buf[b].size
          /\ Cardinality(HeldOf(buf, r) \ {b}) = Cardinality(HeldOf(buf, r)) - 1
      BY <1>1, <2>1, <3>1, CountedOut
    <3>3. /\ regionBytes[r] = Cardinality(BytesOf(buf, HeldOf(buf, r)))
          /\ regionBuffers[r] = Cardinality(HeldOf(buf, r))
      BY <1>2 DEF Books
    <3>4. QED BY <1>1, <2>2, <3>1, <3>2, <3>3 DEF Discounted
  <2>3. CASE r # buf[b].owner
    <3>1. HeldOf(buf', r) = HeldOf(buf, r) /\ b \notin HeldOf(buf, r)
      BY <1>1, <2>3 DEF HeldOf
    <3>2. BytesOf(buf', HeldOf(buf, r)) = BytesOf(buf, HeldOf(buf, r))
      BY <2>1, <3>1, BytesSame
    <3>3. QED BY <1>1, <1>2, <2>3, <3>1, <3>2 DEF Discounted, Books
  <2>4. QED BY <2>2, <2>3
<1>7. QED BY <1>4, <1>5, <1>6, BooksAreAccounting DEF Books

\* A step that leaves the active buffers as they are leaves the books balanced.
LEMMA BooksUnchanged ==
  ASSUME Shape, Accounting,
         UNCHANGED <<activeBytes, activeBuffers, regionBytes, regionBuffers>>,
         \A x \in Buffer : \/ /\ buf'[x].state = buf[x].state /\ buf'[x].owner = buf[x].owner
                              /\ buf'[x].size = buf[x].size /\ buf'[x].class = buf[x].class
                           \/ buf'[x].state # "ACTIVE" /\ buf[x].state # "ACTIVE"
  PROVE  Accounting'
<1>1. Books(buf, activeBytes, activeBuffers, regionBytes, regionBuffers)
  BY BooksAreAccounting
<1>2. /\ Held(buf') = Held(buf)
      /\ \A c \in Class : HeldIn(buf', c) = HeldIn(buf, c)
      /\ \A r \in Region : HeldOf(buf', r) = HeldOf(buf, r)
  BY DEF Held, HeldIn, HeldOf
<1>3. \A x \in Buffer : buf[x].state = "ACTIVE" => buf'[x].size = buf[x].size
  OBVIOUS
<1>4. ASSUME NEW c \in Class PROVE BytesOf(buf', HeldIn(buf, c)) = BytesOf(buf, HeldIn(buf, c))
  <2>1. \A x \in HeldIn(buf, c) : buf'[x].size = buf[x].size
    BY <1>3 DEF HeldIn
  <2>2. QED BY <2>1, BytesSame
<1>5. ASSUME NEW r \in Region PROVE BytesOf(buf', HeldOf(buf, r)) = BytesOf(buf, HeldOf(buf, r))
  <2>1. \A x \in HeldOf(buf, r) : buf'[x].size = buf[x].size
    BY <1>3 DEF HeldOf
  <2>2. QED BY <2>1, BytesSame
<1>6. QED BY <1>1, <1>2, <1>4, <1>5, BooksAreAccounting DEF Books

\* A migration books the bytes from one class to the other.
LEMMA BooksMoved ==
  ASSUME Shape, Accounting, NEW b \in Buffer, NEW to \in Class, Moved(b, to)
  PROVE  Accounting'
<1> DEFINE from == buf[b].class
           size == buf[b].size
<1>1. /\ buf \in [Buffer -> Slot] /\ buf' \in [Buffer -> Slot]
      /\ activeBytes \in [Class -> Int] /\ from \in Class /\ size \in Nat
      /\ buf[b].state = "ACTIVE" /\ to # from
      /\ \A x \in Buffer \ {b} : buf'[x] = buf[x]
      /\ buf'[b].state = "ACTIVE" /\ buf'[b].owner = buf[b].owner
      /\ buf'[b].size = size /\ buf'[b].class = to
      /\ UNCHANGED <<activeBuffers, regionBytes, regionBuffers>>
  BY DEF Shape, BufShape, StatShape, Slot, Active, Moved
<1>2. Books(buf, activeBytes, activeBuffers, regionBytes, regionBuffers)
  BY BooksAreAccounting
<1>3. /\ activeBytes'[from] = activeBytes[from] - size
      /\ activeBytes'[to] = activeBytes[to] + size
      /\ \A c \in Class \ {from, to} : activeBytes'[c] = activeBytes[c]
  BY <1>1 DEF Moved
<1>4. /\ Held(buf') = Held(buf)
      /\ \A r \in Region : HeldOf(buf', r) = HeldOf(buf, r)
      /\ HeldIn(buf', from) = HeldIn(buf, from) \ {b} /\ b \in HeldIn(buf, from)
      /\ HeldIn(buf', to) = HeldIn(buf, to) \cup {b} /\ b \notin HeldIn(buf, to)
      /\ \A c \in Class \ {from, to} : HeldIn(buf', c) = HeldIn(buf, c) /\ b \notin HeldIn(buf, c)
  BY <1>1 DEF Held, HeldIn, HeldOf
<1>5. \A x \in Buffer : buf'[x].size = buf[x].size
  BY <1>1
<1>6. ASSUME NEW S \in SUBSET Buffer PROVE BytesOf(buf', S) = BytesOf(buf, S)
  <2>1. \A x \in S : buf'[x].size = buf[x].size
    BY <1>5
  <2>2. QED BY <2>1, BytesSame
<1>7. \A c \in Class : HeldIn(buf, c) \in SUBSET Buffer
  BY DEF HeldIn
<1>8. \A r \in Region : HeldOf(buf, r) \in SUBSET Buffer
  BY DEF HeldOf
<1> HIDE DEF from, size
<1>9. ASSUME NEW c \in Class PROVE activeBytes'[c] = Cardinality(BytesOf(buf', HeldIn(buf', c)))
  <2>1. activeBytes[c] = Cardinality(BytesOf(buf, HeldIn(buf, c)))
    BY <1>2 DEF Books
  <2>2. CASE c = from
    <3>1. Cardinality(BytesOf(buf', HeldIn(buf, c) \ {b}))
            = Cardinality(BytesOf(buf, HeldIn(buf, c))) - buf[b].size
      <4>1. HeldIn(buf, c) \in SUBSET Buffer /\ b \in HeldIn(buf, c)
        BY <1>4, <1>7, <2>2
      <4>2. \A x \in HeldIn(buf, c) \ {b} : buf'[x].size = buf[x].size
        BY <1>5, <4>1
      <4>3. QED BY <1>1, <4>1, <4>2, CountedOut
    <3>2. QED BY <1>3, <1>4, <2>1, <2>2, <3>1 DEF size
  <2>3. CASE c = to
    <3>1. Cardinality(BytesOf(buf', HeldIn(buf, c) \cup {b}))
            = Cardinality(BytesOf(buf, HeldIn(buf, c))) + buf'[b].size
      <4>1. HeldIn(buf, c) \in SUBSET Buffer /\ b \in Buffer \ HeldIn(buf, c)
        BY <1>4, <1>7, <2>3
      <4>2. \A x \in HeldIn(buf, c) : buf'[x].size = buf[x].size
        BY <1>5, <4>1
      <4>3. QED BY <1>1, <4>1, <4>2, CountedIn
    <3>2. QED BY <1>1, <1>3, <1>4, <2>1, <2>3, <3>1
  <2>4. CASE c \notin {from, to}
    BY <1>3, <1>4, <1>6, <1>7, <2>1, <2>4
  <2>5. QED BY <2>2, <2>3, <2>4
<1>10. ASSUME NEW r \in Region
       PROVE  /\ regionBytes'[r] = Cardinality(BytesOf(buf', HeldOf(buf', r)))
              /\ regionBuffers'[r] = Cardinality(HeldOf(buf', r))
  BY <1>1, <1>2, <1>4, <1>6, <1>8 DEF Books
<1>11. activeBuffers' = Cardinality(Held(buf'))
  BY <1>1, <1>2, <1>4 DEF Books
<1>12. QED BY <1>9, <1>10, <1>11, BooksAreAccounting DEF Books

\* A new buffer enters the books.
LEMMA BooksCreated ==
  ASSUME Shape, Accounting, NEW q \in Region, NEW b \in Buffer, NEW size \in Sizes,
         Created(q, b, size)
  PROVE  Accounting'
<1> DEFINE class == policy[q].class
<1>1. /\ buf \in [Buffer -> Slot] /\ buf' \in [Buffer -> Slot]
      /\ activeBytes \in [Class -> Int] /\ regionBytes \in [Region -> Int]
      /\ regionBuffers \in [Region -> Int] /\ class \in Class
      /\ buf[b].state # "ACTIVE"
      /\ \A x \in Buffer \ {b} : buf'[x] = buf[x]
      /\ buf'[b].state = "ACTIVE" /\ buf'[b].owner = q
      /\ buf'[b].size = size /\ buf'[b].class = class
  BY DEF Shape, BufShape, OwnerShape, StatShape, Policy, Created
<1>2. Books(buf, activeBytes, activeBuffers, regionBytes, regionBuffers)
  BY BooksAreAccounting
<1>3. /\ activeBuffers' = activeBuffers + 1
      /\ activeBytes'[class] = activeBytes[class] + size
      /\ \A c \in Class \ {class} : activeBytes'[c] = activeBytes[c]
      /\ regionBytes'[q] = regionBytes[q] + size /\ regionBuffers'[q] = regionBuffers[q] + 1
      /\ \A r \in Region \ {q} : regionBytes'[r] = regionBytes[r]
                                 /\ regionBuffers'[r] = regionBuffers[r]
  BY <1>1 DEF Created
<1>4. /\ Held(buf') = Held(buf) \cup {b} /\ b \notin Held(buf)
      /\ HeldIn(buf', class) = HeldIn(buf, class) \cup {b}
      /\ HeldOf(buf', q) = HeldOf(buf, q) \cup {b}
      /\ \A c \in Class \ {class} : HeldIn(buf', c) = HeldIn(buf, c)
      /\ \A r \in Region \ {q} : HeldOf(buf', r) = HeldOf(buf, r)
      /\ \A c \in Class : HeldIn(buf, c) \in SUBSET Buffer /\ b \notin HeldIn(buf, c)
      /\ \A r \in Region : HeldOf(buf, r) \in SUBSET Buffer /\ b \notin HeldOf(buf, r)
  BY <1>1 DEF Held, HeldIn, HeldOf
<1>5. ASSUME NEW S \in SUBSET Buffer, b \notin S PROVE BytesOf(buf', S) = BytesOf(buf, S)
  <2>1. \A x \in S : buf'[x].size = buf[x].size
    BY <1>1, <1>5
  <2>2. QED BY <2>1, BytesSame
<1>6. ASSUME NEW S \in SUBSET Buffer, b \notin S
      PROVE  /\ Cardinality(S \cup {b}) = Cardinality(S) + 1
             /\ Cardinality(BytesOf(buf', S \cup {b})) = Cardinality(BytesOf(buf, S)) + size
  <2>1. \A x \in S : buf'[x].size = buf[x].size
    BY <1>1, <1>6
  <2>2. buf \in [Buffer -> Slot] /\ buf' \in [Buffer -> Slot] /\ b \in Buffer \ S
    BY <1>1, <1>6
  <2>3. /\ Cardinality(S \cup {b}) = Cardinality(S) + 1
        /\ Cardinality(BytesOf(buf', S \cup {b})) = Cardinality(BytesOf(buf, S)) + buf'[b].size
    BY <2>1, <2>2, CountedIn
  <2>4. QED BY <1>1, <2>3
<1> HIDE DEF class
<1>7. activeBuffers' = Cardinality(Held(buf'))
  <2>1. Held(buf) \in SUBSET Buffer
    BY DEF Held
  <2>2. QED BY <1>2, <1>3, <1>4, <1>6, <2>1 DEF Books
<1>8. ASSUME NEW c \in Class PROVE activeBytes'[c] = Cardinality(BytesOf(buf', HeldIn(buf', c)))
  BY <1>2, <1>3, <1>4, <1>5, <1>6 DEF Books
<1>9. ASSUME NEW r \in Region
      PROVE  /\ regionBytes'[r] = Cardinality(BytesOf(buf', HeldOf(buf', r)))
             /\ regionBuffers'[r] = Cardinality(HeldOf(buf', r))
  BY <1>2, <1>3, <1>4, <1>5, <1>6 DEF Books
<1>10. QED BY <1>7, <1>8, <1>9, BooksAreAccounting DEF Books

\* Every effect keeps the books balanced.
LEMMA AccountingStep ==
  ASSUME Shape, Owners, Accounting, Effect
  PROVE  Accounting'
<1>1. CASE Touched
  BY <1>1, BooksUnchanged DEF Touched, statVars
<1>2. ASSUME NEW b \in Buffer, Reclaimed(b) PROVE Accounting'
  BY <1>2, BooksDiscounted DEF Reclaimed
<1>3. ASSUME NEW b \in Buffer, Removed(b) PROVE Accounting'
  <2>1. /\ buf'[b].state # "ACTIVE" /\ \A x \in Buffer \ {b} : buf'[x] = buf[x]
        /\ BufShape'
    BY <1>3 DEF Removed, Deleted, FreeSlot, Shape, BufShape
  <2>2. CASE Active(b)
    BY <1>3, <2>1, <2>2, BooksDiscounted DEF Removed, Deleted
  <2>3. CASE ~Active(b)
    BY <1>3, <2>1, <2>3, BooksUnchanged DEF Removed, Deleted, Active, statVars
  <2>4. QED BY <2>2, <2>3
<1>4. ASSUME NEW b \in Buffer, NEW c \in Class, Moved(b, c) PROVE Accounting'
  BY <1>4, BooksMoved
<1>5. ASSUME NEW r \in Region, NEW b \in Buffer, NEW n \in Sizes, Created(r, b, n)
      PROVE  Accounting'
  BY <1>5, BooksCreated
<1>6. ASSUME NEW r \in Region, NEW p \in Policies, Opened(r, p) PROVE Accounting'
  <2>1. \A b \in Buffer : buf[b].state = "ACTIVE" => buf[b].owner # r
    BY <1>6 DEF Opened, Owners, VectorsMatchOwners, ToSet
  <2>2. HeldOf(buf, r) = {}
    BY <2>1 DEF HeldOf
  <2>3. Cardinality(HeldOf(buf, r)) = 0 /\ Cardinality(BytesOf(buf, HeldOf(buf, r))) = 0
    <3>1. BytesOf(buf, {}) = {}
      BY DEF BytesOf
    <3>2. QED BY <2>2, <3>1, FS_EmptySet
  <2>4. regionBytes[r] = 0 /\ regionBuffers[r] = 0
    BY <2>3, BooksAreAccounting DEF Books
  <2>5. regionBytes' = regionBytes /\ regionBuffers' = regionBuffers
    BY <1>6, <2>4 DEF Opened, Shape, StatShape
  <2>6. QED BY <1>6, <2>5, BooksUnchanged DEF Opened
<1>7. CASE Finished({"end"}) /\ Closed(job.region)
  BY <1>7, BooksUnchanged DEF Closed, statVars
<1>8. CASE Finished({"destroy", "shutdown"}) /\ job.region \in Region /\ Dropped(job.region)
  <2>1. \A b \in Buffer : buf[b].owner = job.region => ~Active(b)
    BY <1>8, NoneLeft DEF Finished, Owners
  <2>2. \A b \in Buffer :
          \/ buf'[b] = buf[b]
          \/ buf'[b].state = "FREE" /\ buf[b].owner = job.region
    BY <1>8 DEF Dropped, DeleteRegion, FreeSlot, Owners, VectorsMatchOwners
  <2>3. QED BY <1>8, <2>1, <2>2, BooksUnchanged DEF Dropped, DeleteRegion, Active, statVars
<1>9. QED BY <1>1, <1>2, <1>3, <1>4, <1>5, <1>6, <1>7, <1>8 DEF Effect

-----------------------------------------------------------------------------
(* The inductive invariant, and what follows from it.                        *)

IInv == Shape /\ Owners /\ Accounting /\ CapacityRespected /\ PeakCovers

\* Counters that count are not negative.
LEMMA CountersNatural == IInv => TypeOK
<1> SUFFICES ASSUME IInv PROVE TypeOK
  OBVIOUS
<1>1. Shape /\ Books(buf, activeBytes, activeBuffers, regionBytes, regionBuffers)
  BY BooksAreAccounting DEF IInv
<1>2. ASSUME NEW S \in SUBSET Buffer
      PROVE  Cardinality(S) \in Nat /\ Cardinality(BytesOf(buf, S)) \in Nat
  <2>1. buf \in [Buffer -> Slot]
    BY <1>1 DEF Shape, BufShape
  <2>2. IsFiniteSet(S) /\ IsFiniteSet(BytesOf(buf, S))
    BY <2>1, BytesFinite, HandlesAssumption, FS_Subset
  <2>3. QED BY <2>2, FS_CardinalityType
<1>3. activeBytes \in [Class -> Nat]
  <2>1. ASSUME NEW c \in Class PROVE activeBytes[c] \in Nat
    <3>1. HeldIn(buf, c) \in SUBSET Buffer
      BY DEF HeldIn
    <3>2. QED BY <1>1, <1>2, <3>1 DEF Books
  <2>2. QED BY <1>1, <2>1 DEF Shape, StatShape
<1>4. activeBuffers \in Nat
  <2>1. Held(buf) \in SUBSET Buffer
    BY DEF Held
  <2>2. QED BY <1>1, <1>2, <2>1 DEF Books
<1>5. regionBytes \in [Region -> Nat] /\ regionBuffers \in [Region -> Nat]
  <2>1. ASSUME NEW r \in Region PROVE regionBytes[r] \in Nat /\ regionBuffers[r] \in Nat
    <3>1. HeldOf(buf, r) \in SUBSET Buffer
      BY DEF HeldOf
    <3>2. QED BY <1>1, <1>2, <3>1 DEF Books
  <2>2. QED BY <1>1, <2>1 DEF Shape, StatShape
<1>6. peak \in Nat
  <2>1. Total \in Nat /\ Total <= peak /\ peak \in Int
    BY <1>1, <1>3 DEF IInv, PeakCovers, Total, Class, Shape, StatShape
  <2>2. QED BY <2>1
<1>7. QED
  BY <1>1, <1>3, <1>4, <1>5, <1>6
     DEF TypeOK, Shape, OwnerShape, BufShape, JobShape, WriterShape

\* The runtime starts in the invariant.
LEMMA InitIInv == Init => IInv
<1> SUFFICES ASSUME Init PROVE IInv
  OBVIOUS
<1> USE DEF Init
<1>1. Shape
  <2>1. OwnerShape
    BY EmptySeq DEF OwnerShape, NoPolicy, Policy, Class, Actions
  <2>2. BufShape
    BY DEF BufShape, FreeSlot, Slot, Class
  <2>3. StatShape
    BY DEF StatShape
  <2>4. JobShape
    BY EmptySeq DEF JobShape, Idle, Job, Ops, Class
  <2>5. WriterShape
    BY DEF WriterShape
  <2>6. QED BY <2>1, <2>2, <2>3, <2>4, <2>5 DEF Shape
<1>2. \A b \in Buffer : buf[b].state = "FREE" /\ ~Active(b) /\ ~Mapped(b) /\ ~buf[b].exposed
  BY DEF FreeSlot, Active, Mapped
<1>3. Owners
  <2>1. IsInjective(<<>>) /\ ToSet(<<>>) = {}
    BY DEF IsInjective, ToSet
  <2>2. VectorsMatchOwners
    BY <1>2, <2>1 DEF VectorsMatchOwners
  <2>3. QED BY <1>2, <2>2 DEF Owners, StorageReturned, Ending
<1>4. Accounting
  <2>1. /\ Held(buf) = {}
        /\ \A c \in Class : HeldIn(buf, c) = {}
        /\ \A r \in Region : HeldOf(buf, r) = {}
    BY <1>2 DEF Held, HeldIn, HeldOf
  <2>2. BytesOf(buf, {}) = {} /\ Cardinality({}) = 0
    BY FS_EmptySet DEF BytesOf
  <2>3. QED BY <2>1, <2>2, BooksAreAccounting DEF Books
<1>5. CapacityRespected /\ PeakCovers
  BY OptionsAssumption DEF CapacityRespected, PeakCovers, Total, Class
<1>6. QED BY <1>1, <1>3, <1>4, <1>5 DEF IInv

\* Every step keeps the invariant.
LEMMA StepIInv == IInv /\ [Next]_vars => IInv'
<1> SUFFICES ASSUME IInv, [Next]_vars PROVE IInv'
  OBVIOUS
<1> USE DEF IInv
<1>1. Good /\ Effect
  BY StepsGood DEF Owners, Good
<1>2. Shape'
  BY <1>1, ShapeStep DEF Owners
<1>3. Owners'
  BY <1>1, <1>2, VectorsStep, StorageStep, EndingStep DEF Owners
<1>4. Accounting' /\ CapacityRespected' /\ PeakCovers'
  BY <1>1, AccountingStep, CapacityStep, PeakStep
<1>5. QED BY <1>2, <1>3, <1>4

\* The invariant holds in every state.
LEMMA Invariance == Spec => []IInv
BY InitIInv, StepIInv, PTL DEF Spec

\* Every variable stays in its type, and no counter wraps below zero, through any
\* interleaving of calls, loops, failures and clock ticks.
THEOREM TypeCorrect == Spec => []TypeOK
BY Invariance, CountersNatural, PTL

\* The statistics the runtime keeps by increments and decrements always equal
\* what its buffers add up to.
THEOREM AccountingCorrect == Spec => []Accounting
<1>1. IInv => Accounting
  BY DEF IInv
<1>2. QED BY <1>1, Invariance, PTL

\* No class is ever filled beyond its capacity, and the reported peak is never
\* below what is active.
THEOREM CapacityCorrect == Spec => [](CapacityRespected /\ PeakCovers)
<1>1. IInv => CapacityRespected /\ PeakCovers
  BY DEF IInv
<1>2. QED BY <1>1, Invariance, PTL

\* Every handle is in exactly one vector of one existing region, and storage is
\* held by active buffers of open regions only.
THEOREM OwnersCorrect == Spec => [](VectorsMatchOwners /\ StorageReturned)
<1>1. IInv => VectorsMatchOwners /\ StorageReturned
  BY DEF IInv, Owners
<1>2. QED BY <1>1, Invariance, PTL
-----------------------------------------------------------------------------
(* All that a step may do to the age and the class of a buffer.              *)

Aged(b, t) ==
  /\ buf'[b].state = buf[b].state /\ buf'[b].owner = buf[b].owner
  /\ buf'[b].class = buf[b].class /\ buf'[b].lastWrite = t

Kept(b) == Aged(b, buf[b].lastWrite)

\* The storage goes without a missed deadline.
Given(b) == buf'[b].state \in {"FREE", "INVALID"}

Lapsed(b) ==
  /\ Active(b) /\ tick' = tick /\ buf'[b].state = "EXPIRED" /\ buf'[b].owner = buf[b].owner
  /\ Overdue(b, tick) \/ (job.op = "poll" /\ Overdue(b, job.now))

\* A call found the buffer valid and dated it by the clock, perhaps in another class.
Renewed(b) ==
  /\ Valid(b) /\ buf'[b].state = "ACTIVE" /\ buf'[b].owner = buf[b].owner
  /\ buf'[b].lastWrite = tick'

\* Poll dates with the reading it took first.
Repolled(b) ==
  /\ Working({"poll"}) /\ b = Current /\ Due(b) /\ tick' = tick /\ Aged(b, job.now)

DatedByUnmap(b) ==
  /\ Active(b) /\ "W" \in buf[b].map /\ buf'[b].map = {} /\ tick' = tick /\ Aged(b, tick)

\* Region refresh dates what it has checked.
RefreshedAll(b) ==
  /\ Finished({"refresh"}) /\ b \in ToSet(buffers[job.region]) /\ tick' = tick /\ Aged(b, tick)

Born(b) == ~Active(b) /\ tick' = tick /\ buf'[b].state = "ACTIVE" /\ buf'[b].lastWrite = tick

Fate(b) ==
  \/ Kept(b) \/ Given(b) \/ Lapsed(b) \/ Renewed(b) \/ Repolled(b) \/ DatedByUnmap(b)
  \/ RefreshedAll(b) \/ Born(b)

\* Nothing happens to a heap that stays.
LEMMA SameFate == UNCHANGED heapVars \/ UNCHANGED buf => \A b \in Buffer : Fate(b)
BY DEF heapVars, Fate, Kept, Aged

\* A release for a missed deadline, or for another reason.
LEMMA ReleaseFate ==
  ASSUME Shape, NEW b \in Buffer, NEW state \in {"INVALID", "EXPIRED"}, Active(b),
         Release(b, state), tick' = tick,
         state = "EXPIRED" => Overdue(b, tick) \/ (job.op = "poll" /\ Overdue(b, job.now))
  PROVE  \A x \in Buffer : Fate(x)
<1>1. buf \in [Buffer -> Slot] /\ buf' = [buf EXCEPT ![b] = Released(@, state)]
  BY DEF Shape, BufShape, Release
<1>2. \A x \in Buffer \ {b} : buf'[x] = buf[x]
  BY <1>1
<1>3. buf'[b].state = state /\ buf'[b].owner = buf[b].owner
  BY <1>1 DEF Released, Slot
<1>4. \A x \in Buffer \ {b} : Kept(x)
  BY <1>2 DEF Kept, Aged
<1>5. Lapsed(b) \/ Given(b)
  BY <1>3 DEF Lapsed, Given
<1>6. QED BY <1>4, <1>5 DEF Fate

\* A new date for one buffer.
LEMMA DatedAges ==
  ASSUME Shape, NEW b \in Buffer, NEW t, Dated(b, t)
  PROVE  Aged(b, t) /\ \A x \in Buffer \ {b} : Kept(x)
<1>1. buf \in [Buffer -> Slot] /\ buf' = [buf EXCEPT ![b].lastWrite = t]
  BY DEF Shape, BufShape, Dated
<1>2. \A x \in Buffer \ {b} : buf'[x] = buf[x]
  BY <1>1
<1>3. Aged(b, t)
  BY <1>1 DEF Aged, Slot
<1>4. QED BY <1>2, <1>3 DEF Kept, Aged

\* A new date by the clock.
LEMMA DatedFate ==
  ASSUME Shape, NEW b \in Buffer, Valid(b), Dated(b, tick')
  PROVE  \A x \in Buffer : Fate(x)
<1>1. Aged(b, tick') /\ \A x \in Buffer \ {b} : Kept(x)
  BY DatedAges
<1>2. Renewed(b)
  BY <1>1 DEF Renewed, Aged, Valid, Active
<1>3. QED BY <1>1, <1>2 DEF Fate

LEMMA RetagFate ==
  ASSUME Shape, NEW b \in Buffer, NEW class \in Class, Valid(b), Retag(b, class)
  PROVE  \A x \in Buffer : Fate(x)
<1>1. CASE Dated(b, tick')
  BY <1>1, DatedFate
<1>2. CASE buf' = [buf EXCEPT ![b] = Retagged(@, class, tick')]
  <2>1. buf \in [Buffer -> Slot]
    BY DEF Shape, BufShape
  <2>2. \A x \in Buffer \ {b} : buf'[x] = buf[x]
    BY <1>2, <2>1
  <2>3. Renewed(b)
    BY <1>2, <2>1 DEF Renewed, Retagged, Slot, Valid, Active
  <2>4. QED BY <2>2, <2>3 DEF Fate, Kept, Aged
<1>3. QED BY <1>1, <1>2 DEF Retag

\* Deletion.
LEMMA DeletedFate ==
  ASSUME Shape, NEW b \in Buffer, Deleted(b)
  PROVE  \A x \in Buffer : Fate(x)
<1>1. buf \in [Buffer -> Slot] /\ buf' = [buf EXCEPT ![b] = FreeSlot]
  BY DEF Shape, BufShape, Deleted
<1>2. \A x \in Buffer \ {b} : buf'[x] = buf[x]
  BY <1>1
<1>3. Given(b)
  BY <1>1 DEF Given, FreeSlot
<1>4. QED BY <1>2, <1>3 DEF Fate, Kept, Aged

\* The calls on one buffer.
LEMMA HandlerFate ==
  ASSUME Shape, Handler
  PROVE  \A x \in Buffer : Fate(x)
<1>0. buf \in [Buffer -> Slot] /\ tick \in Nat
  BY DEF Shape, BufShape, JobShape
<1>1. ASSUME NEW r \in Region, NEW b \in Buffer, NEW n \in Sizes, Alloc(r, b, n)
      PROVE  \A x \in Buffer : Fate(x)
  <2>1. CASE UNCHANGED heapVars
    BY <2>1, SameFate
  <2>2. CASE buf' = [buf EXCEPT ![b] =
                [state |-> "ACTIVE", owner |-> r, size |-> n, class |-> policy[r].class, map |-> {},
                 exposed |-> FALSE, lastWrite |-> tick, traceLive |-> TRUE]]
    <3>1. \A x \in Buffer \ {b} : buf'[x] = buf[x]
      BY <1>0, <2>2
    <3>2. Born(b)
      BY <1>0, <1>1, <2>2 DEF Born, Alloc, Active
    <3>3. QED BY <3>1, <3>2 DEF Fate, Kept, Aged
  <2>3. QED BY <1>1, <2>1, <2>2 DEF Alloc
<1>2. ASSUME NEW b \in Buffer, BufferFree(b) \/ FreePointer(b)
      PROVE  \A x \in Buffer : Fate(x)
  BY <1>2, DeletedFate, SameFate DEF BufferFree, FreePointer
<1>3. ASSUME NEW b \in Buffer, ExpireOnUse(b)
      PROVE  \A x \in Buffer : Fate(x)
  BY <1>3, ReleaseFate DEF ExpireOnUse, Missed
<1>4. ASSUME NEW b \in Buffer, Unmap(b)
      PROVE  \A x \in Buffer : Fate(x)
  <2>1. buf' = [buf EXCEPT ![b] = Unmapped(@)] /\ Active(b) /\ tick' = tick
    BY <1>4 DEF Unmap
  <2>2. \A x \in Buffer \ {b} : buf'[x] = buf[x]
    BY <1>0, <2>1
  <2>3. CASE "W" \in buf[b].map
    <3>1. DatedByUnmap(b)
      BY <1>0, <2>1, <2>3 DEF DatedByUnmap, Aged, Unmapped, Slot
    <3>2. QED BY <2>2, <3>1 DEF Fate, Kept, Aged
  <2>4. CASE "W" \notin buf[b].map
    <3>1. Kept(b)
      BY <1>0, <2>1, <2>4 DEF Kept, Aged, Unmapped, Slot
    <3>2. QED BY <2>2, <3>1 DEF Fate, Kept, Aged
  <2>5. QED BY <2>3, <2>4
<1>5. ASSUME NEW b \in Buffer, MarkWritten(b) \/ Refresh(b)
      PROVE  \A x \in Buffer : Fate(x)
  BY <1>5, DatedFate DEF MarkWritten, Refresh
<1>6. ASSUME NEW b \in Buffer, Invalidate(b)
      PROVE  \A x \in Buffer : Fate(x)
  <2>1. CASE UNCHANGED heapVars
    BY <2>1, SameFate
  <2>2. CASE buf' = [buf EXCEPT ![b] = [Released(@, "INVALID") EXCEPT !.traceLive = FALSE]]
    <3>1. \A x \in Buffer \ {b} : buf'[x] = buf[x]
      BY <1>0, <2>2
    <3>2. Given(b)
      BY <1>0, <2>2 DEF Given, Released, Slot
    <3>3. QED BY <3>1, <3>2 DEF Fate, Kept, Aged
  <2>3. QED BY <1>6, <2>1, <2>2 DEF Invalidate
<1>7. ASSUME NEW b \in Buffer, NEW flags \in MapModes, Map(b, flags)
      PROVE  \A x \in Buffer : Fate(x)
  <2>1. buf' = [buf EXCEPT ![b] = [@ EXCEPT !.map = flags, !.exposed = TRUE]]
    BY <1>7 DEF Map
  <2>2. \A x \in Buffer \ {b} : buf'[x] = buf[x]
    BY <1>0, <2>1
  <2>3. Kept(b)
    BY <1>0, <2>1 DEF Kept, Aged, Slot
  <2>4. QED BY <2>2, <2>3 DEF Fate, Kept, Aged
<1>8. ASSUME NEW b \in Buffer, NEW c \in Class, Reclassify(b, c)
      PROVE  \A x \in Buffer : Fate(x)
  BY <1>8, RetagFate, SameFate DEF Reclassify, Hinted
<1>9. \/ UNCHANGED heapVars \/ UNCHANGED buf
      \/ \E r \in Region, b \in Buffer, n \in Sizes : Alloc(r, b, n)
      \/ \E b \in Buffer : BufferFree(b) \/ FreePointer(b) \/ ExpireOnUse(b) \/ Unmap(b)
                           \/ MarkWritten(b) \/ Refresh(b) \/ Invalidate(b)
      \/ \E b \in Buffer, flags \in MapModes : Map(b, flags)
      \/ \E b \in Buffer, c \in Class : Reclassify(b, c)
  BY DEF Handler, Advance, RegionCreate, TraceAccess, RegionRefresh, RegionEnd, RegionDestroy,
     RegionReclassify, AttachTrace, Poll, DetachTrace, RuntimeDestroy
<1>10. QED BY <1>1, <1>2, <1>3, <1>4, <1>5, <1>6, <1>7, <1>8, <1>9, SameFate

\* The iterations of poll.
LEMMA PollStepFate ==
  ASSUME Shape, PollStep
  PROVE  \A x \in Buffer : Fate(x)
<1>1. Current \in Buffer /\ job.op = "poll"
  BY JobsTyped DEF PollStep, Working
<1>2. policy[buf[Current].owner].target \in Class \/ ~Active(Current)
  BY <1>1 DEF Shape, BufShape, OwnerShape, Policy, Active
<1>3. CASE PollSkip(Current)
  BY <1>3, SameFate DEF PollSkip
<1>4. CASE PollExpire(Current)
  BY <1>1, <1>4, ReleaseFate DEF PollExpire
<1>5. CASE PollInvalidate(Current)
  BY <1>1, <1>5, ReleaseFate DEF PollInvalidate, Due
<1>6. ASSUME Due(Current), Dated(Current, job.now), tick' = tick
      PROVE  \A x \in Buffer : Fate(x)
  <2>1. Aged(Current, job.now) /\ \A x \in Buffer \ {Current} : Kept(x)
    BY <1>1, <1>6, DatedAges
  <2>2. Repolled(Current)
    BY <1>6, <2>1 DEF Repolled, PollStep
  <2>3. QED BY <2>1, <2>2 DEF Fate
<1>7. CASE PollRefresh(Current)
  BY <1>6, <1>7 DEF PollRefresh
<1>8. CASE PollPromote(Current)
  <2> DEFINE c == policy[buf[Current].owner].target
  <2>1. Due(Current) /\ c \in Class
    BY <1>2, <1>8 DEF PollPromote, Due
  <2>2. CASE Missed(Current) /\ Release(Current, "EXPIRED") /\ UNCHANGED tick
    BY <1>1, <2>2, ReleaseFate DEF Missed
  <2>3. CASE Valid(Current) /\ Retag(Current, c)
    BY <1>1, <2>1, <2>3, RetagFate
  <2>4. CASE Dated(Current, job.now) /\ UNCHANGED tick
    BY <1>6, <2>1, <2>4
  <2>5. CASE UNCHANGED <<tick, heapVars>>
    BY <2>5, SameFate
  <2>6. QED BY <1>8, <2>2, <2>3, <2>4, <2>5 DEF PollPromote
<1>9. QED BY <1>3, <1>4, <1>5, <1>7, <1>8 DEF PollStep

\* A region is deleted with its buffers.
LEMMA DeleteRegionFate ==
  ASSUME Shape, NEW r, DeleteRegion(r)
  PROVE  \A x \in Buffer : Fate(x)
BY DEF Shape, BufShape, DeleteRegion, FreeSlot, Fate, Kept, Aged, Given

\* The iterations and ends of all loops.
LEMMA JobFate ==
  ASSUME Shape, JobStep
  PROVE  \A x \in Buffer : Fate(x)
<1>0. buf \in [Buffer -> Slot] /\ job \in Job
  BY DEF Shape, BufShape, JobShape
<1>1. CASE CheckFails
  <2>1. Current \in Buffer
    BY <1>1, JobsTyped DEF CheckFails
  <2>2. QED BY <1>1, <2>1, SameFate, ReleaseFate DEF CheckFails, Missed
<1>2. CASE RefreshAll
  <2>1. buf' = [b \in Buffer |-> IF b \in ToSet(buffers[job.region])
                                 THEN [buf[b] EXCEPT !.lastWrite = tick] ELSE buf[b]]
        /\ Finished({"refresh"}) /\ tick' = tick
    BY <1>2 DEF RefreshAll
  <2>2. ASSUME NEW x \in Buffer, x \in ToSet(buffers[job.region])
        PROVE  RefreshedAll(x)
    <3>1. buf'[x] = [buf[x] EXCEPT !.lastWrite = tick] /\ buf[x] \in Slot
      BY <1>0, <2>1, <2>2
    <3>2. Aged(x, tick)
      BY <3>1 DEF Aged, Slot
    <3>3. QED BY <2>1, <2>2, <3>2 DEF RefreshedAll
  <2>3. \A x \in Buffer : x \notin ToSet(buffers[job.region]) => Kept(x)
    BY <1>0, <2>1 DEF Kept, Aged
  <2>4. QED BY <2>2, <2>3 DEF Fate
<1>3. CASE ApplyMoves
  <2>1. Current \in Buffer /\ job.class \in Class
    BY <1>0, <1>3, JobsTyped DEF ApplyMoves, Job
  <2>2. QED BY <1>3, <2>1, RetagFate DEF ApplyMoves
<1>4. CASE ApplyFails
  <2>1. Current \in Buffer
    BY <1>4, JobsTyped DEF ApplyFails
  <2>2. QED BY <1>4, <2>1, SameFate, ReleaseFate DEF ApplyFails, Missed
<1>5. CASE EndBuffer
  <2>1. Current \in Buffer /\ \A x \in Buffer \ {Current} : buf'[x] = buf[x]
    BY <1>5, EndBufferGood
  <2>2. Given(Current) \/ Kept(Current)
    <3>1. buf[Current] \in Slot
      BY <1>0, <2>1
    <3>2. IF Active(Current) THEN Ended(buf[Current]).state = "INVALID"
          ELSE Ended(buf[Current]) = buf[Current]
      BY <3>1 DEF Ended, Released, Slot, Active
    <3>3. Ended(buf[Current]) \in Slot
      BY <3>1 DEF Ended, Released, Slot
    <3>4. /\ [Ended(buf[Current]) EXCEPT !.traceLive = FALSE].state = Ended(buf[Current]).state
          /\ [Ended(buf[Current]) EXCEPT !.traceLive = FALSE].owner = Ended(buf[Current]).owner
          /\ [Ended(buf[Current]) EXCEPT !.traceLive = FALSE].class = Ended(buf[Current]).class
          /\ [Ended(buf[Current]) EXCEPT !.traceLive = FALSE].lastWrite = Ended(buf[Current]).lastWrite
      BY <3>3 DEF Slot
    <3>5. /\ buf'[Current].state = Ended(buf[Current]).state
          /\ buf'[Current].owner = Ended(buf[Current]).owner
          /\ buf'[Current].class = Ended(buf[Current]).class
          /\ buf'[Current].lastWrite = Ended(buf[Current]).lastWrite
      BY <1>0, <1>5, <2>1, <3>4 DEF EndBuffer
    <3>6. QED BY <3>2, <3>5 DEF Given, Kept, Aged
  <2>3. QED BY <2>1, <2>2 DEF Fate, Kept, Aged
<1>6. CASE DestroyRegion \/ ShutdownRegion
  BY <1>6, DeleteRegionFate, SameFate DEF DestroyRegion, ShutdownRegion
<1>7. CASE \/ NextRegion \/ PollEnd \/ CheckPasses \/ ReclassifyChecked \/ ApplyEnd \/ EndRegion
           \/ ShutdownEnd \/ AnnounceBuffer \/ AttachEnd \/ DetachEnd
  BY <1>7, SameFate DEF NextRegion, PollEnd, CheckPasses, ReclassifyChecked, ApplyEnd, EndRegion,
     ShutdownEnd, AnnounceBuffer, AttachEnd, DetachEnd
<1>8. QED BY <1>1, <1>2, <1>3, <1>4, <1>5, <1>6, <1>7, PollStepFate DEF JobStep

\* Every step.
LEMMA Fates ==
  ASSUME Shape, [Next]_vars
  PROVE  \A x \in Buffer : Fate(x)
<1>1. CASE Environment \/ UNCHANGED vars
  BY <1>1, SameFate DEF Environment, ClockTicks, WriterBreaks, vars, heapVars
<1>2. QED BY <1>1, HandlerFate, JobFate DEF Next

\* The clock does not go back, and a manual one stands still during a loop.
LEMMA ClockMoves ==
  ASSUME Shape, [Next]_vars
  PROVE  /\ tick \in Nat /\ tick' \in Nat /\ tick <= tick'
         /\ ClockMode = "MANUAL" /\ job.op # "idle" => tick' = tick
<1>1. tick \in Nat /\ \A t \in Later : t \in Nat /\ tick <= t /\ (ClockMode = "MANUAL" => t = tick)
  BY LaterIsNatural, OptionsAssumption DEF Shape, JobShape, Later
<1>2. ASSUME NEW b, NEW c, Retag(b, c)
      PROVE  tick' \in Later
  BY <1>2 DEF Retag
<1>3. CASE Handler
  <2>1. job.op = "idle"
    <3>1. job = Idle
      BY <1>3 DEF Handler, Advance, RegionCreate, Alloc, BufferFree, FreePointer, ExpireOnUse,
         Unmap, MarkWritten, Refresh, Invalidate, TraceAccess, Map, Reclassify, RegionRefresh,
         RegionEnd, RegionDestroy, RegionReclassify, AttachTrace, Poll, DetachTrace, RuntimeDestroy
    <3>2. QED BY <3>1 DEF Idle
  <2>2. tick' = tick \/ tick' \in Later \/ \E d \in Strides : tick' = tick + d
    BY <1>2, <1>3 DEF Handler, Advance, RegionCreate, Alloc, BufferFree, FreePointer, ExpireOnUse,
       Unmap, MarkWritten, Refresh, Invalidate, TraceAccess, Map, Reclassify, Hinted, RegionRefresh,
       RegionEnd, RegionDestroy, RegionReclassify, AttachTrace, Poll, DetachTrace, RuntimeDestroy
  <2>3. QED BY <1>1, <2>1, <2>2, InputsAssumption
<1>4. CASE JobStep
  <2>1. tick' = tick \/ tick' \in Later
    BY <1>2, <1>4 DEF JobStep, NextRegion, PollStep, PollSkip, PollExpire, PollInvalidate,
       PollRefresh, PollPromote, PollEnd, CheckPasses, CheckFails, RefreshAll, ReclassifyChecked,
       ApplyMoves, ApplyFails, ApplyEnd, EndBuffer, EndRegion, DestroyRegion, ShutdownRegion,
       ShutdownEnd, AnnounceBuffer, AttachEnd, DetachEnd
  <2>2. QED BY <1>1, <2>1
<1>5. CASE Environment \/ UNCHANGED vars
  BY <1>1, <1>5, OptionsAssumption DEF Environment, ClockTicks, WriterBreaks, vars
<1>6. QED BY <1>3, <1>4, <1>5 DEF Next

-----------------------------------------------------------------------------
(* What a loop knows about the ages of the buffers it has still to visit, or *)
(* has checked.                                                              *)

Dates == \A b \in Buffer : Active(b) => buf[b].lastWrite <= tick

Ahead(b) == b \in ToSet(job.todo) \/ buf[b].owner \in ToSet(job.rest)

\* Poll visits a buffer once, and none it has still to visit was dated after its reading.
Polling ==
  job.op = "poll" =>
    /\ job.now <= tick /\ (ClockMode = "MANUAL" => job.now = tick)
    /\ IsInjective(job.rest) /\ IsInjective(job.todo)
    /\ \A b \in ToSet(job.todo) : buf[b].owner \notin ToSet(job.rest)
    /\ \A b \in Buffer : Active(b) /\ Ahead(b) => buf[b].lastWrite <= job.now

\* By the manual clock, a buffer that region refresh has checked stays valid.
CheckedValid ==
  ClockMode = "MANUAL" /\ job.op = "refresh" =>
    \A b \in ToSet(buffers[job.region]) : b \in ToSet(job.todo) \/ Valid(b)

AgeInv == Dates /\ Polling /\ CheckedValid

\* Going on from the head of a sequence.
LEMMA HeadOff ==
  ASSUME NEW S, NEW s \in Seq(S), s # <<>>
  PROVE  /\ Tail(s) \in Seq(S) /\ Head(s) \in S /\ ToSet(s) = {Head(s)} \cup ToSet(Tail(s))
         /\ IsInjective(s) => IsInjective(Tail(s)) /\ Head(s) \notin ToSet(Tail(s))
<1>1. /\ Len(s) \in Nat \ {0} /\ DOMAIN s = 1..Len(s) /\ Head(s) = s[1]
      /\ Tail(s) \in Seq(S) /\ Len(Tail(s)) = Len(s) - 1 /\ Head(s) \in S
      /\ DOMAIN Tail(s) = 1..(Len(s) - 1)
      /\ \A i \in 1..(Len(s) - 1) : Tail(s)[i] = s[i + 1]
  BY HeadTailProperties, LenProperties, EmptySeq
<1>2. ASSUME NEW i \in 1..Len(s), i # 1
      PROVE  s[i] \in ToSet(Tail(s))
  <2>1. i - 1 \in 1..(Len(s) - 1) /\ (i - 1) + 1 = i
    BY <1>1, <1>2
  <2>2. Tail(s)[i - 1] = s[i]
    BY <1>1, <2>1
  <2>3. QED BY <1>1, <2>1, <2>2 DEF ToSet
<1>3. ToSet(Tail(s)) \subseteq {s[i] : i \in 2..Len(s)}
  <2>1. ASSUME NEW i \in 1..(Len(s) - 1)
        PROVE  i + 1 \in 2..Len(s) /\ Tail(s)[i] = s[i + 1]
    BY <1>1
  <2>2. QED BY <1>1, <2>1 DEF ToSet
<1>4. ToSet(s) = {Head(s)} \cup ToSet(Tail(s))
  <2>1. \A i \in 2..Len(s) : i \in 1..Len(s)
    BY <1>1
  <2>2. 1 \in 1..Len(s)
    BY <1>1
  <2>3. QED BY <1>1, <1>2, <1>3, <2>1, <2>2 DEF ToSet
<1>5. ASSUME IsInjective(s)
      PROVE  IsInjective(Tail(s)) /\ Head(s) \notin ToSet(Tail(s))
  <2>1. \A i, j \in 1..Len(s) : s[i] = s[j] => i = j
    BY <1>1, <1>5 DEF IsInjective
  <2>2. ASSUME NEW i \in 1..(Len(s) - 1), NEW j \in 1..(Len(s) - 1), Tail(s)[i] = Tail(s)[j]
        PROVE  i = j
    <3>1. i + 1 \in 1..Len(s) /\ j + 1 \in 1..Len(s) /\ s[i + 1] = s[j + 1]
      BY <1>1, <2>2
    <3>2. i + 1 = j + 1
      BY <2>1, <3>1
    <3>3. QED BY <3>2
  <2>3. s[1] \notin {s[i] : i \in 2..Len(s)}
    <3>1. \A i \in 2..Len(s) : i \in 1..Len(s) /\ i # 1
      BY <1>1
    <3>2. 1 \in 1..Len(s)
      BY <1>1
    <3>3. QED BY <2>1, <3>1, <3>2
  <2>4. QED BY <1>1, <1>3, <2>2, <2>3 DEF IsInjective
<1>6. QED BY <1>1, <1>4, <1>5

\* No buffer is dated after the clock.
LEMMA DatesStep ==
  ASSUME Shape, AgeInv, [Next]_vars
  PROVE  Dates'
<1> SUFFICES ASSUME NEW b \in Buffer, Active(b)'
             PROVE  buf'[b].lastWrite <= tick'
  BY DEF Dates
<1>1. tick \in Nat /\ tick' \in Nat /\ tick <= tick' /\ buf[b].lastWrite \in Nat /\ job.now \in Nat
  BY ClockMoves DEF Shape, BufShape, Slot, JobShape, Job
<1>2. buf'[b].state = "ACTIVE"
  BY DEF Active
<1>3. CASE Kept(b)
  BY <1>1, <1>2, <1>3 DEF Kept, Aged, AgeInv, Dates, Active
<1>4. CASE Repolled(b)
  BY <1>1, <1>4 DEF Repolled, Aged, Working, AgeInv, Polling
<1>5. CASE Renewed(b) \/ DatedByUnmap(b) \/ RefreshedAll(b) \/ Born(b)
  BY <1>1, <1>5 DEF Renewed, DatedByUnmap, RefreshedAll, Born, Aged
<1>6. CASE Given(b) \/ Lapsed(b)
  BY <1>2, <1>6 DEF Given, Lapsed
<1>7. QED BY <1>3, <1>4, <1>5, <1>6, Fates DEF Fate

\* How a poll goes on.
LEMMA PollGoesOn ==
  ASSUME Shape, [Next]_vars, job'.op = "poll"
  PROVE  \/ Poll
         \/ job.op = "poll" /\ (NextRegion \/ PollStep)
         \/ job.op = "poll" /\ UNCHANGED <<job, heapVars>>
<1>0. job \in Job
  BY DEF Shape, JobShape
<1>1. CASE Handler
  <2>1. job = Idle
    BY <1>1 DEF Handler, Advance, RegionCreate, Alloc, BufferFree, FreePointer, ExpireOnUse,
       Unmap, MarkWritten, Refresh, Invalidate, TraceAccess, Map, Reclassify, RegionRefresh,
       RegionEnd, RegionDestroy, RegionReclassify, AttachTrace, Poll, DetachTrace, RuntimeDestroy
  <2>2. Poll \/ job' = job \/ job'.op \in {"refresh", "reclassify", "end", "destroy", "attach",
                                           "detach", "shutdown"}
    BY <1>1 DEF Handler, Advance, RegionCreate, Alloc, BufferFree, FreePointer, ExpireOnUse,
       Unmap, MarkWritten, Refresh, Invalidate, TraceAccess, Map, Reclassify, RegionRefresh,
       RegionEnd, RegionDestroy, RegionReclassify, AttachTrace, DetachTrace, RuntimeDestroy, Idle
  <2>3. QED BY <2>1, <2>2 DEF Idle
<1>2. CASE JobStep
  <2>1. CASE job' = Idle
    BY <2>1 DEF Idle
  <2>2. CASE NextRegion \/ PollStep
    BY <1>0, <2>2 DEF NextRegion, PollStep, Continue, Working, Job
  <2>3. CASE \/ PollEnd \/ CheckFails \/ RefreshAll \/ ApplyFails \/ ApplyEnd
             \/ EndRegion \/ DestroyRegion \/ AttachEnd \/ DetachEnd
    BY <2>1, <2>3 DEF PollEnd, CheckFails, RefreshAll, ApplyFails, ApplyEnd, EndRegion,
       DestroyRegion, AttachEnd, DetachEnd
  <2>4. CASE CheckPasses \/ ReclassifyChecked \/ ApplyMoves \/ EndBuffer \/ ShutdownRegion
             \/ ShutdownEnd \/ AnnounceBuffer
    <3>1. job' = Idle \/ job'.op = "dead" \/ job'.op = "apply" \/ (job'.op = job.op /\ job.op # "poll")
      BY <1>0, <2>4 DEF CheckPasses, ReclassifyChecked, ApplyMoves, EndBuffer, ShutdownRegion,
         ShutdownEnd, AnnounceBuffer, Continue, Working, Finished, Idle, Job
    <3>2. QED BY <2>1, <3>1
  <2>5. QED BY <1>2, <2>2, <2>3, <2>4 DEF JobStep
<1>3. CASE Environment \/ UNCHANGED vars
  BY <1>3 DEF Environment, ClockTicks, WriterBreaks, vars, heapVars
<1>4. QED BY <1>1, <1>2, <1>3 DEF Next

\* An iteration of poll changes the buffer it visits only, and not its owner.
LEMMA OthersStay ==
  ASSUME Shape, PollStep
  PROVE  /\ \A b \in Buffer \ {Current} : buf'[b] = buf[b]
         /\ buf'[Current].owner = buf[Current].owner
<1>0. buf \in [Buffer -> Slot] /\ Current \in Buffer
  BY JobsTyped DEF Shape, BufShape, PollStep
<1>1. \/ buf' = buf
      \/ \E s \in {"INVALID", "EXPIRED"} : buf' = [buf EXCEPT ![Current] = Released(@, s)]
      \/ \E t : buf' = [buf EXCEPT ![Current].lastWrite = t]
      \/ \E c, t : buf' = [buf EXCEPT ![Current] = Retagged(@, c, t)]
  BY DEF PollStep, PollSkip, PollExpire, PollInvalidate, PollRefresh, PollPromote,
     Release, Dated, Retag, heapVars
<1>2. buf[Current] \in Slot
  BY <1>0
<1> DEFINE Placed == \E z : z.owner = buf[Current].owner /\ buf' = [buf EXCEPT ![Current] = z]
<1>3. Placed
  <2>1. CASE buf' = buf
    BY <1>0, <2>1
  <2>2. ASSUME NEW s, buf' = [buf EXCEPT ![Current] = Released(@, s)] PROVE Placed
    BY <1>2, <2>2 DEF Released, Slot
  <2>3. ASSUME NEW t, buf' = [buf EXCEPT ![Current].lastWrite = t] PROVE Placed
    <3>1. [buf[Current] EXCEPT !.lastWrite = t].owner = buf[Current].owner
      BY <1>2 DEF Slot
    <3>2. QED BY <2>3, <3>1
  <2>4. ASSUME NEW c, NEW t, buf' = [buf EXCEPT ![Current] = Retagged(@, c, t)] PROVE Placed
    BY <1>2, <2>4 DEF Retagged, Slot
  <2>5. QED BY <1>1, <2>1, <2>2, <2>3, <2>4
<1>4. QED BY <1>0, <1>3

LEMMA PollingStep ==
  ASSUME Shape, VectorsMatchOwners, AgeInv, [Next]_vars
  PROVE  Polling'
<1> SUFFICES ASSUME job'.op = "poll" PROVE Polling'
  BY DEF Polling
<1>0. /\ job \in Job /\ regions \in Seq(Region) /\ buffers \in [Region -> Seq(Buffer)]
      /\ buf \in [Buffer -> Slot] /\ tick \in Nat /\ tick' \in Nat /\ tick <= tick'
      /\ job.now \in Nat /\ job.todo \in Seq(Buffer) /\ job.rest \in Seq(Region)
      /\ job.op # "idle" /\ ClockMode = "MANUAL" => tick' = tick
  BY ClockMoves DEF Shape, OwnerShape, BufShape, JobShape, Job
<1>1. ToSet(<<>>) = {} /\ IsInjective(<<>>)
  BY DEF ToSet, IsInjective
<1>2. CASE Poll
  <2>1. /\ job'.now = tick /\ job'.rest = regions /\ job'.todo = <<>>
        /\ tick' = tick /\ buf' = buf
    BY <1>2 DEF Poll, Idle, heapVars
  <2>2. IsInjective(regions)
    BY DEF VectorsMatchOwners
  <2>3. QED BY <1>0, <1>1, <2>1, <2>2 DEF Polling, AgeInv, Dates, Active, Ahead
<1>3. CASE job.op = "poll" /\ UNCHANGED <<job, heapVars>>
  <2>1. buf' = buf /\ job' = job
    BY <1>3 DEF heapVars
  <2>2. job.now <= tick' /\ (ClockMode = "MANUAL" => job.now = tick')
    BY <1>0, <1>3 DEF AgeInv, Polling
  <2>3. QED BY <1>3, <2>1, <2>2 DEF Polling, AgeInv, Active, Ahead
<1>4. CASE job.op = "poll" /\ NextRegion
  <2> DEFINE r == Head(job.rest)
  <2>1. /\ job'.now = job.now /\ job'.rest = Tail(job.rest) /\ tick' = tick /\ buf' = buf
        /\ job'.todo = <<>> \/ job'.todo = buffers[r]
    BY <1>0, <1>4 DEF NextRegion, heapVars, Job
  <2>2. /\ r \in Region /\ ToSet(job.rest) = {r} \cup ToSet(Tail(job.rest))
        /\ IsInjective(Tail(job.rest)) /\ r \notin ToSet(Tail(job.rest))
    BY <1>0, <1>4, HeadOff DEF NextRegion, AgeInv, Polling
  <2>3. /\ IsInjective(buffers[r])
        /\ \A b \in ToSet(buffers[r]) : b \in Buffer /\ buf[b].owner = r
    BY <2>2 DEF VectorsMatchOwners
  <2>4. IsInjective(job'.todo) /\ \A b \in ToSet(job'.todo) : b \in Buffer /\ buf[b].owner = r
    BY <1>1, <2>1, <2>3
  <2>5. \A b \in Buffer : Ahead(b)' => Ahead(b)
    BY <2>1, <2>2, <2>4 DEF Ahead
  <2>6. \A b \in Buffer : Active(b)' <=> Active(b)
    BY <2>1 DEF Active
  <2>7. QED BY <1>4, <2>1, <2>2, <2>4, <2>5, <2>6 DEF Polling, AgeInv
<1>5. CASE job.op = "poll" /\ PollStep
  <2>1. /\ job'.now = job.now /\ job'.rest = job.rest /\ job'.todo = Tail(job.todo)
        /\ job.todo # <<>>
    BY <1>0, <1>5 DEF PollStep, Continue, Working, Job
  <2>2. /\ Current \in Buffer /\ ToSet(job.todo) = {Current} \cup ToSet(Tail(job.todo))
        /\ IsInjective(Tail(job.todo)) /\ Current \notin ToSet(Tail(job.todo))
    BY <1>0, <1>5, <2>1, HeadOff DEF AgeInv, Polling, Current
  <2>3. /\ job.now <= tick' /\ (ClockMode = "MANUAL" => job.now = tick')
    BY <1>0, <1>5 DEF AgeInv, Polling
  <2>4. (\A b \in Buffer \ {Current} : buf'[b] = buf[b]) /\ buf'[Current].owner = buf[Current].owner
    BY <1>5, OthersStay
  <2>5. \A b \in ToSet(job.todo) : b \in Buffer
    BY <1>0 DEF ToSet
  <2>6. \A b \in Buffer : Ahead(b)' => Ahead(b) /\ b # Current
    <3>1. ASSUME NEW b \in Buffer, Ahead(b)'
          PROVE  Ahead(b) /\ b # Current
      <4>1. buf'[b].owner = buf[b].owner
        BY <2>4
      <4>2. b \in ToSet(Tail(job.todo)) \/ buf[b].owner \in ToSet(job.rest)
        BY <2>1, <3>1, <4>1 DEF Ahead
      <4>3. buf[Current].owner \notin ToSet(job.rest)
        BY <1>5, <2>2 DEF AgeInv, Polling
      <4>4. QED BY <2>2, <4>2, <4>3 DEF Ahead
    <3>2. QED BY <3>1
  <2>7. \A b \in Buffer : Active(b)' /\ Ahead(b)' => buf'[b].lastWrite <= job'.now
    BY <1>5, <2>1, <2>4, <2>6 DEF AgeInv, Polling, Active
  <2>8. \A b \in ToSet(job'.todo) : buf'[b].owner \notin ToSet(job'.rest)
    BY <1>5, <2>1, <2>2, <2>4, <2>5 DEF AgeInv, Polling
  <2>9. IsInjective(job'.rest) /\ IsInjective(job'.todo)
    BY <1>5, <2>1, <2>2 DEF AgeInv, Polling
  <2>10. QED BY <2>1, <2>3, <2>7, <2>8, <2>9 DEF Polling
<1>6. QED BY <1>2, <1>3, <1>4, <1>5, PollGoesOn

\* How the checks of region refresh go on.
LEMMA RefreshGoesOn ==
  ASSUME Shape, [Next]_vars, job'.op = "refresh"
  PROVE  \/ \E r \in Region : RegionRefresh(r)
         \/ job.op = "refresh" /\ CheckPasses
         \/ job.op = "refresh" /\ UNCHANGED <<job, heapVars>>
<1>0. job \in Job
  BY DEF Shape, JobShape
<1>1. CASE Handler
  <2>1. job = Idle
    BY <1>1 DEF Handler, Advance, RegionCreate, Alloc, BufferFree, FreePointer, ExpireOnUse,
       Unmap, MarkWritten, Refresh, Invalidate, TraceAccess, Map, Reclassify, RegionRefresh,
       RegionEnd, RegionDestroy, RegionReclassify, AttachTrace, Poll, DetachTrace, RuntimeDestroy
  <2>2. \/ \E r \in Region : RegionRefresh(r)
        \/ job' = job
        \/ job'.op \in {"poll", "reclassify", "end", "destroy", "attach", "detach", "shutdown"}
    BY <1>1 DEF Handler, Advance, RegionCreate, Alloc, BufferFree, FreePointer, ExpireOnUse,
       Unmap, MarkWritten, Refresh, Invalidate, TraceAccess, Map, Reclassify, Poll,
       RegionEnd, RegionDestroy, RegionReclassify, AttachTrace, DetachTrace, RuntimeDestroy, Idle
  <2>3. QED BY <2>1, <2>2 DEF Idle
<1>2. CASE JobStep
  <2>1. CASE job' = Idle
    BY <2>1 DEF Idle
  <2>2. CASE CheckPasses
    BY <1>0, <2>2 DEF CheckPasses, Job
  <2>3. CASE \/ PollEnd \/ CheckFails \/ RefreshAll \/ ApplyFails \/ ApplyEnd
             \/ EndRegion \/ DestroyRegion \/ AttachEnd \/ DetachEnd
    BY <2>1, <2>3 DEF PollEnd, CheckFails, RefreshAll, ApplyFails, ApplyEnd, EndRegion,
       DestroyRegion, AttachEnd, DetachEnd
  <2>4. CASE \/ NextRegion \/ PollStep \/ ReclassifyChecked \/ ApplyMoves \/ EndBuffer
             \/ ShutdownRegion \/ ShutdownEnd \/ AnnounceBuffer
    <3>1. job' = Idle \/ job'.op = "dead" \/ job'.op = "apply" \/ (job'.op = job.op /\ job.op # "refresh")
      BY <1>0, <2>4 DEF NextRegion, PollStep, ReclassifyChecked, ApplyMoves, EndBuffer,
         ShutdownRegion, ShutdownEnd, AnnounceBuffer, Continue, Working, Finished, Idle, Job
    <3>2. QED BY <2>1, <3>1
  <2>5. QED BY <1>2, <2>2, <2>3, <2>4 DEF JobStep
<1>3. CASE Environment \/ UNCHANGED vars
  BY <1>3 DEF Environment, ClockTicks, WriterBreaks, vars, heapVars
<1>4. QED BY <1>1, <1>2, <1>3 DEF Next

LEMMA CheckedStep ==
  ASSUME Shape, AgeInv, [Next]_vars
  PROVE  CheckedValid'
<1> SUFFICES ASSUME ClockMode = "MANUAL", job'.op = "refresh" PROVE CheckedValid'
  BY DEF CheckedValid
<1>0. job \in Job /\ job.todo \in Seq(Buffer)
  BY DEF Shape, JobShape, Job
<1>1. ASSUME NEW r \in Region, RegionRefresh(r) PROVE CheckedValid'
  BY <1>1 DEF RegionRefresh, Idle, heapVars, ownerVars, CheckedValid
<1>2. CASE job.op = "refresh" /\ CheckPasses
  <2>1. /\ job'.todo = Tail(job.todo) /\ job'.region = job.region /\ job.todo # <<>>
        /\ Valid(Current) /\ tick' = tick /\ UNCHANGED <<buf, buffers, open>>
    BY <1>0, <1>2 DEF CheckPasses, Working, Job, heapVars, ownerVars
  <2>2. ToSet(job.todo) = {Current} \cup ToSet(Tail(job.todo))
    BY <1>0, <2>1, HeadOff DEF Current
  <2>3. \A b : Valid(b)' <=> Valid(b)
    BY <2>1 DEF Valid, Active, Overdue, Deadline
  <2>4. QED BY <1>2, <2>1, <2>2, <2>3 DEF AgeInv, CheckedValid
<1>3. CASE job.op = "refresh" /\ UNCHANGED <<job, heapVars>>
  <2>1. tick' = tick /\ UNCHANGED <<job, buf, buffers, open>>
    BY <1>3, ClockMoves DEF heapVars, ownerVars
  <2>2. \A b : Valid(b)' <=> Valid(b)
    BY <2>1 DEF Valid, Active, Overdue, Deadline
  <2>3. QED BY <1>3, <2>1, <2>2 DEF AgeInv, CheckedValid
<1>4. QED BY <1>1, <1>2, <1>3, RefreshGoesOn

LEMMA AgesAlways == Spec => [](Shape /\ VectorsMatchOwners /\ AgeInv)
<1>1. IInv => Shape /\ VectorsMatchOwners
  BY DEF IInv, Owners
<1>2. Init => AgeInv
  BY DEF Init, AgeInv, Dates, Polling, CheckedValid, Active, FreeSlot, Idle
<1>3. IInv /\ AgeInv /\ [Next]_vars => AgeInv'
  BY <1>1, DatesStep, PollingStep, CheckedStep DEF AgeInv
<1>4. QED BY <1>1, <1>2, <1>3, Invariance, PTL DEF Spec

-----------------------------------------------------------------------------
\* The age of a buffer is never set back nor dated after the clock, by either clock,
\* although loops date with readings of different moments (rtmem.cpp:286, 758).
THEOREM AgesCorrect == Spec => AgesMonotone
<1>1. ASSUME Shape, AgeInv, [Next]_vars, NEW b \in Buffer, Active(b), buf'[b].state = "ACTIVE"
      PROVE  buf[b].lastWrite <= buf'[b].lastWrite /\ buf'[b].lastWrite <= tick'
  <2>1. /\ tick \in Nat /\ tick' \in Nat /\ tick <= tick' /\ buf[b].lastWrite \in Nat
        /\ job.now \in Nat /\ buf[b].lastWrite <= tick /\ job.todo \in Seq(Buffer)
    BY <1>1, ClockMoves DEF Shape, BufShape, Slot, JobShape, Job, AgeInv, Dates
  <2>2. CASE Repolled(b)
    <3>1. b \in ToSet(job.todo)
      BY <2>1, <2>2, HeadOff DEF Repolled, Working, Current
    <3>2. buf[b].lastWrite <= job.now /\ job.now <= tick
      BY <1>1, <2>2, <3>1 DEF Repolled, Working, AgeInv, Polling, Ahead
    <3>3. QED BY <2>1, <2>2, <3>2 DEF Repolled, Aged
  <2>3. CASE Kept(b) \/ Renewed(b) \/ DatedByUnmap(b) \/ RefreshedAll(b) \/ Born(b)
    BY <1>1, <2>1, <2>3 DEF Kept, Renewed, DatedByUnmap, RefreshedAll, Born, Aged
  <2>4. CASE Given(b) \/ Lapsed(b)
    BY <1>1, <2>4 DEF Given, Lapsed
  <2>5. QED BY <1>1, <2>2, <2>3, <2>4, Fates DEF Fate
<1>2. Shape /\ VectorsMatchOwners /\ AgeInv /\ [Next]_vars =>
        [\A b \in Buffer : Active(b) /\ buf'[b].state = "ACTIVE"
           => buf[b].lastWrite <= buf'[b].lastWrite /\ buf'[b].lastWrite <= tick']_vars
  BY <1>1
<1>3. QED BY <1>2, AgesAlways, PTL DEF Spec, AgesMonotone

\* No buffer expires before its retention has gone by, whatever the retention, the word of
\* the clock and the call or loop that finds it (rtmem.cpp:113-122, 193-194, 298-304).
THEOREM ExpiryCorrect == Spec => ExpiresOnlyOverdue
<1>1. ASSUME Shape, AgeInv, [Next]_vars, NEW b \in Buffer, Active(b), buf'[b].state = "EXPIRED"
      PROVE  tick' - buf[b].lastWrite >= Retention[buf[b].class]
  <2>1. /\ tick \in Nat /\ buf[b].lastWrite \in Nat /\ buf[b].class \in Class /\ job.now \in Nat
        /\ Retention[buf[b].class] \in Nat /\ kInfinite \in Nat
    BY <1>1, OptionsAssumption DEF Shape, BufShape, Slot, JobShape, Job
  <2>2. Lapsed(b)
    BY <1>1, Fates DEF Fate, Kept, Given, Renewed, Repolled, DatedByUnmap, RefreshedAll, Born,
       Aged, Active
  <2>3. job.op = "poll" => job.now <= tick
    BY <1>1 DEF AgeInv, Polling
  <2>4. PICK now \in Nat : now <= tick /\ Overdue(b, now) /\ tick' = tick
    BY <2>1, <2>2, <2>3 DEF Lapsed
  <2>5. Deadline(b) = buf[b].lastWrite + Retention[buf[b].class] /\ now >= Deadline(b)
    BY <2>4 DEF Overdue, Deadline
  <2>6. QED BY <2>1, <2>4, <2>5
<1>2. Shape /\ VectorsMatchOwners /\ AgeInv /\ [Next]_vars =>
        [\A b \in Buffer : Active(b) /\ buf'[b].state = "EXPIRED"
           => tick' - buf[b].lastWrite >= Retention[buf[b].class]]_vars
  BY <1>1
<1>3. QED BY <1>2, AgesAlways, PTL DEF Spec, ExpiresOnlyOverdue

\* By the manual clock, closing a write mapping is the only way in which an overdue buffer
\* gets a new age (rtmem.cpp:1241-1244).
THEOREM RepairCorrect ==
  ASSUME ClockMode = "MANUAL"
  PROVE  Spec => RepairedOnlyByUnmap
<1>1. ASSUME Shape, AgeInv, [Next]_vars, NEW b \in Buffer, Active(b), Overdue(b, tick),
             buf'[b].state = "ACTIVE"
      PROVE  Deadline(b)' = Deadline(b) \/ ("W" \in buf[b].map /\ buf'[b].map = {})
  <2>1. CASE Kept(b)
    BY <2>1 DEF Kept, Aged, Deadline
  <2>2. CASE Renewed(b)
    BY <1>1, <2>2 DEF Renewed, Valid
  <2>3. CASE Repolled(b)
    BY <1>1, <2>3 DEF Repolled, Working, Due, AgeInv, Polling
  <2>4. CASE DatedByUnmap(b)
    BY <2>4 DEF DatedByUnmap
  <2>5. CASE RefreshedAll(b)
    <3>1. ToSet(job.todo) = {} /\ job.op = "refresh"
      BY <2>5 DEF RefreshedAll, Finished, ToSet
    <3>2. Valid(b)
      BY <1>1, <2>5, <3>1 DEF RefreshedAll, AgeInv, CheckedValid
    <3>3. QED BY <1>1, <3>2 DEF Valid
  <2>6. CASE Given(b) \/ Lapsed(b) \/ Born(b)
    BY <1>1, <2>6 DEF Given, Lapsed, Born
  <2>7. QED BY <1>1, <2>1, <2>2, <2>3, <2>4, <2>5, <2>6, Fates DEF Fate
<1>2. Shape /\ VectorsMatchOwners /\ AgeInv /\ [Next]_vars =>
        [\A b \in Buffer : Active(b) /\ Overdue(b, tick) /\ buf'[b].state = "ACTIVE"
           => \/ Deadline(b)' = Deadline(b)
              \/ "W" \in buf[b].map /\ buf'[b].map = {}]_vars
  BY <1>1
<1>3. QED BY <1>2, AgesAlways, PTL DEF Spec, RepairedOnlyByUnmap

-----------------------------------------------------------------------------
(* By the manual clock and with a backend that does not fail, what           *)
(* reclassify has checked for a whole region is enough to move all of it.    *)

Todo == ToSet(job.todo)
InRegion == ToSet(buffers[job.region])
ToMove(S) == {b \in S : buf[b].class # job.class}
SizeOf(S) == Cardinality(BytesOf(buf, S))

\* The sum is that of the buffers checked so far that are to move.
Summed ==
  job.op = "reclassify" =>
    /\ IsInjective(job.todo) /\ Todo \subseteq InRegion
    /\ \A b \in InRegion \ Todo : Valid(b)
    /\ job.bytes = SizeOf(ToMove(InRegion \ Todo))

\* What is still to move fits, all of it together.
Fitting ==
  job.op = "apply" =>
    /\ IsInjective(job.todo) /\ Todo \subseteq InRegion
    /\ \A b \in Todo : Valid(b)
    /\ \A b \in InRegion \ Todo : Active(b) /\ buf[b].class = job.class
    /\ \/ Capacity[job.class] = 0
       \/ activeBytes[job.class] + SizeOf(ToMove(Todo)) <= Capacity[job.class]

MoveInv == Summed /\ Fitting

\* How the checks, and then the moves, go on.
LEMMA ReclassifyGoesOn ==
  ASSUME Shape, [Next]_vars, job'.op \in {"reclassify", "apply"}
  PROVE  \/ \E r \in Region, c \in Class : RegionReclassify(r, c)
         \/ job.op = "reclassify" /\ job'.op = "reclassify" /\ CheckPasses
         \/ job.op = "reclassify" /\ job'.op = "apply" /\ ReclassifyChecked
         \/ job.op = "apply" /\ job'.op = "apply" /\ ApplyMoves
         \/ UNCHANGED <<job, heapVars>>
<1>0. job \in Job
  BY DEF Shape, JobShape
<1>1. CASE Handler
  <2>1. job = Idle
    BY <1>1 DEF Handler, Advance, RegionCreate, Alloc, BufferFree, FreePointer, ExpireOnUse,
       Unmap, MarkWritten, Refresh, Invalidate, TraceAccess, Map, Reclassify, RegionRefresh,
       RegionEnd, RegionDestroy, RegionReclassify, AttachTrace, Poll, DetachTrace, RuntimeDestroy
  <2>2. \/ \E r \in Region, c \in Class : RegionReclassify(r, c)
        \/ job' = job
        \/ job'.op \in {"poll", "refresh", "end", "destroy", "attach", "detach", "shutdown"}
    BY <1>1 DEF Handler, Advance, RegionCreate, Alloc, BufferFree, FreePointer, ExpireOnUse,
       Unmap, MarkWritten, Refresh, Invalidate, TraceAccess, Map, Reclassify, Poll, RegionRefresh,
       RegionEnd, RegionDestroy, AttachTrace, DetachTrace, RuntimeDestroy, Idle
  <2>3. QED BY <2>1, <2>2 DEF Idle
<1>2. CASE JobStep
  <2>1. CASE job' = Idle
    BY <2>1 DEF Idle
  <2>2. CASE CheckPasses
    <3>1. job.op \in {"refresh", "reclassify"} /\ job'.op = job.op
      BY <1>0, <2>2 DEF CheckPasses, Working, Job
    <3>2. QED BY <2>2, <3>1
  <2>3. CASE ReclassifyChecked
    <3>1. job.op = "reclassify" /\ (job' = Idle \/ job'.op = "apply")
      BY <1>0, <2>3 DEF ReclassifyChecked, Finished, Job
    <3>2. QED BY <2>1, <2>3, <3>1
  <2>4. CASE ApplyMoves
    <3>1. job.op = "apply" /\ job'.op = job.op
      BY <1>0, <2>4 DEF ApplyMoves, Working, Continue, Job
    <3>2. QED BY <2>4, <3>1
  <2>5. CASE \/ PollEnd \/ CheckFails \/ RefreshAll \/ ApplyFails \/ ApplyEnd
             \/ EndRegion \/ DestroyRegion \/ AttachEnd \/ DetachEnd
    BY <2>1, <2>5 DEF PollEnd, CheckFails, RefreshAll, ApplyFails, ApplyEnd, EndRegion,
       DestroyRegion, AttachEnd, DetachEnd
  <2>6. CASE NextRegion \/ PollStep \/ EndBuffer \/ ShutdownRegion \/ ShutdownEnd \/ AnnounceBuffer
    <3>1. \/ job' = Idle \/ job'.op = "dead"
          \/ job'.op \in {"poll", "end", "destroy", "shutdown", "attach", "detach"}
      BY <1>0, <2>6 DEF NextRegion, PollStep, EndBuffer, ShutdownRegion, ShutdownEnd,
         AnnounceBuffer, Continue, Working, Finished, Idle, Job
    <3>2. QED BY <2>1, <3>1
  <2>7. QED BY <1>2, <2>2, <2>3, <2>4, <2>5, <2>6 DEF JobStep
<1>3. CASE Environment \/ UNCHANGED vars
  BY <1>3 DEF Environment, ClockTicks, WriterBreaks, vars, heapVars
<1>4. QED BY <1>1, <1>2, <1>3 DEF Next

\* A sum of sizes with and without a buffer.
LEMMA SizeSplit ==
  ASSUME Shape, NEW S \in SUBSET Buffer, NEW b \in Buffer \ S
  PROVE  /\ SizeOf(S) \in Nat /\ buf[b].size \in Nat
         /\ SizeOf(ToMove(S)) \in Nat
         /\ SizeOf(ToMove(S \cup {b})) = IF buf[b].class # job.class
                                         THEN SizeOf(ToMove(S)) + buf[b].size
                                         ELSE SizeOf(ToMove(S))
<1>1. buf \in [Buffer -> Slot] /\ buf[b].size \in Nat
  BY DEF Shape, BufShape, Slot
<1>2. ToMove(S) \in SUBSET Buffer /\ b \notin ToMove(S)
  BY DEF ToMove
<1>3. ToMove(S \cup {b}) = IF buf[b].class # job.class THEN ToMove(S) \cup {b} ELSE ToMove(S)
  BY DEF ToMove
<1>4. SizeOf(S) \in Nat
  BY <1>1, BytesAdd DEF SizeOf
<1>5. /\ SizeOf(ToMove(S)) \in Nat
      /\ SizeOf(ToMove(S) \cup {b}) = SizeOf(ToMove(S)) + buf[b].size
  BY <1>1, <1>2, BytesAdd DEF SizeOf
<1>6. QED BY <1>1, <1>3, <1>4, <1>5

\* One move of reclassify.
LEMMA RetagDoes ==
  ASSUME Shape, NEW b \in Buffer, NEW class \in Class, Active(b), Retag(b, class)
  PROVE  /\ \A x \in Buffer \ {b} : buf'[x] = buf[x]
         /\ buf'[b].state = "ACTIVE" /\ buf'[b].class = class /\ buf'[b].size = buf[b].size
         /\ UNCHANGED ownerVars
         /\ activeBytes'[class] = IF class # buf[b].class THEN activeBytes[class] + buf[b].size
                                  ELSE activeBytes[class]
<1>1. buf \in [Buffer -> Slot] /\ activeBytes \in [Class -> Int]
  BY DEF Shape, BufShape, StatShape
<1>2. CASE class = buf[b].class /\ Dated(b, tick')
  <2>1. buf' = [buf EXCEPT ![b].lastWrite = tick'] /\ UNCHANGED <<ownerVars, statVars>>
    BY <1>2 DEF Dated
  <2>2. buf'[b] = [buf[b] EXCEPT !.lastWrite = tick'] /\ \A x \in Buffer \ {b} : buf'[x] = buf[x]
    BY <1>1, <2>1
  <2>3. QED BY <1>1, <1>2, <2>1, <2>2 DEF Slot, Active, statVars
<1>3. CASE /\ class # buf[b].class
           /\ buf' = [buf EXCEPT ![b] = Retagged(@, class, tick')]
           /\ activeBytes' = [activeBytes EXCEPT ![buf[b].class] = @ - buf[b].size,
                                                 ![class] = @ + buf[b].size]
           /\ UNCHANGED ownerVars
  <2>1. /\ buf'[b] = Retagged(buf[b], class, tick')
        /\ \A x \in Buffer \ {b} : buf'[x] = buf[x]
    BY <1>1, <1>3
  <2>2. activeBytes'[class] = activeBytes[class] + buf[b].size
    BY <1>1, <1>3 DEF Slot
  <2>3. QED BY <1>1, <1>3, <2>1, <2>2 DEF Retagged, Slot, Active
<1>4. QED BY <1>2, <1>3 DEF Retag

\* Nothing is to move in an empty set.
LEMMA NoneToMove ==
  SizeOf(ToMove({})) = 0 /\ SizeOf(ToMove({}))' = 0
<1>1. Cardinality({}) = 0
  BY FS_EmptySet
<1>2. \A f : BytesOf(f, {}) = {}
  BY DEF BytesOf
<1>3. QED BY <1>1, <1>2 DEF SizeOf, ToMove

\* Moves stop at their end or at one that fails.
LEMMA ApplyStops ==
  ASSUME Shape, [Next]_vars, job.op = "apply", job'.op = "idle"
  PROVE  ApplyEnd \/ ApplyFails
<1>0. job \in Job /\ job # Idle
  BY DEF Shape, JobShape, Idle
<1>1. ~Handler
  BY <1>0 DEF Handler, Advance, RegionCreate, Alloc, BufferFree, FreePointer, ExpireOnUse,
     Unmap, MarkWritten, Refresh, Invalidate, TraceAccess, Map, Reclassify, RegionRefresh,
     RegionEnd, RegionDestroy, RegionReclassify, AttachTrace, Poll, DetachTrace, RuntimeDestroy
<1>2. ~Environment /\ ~UNCHANGED vars
  BY DEF Environment, ClockTicks, WriterBreaks, vars
<1>3. ~ApplyMoves
  BY <1>0 DEF ApplyMoves, Continue, Working, Job
<1>4. /\ ~NextRegion /\ ~PollStep /\ ~PollEnd /\ ~CheckPasses /\ ~CheckFails /\ ~RefreshAll
      /\ ~ReclassifyChecked /\ ~EndBuffer /\ ~EndRegion /\ ~DestroyRegion /\ ~ShutdownRegion
      /\ ~ShutdownEnd /\ ~AnnounceBuffer /\ ~AttachEnd /\ ~DetachEnd
  BY DEF NextRegion, PollStep, PollEnd, CheckPasses, CheckFails, RefreshAll, ReclassifyChecked,
     EndBuffer, EndRegion, DestroyRegion, ShutdownRegion, ShutdownEnd, AnnounceBuffer,
     AttachEnd, DetachEnd, Working, Finished
<1>5. QED BY <1>1, <1>2, <1>3, <1>4 DEF Next, JobStep

LEMMA SummedStep ==
  ASSUME Shape, VectorsMatchOwners, MoveInv, [Next]_vars, ClockMode = "MANUAL"
  PROVE  Summed'
<1> SUFFICES ASSUME job'.op = "reclassify" PROVE Summed'
  BY DEF Summed
<1>0. /\ job \in Job /\ job.todo \in Seq(Buffer) /\ buffers \in [Region -> Seq(Buffer)]
      /\ \A r \in Region : ToSet(buffers[r]) \subseteq Buffer
  BY DEF Shape, JobShape, OwnerShape, Job, VectorsMatchOwners
<1>1. ASSUME NEW r \in Region, NEW c \in Class, RegionReclassify(r, c) PROVE Summed'
  <2>1. job'.todo = buffers[r] /\ job'.region = r /\ job'.bytes = 0 /\ buffers' = buffers
    BY <1>1 DEF RegionReclassify, Idle, heapVars, ownerVars
  <2>2. IsInjective(job'.todo) /\ Todo' = InRegion' /\ InRegion' \ Todo' = {}
    BY <2>1 DEF Todo, InRegion, VectorsMatchOwners
  <2>3. SizeOf(ToMove(InRegion \ Todo))' = 0
    BY <2>2, NoneToMove DEF SizeOf, ToMove
  <2>4. QED BY <2>1, <2>2, <2>3 DEF Summed
<1>2. CASE job.op = "reclassify" /\ CheckPasses
  <2> DEFINE b == Head(job.todo)
             T == ToSet(Tail(job.todo))
             D == InRegion \ Todo
  <2>1. /\ job'.todo = Tail(job.todo) /\ job'.region = job.region /\ job'.class = job.class
        /\ job'.bytes = IF buf[b].class # job.class THEN job.bytes + buf[b].size ELSE job.bytes
        /\ job.todo # <<>> /\ Valid(b) /\ UNCHANGED <<tick, buf, buffers, open>>
    BY <1>0, <1>2 DEF CheckPasses, Working, Current, Job, heapVars, ownerVars
  <2>2. /\ b \in Buffer /\ Todo = {b} \cup T /\ IsInjective(Tail(job.todo)) /\ b \notin T
        /\ Todo \subseteq InRegion /\ InRegion \subseteq Buffer
    BY <1>0, <1>2, <2>1, HeadOff DEF Todo, InRegion, MoveInv, Summed, Shape, JobShape
  <2>3. InRegion' = InRegion /\ Todo' = T /\ InRegion \ T = D \cup {b} /\ b \notin D
    BY <2>1, <2>2 DEF InRegion, Todo
  <2>4. \A x : Valid(x)' <=> Valid(x)
    BY <2>1 DEF Valid, Active, Overdue, Deadline
  <2>5. \A x \in InRegion' \ Todo' : Valid(x)'
    BY <1>2, <2>1, <2>3, <2>4 DEF MoveInv, Summed
  <2>6. D \in SUBSET Buffer /\ b \in Buffer \ D
    BY <2>2, <2>3
  <2>7. SizeOf(ToMove(D \cup {b})) = IF buf[b].class # job.class
                                     THEN SizeOf(ToMove(D)) + buf[b].size ELSE SizeOf(ToMove(D))
    <3> HIDE DEF b, D
    <3>1. QED BY <2>6, SizeSplit
  <2>8. job.bytes = SizeOf(ToMove(D))
    BY <1>2 DEF MoveInv, Summed
  <2>9. SizeOf(ToMove(InRegion \ Todo))' = SizeOf(ToMove(D \cup {b}))
    BY <2>1, <2>3 DEF SizeOf, ToMove
  <2>10. job'.bytes = SizeOf(ToMove(InRegion \ Todo))'
    <3> HIDE DEF b, D
    <3>1. QED BY <2>1, <2>7, <2>8, <2>9
  <2>11. QED BY <2>1, <2>2, <2>3, <2>5, <2>10 DEF Summed
<1>3. CASE job.op = "reclassify" /\ UNCHANGED <<job, heapVars>>
  <2>1. UNCHANGED <<job, buf, buffers, open>> /\ tick' = tick
    BY <1>3, ClockMoves DEF heapVars, ownerVars
  <2>2. \A x : Valid(x)' <=> Valid(x)
    BY <2>1 DEF Valid, Active, Overdue, Deadline
  <2>3. QED BY <1>3, <2>1, <2>2 DEF MoveInv, Summed, Todo, InRegion, SizeOf, ToMove
<1>4. QED BY <1>1, <1>2, <1>3, ReclassifyGoesOn

LEMMA FittingStep ==
  ASSUME Shape, TypeOK, VectorsMatchOwners, MoveInv, [Next]_vars, ClockMode = "MANUAL"
  PROVE  Fitting'
<1> SUFFICES ASSUME job'.op = "apply" PROVE Fitting'
  BY DEF Fitting
<1>0. /\ job \in Job /\ job.todo \in Seq(Buffer) /\ buffers \in [Region -> Seq(Buffer)]
      /\ \A r \in Region : ToSet(buffers[r]) \subseteq Buffer
      /\ job.class \in Class /\ activeBytes[job.class] \in Nat /\ Capacity[job.class] \in Nat
      /\ job.bytes \in Nat
  BY OptionsAssumption DEF Shape, JobShape, OwnerShape, Job, VectorsMatchOwners, TypeOK
<1>1. tick' = tick \/ ~(job.op \in {"reclassify", "apply"})
  BY ClockMoves
<1>2. CASE job.op = "reclassify" /\ ReclassifyChecked
  <2>1. /\ Fits(job.class, job.bytes) /\ job.todo = <<>> /\ job'.todo = buffers[job.region]
        /\ job'.region = job.region /\ job'.class = job.class
        /\ UNCHANGED <<tick, buf, buffers, open, activeBytes>>
    BY <1>0, <1>2 DEF ReclassifyChecked, Finished, Idle, Job, heapVars, ownerVars, statVars
  <2>2. Todo = {} /\ Todo' = InRegion /\ InRegion' = InRegion /\ InRegion \ Todo = InRegion
    BY <2>1 DEF Todo, InRegion, ToSet
  <2>3. IsInjective(job'.todo)
    BY <1>2, <2>1 DEF VectorsMatchOwners, Shape, JobShape
  <2>4. \A x : Valid(x)' <=> Valid(x)
    BY <2>1 DEF Valid, Active, Overdue, Deadline
  <2>5. SizeOf(ToMove(Todo))' = job.bytes
    BY <1>2, <2>1, <2>2 DEF MoveInv, Summed, SizeOf, ToMove
  <2>6. \/ Capacity[job.class] = 0
        \/ activeBytes[job.class] + job.bytes <= Capacity[job.class]
    BY <1>0, <2>1 DEF Fits
  <2>7. QED BY <1>2, <2>1, <2>2, <2>3, <2>4, <2>5, <2>6 DEF Fitting, MoveInv, Summed
<1>3. CASE job.op = "apply" /\ ApplyMoves
  <2> DEFINE b == Head(job.todo)
             T == ToSet(Tail(job.todo))
  <2>1. /\ job'.todo = Tail(job.todo) /\ job'.region = job.region /\ job'.class = job.class
        /\ job.todo # <<>> /\ Valid(b) /\ Retag(b, job.class)
    BY <1>0, <1>3 DEF ApplyMoves, Continue, Working, Current, Job
  <2>2. /\ b \in Buffer /\ Todo = {b} \cup T /\ IsInjective(Tail(job.todo)) /\ b \notin T
        /\ Todo \subseteq InRegion /\ InRegion \subseteq Buffer
    BY <1>0, <1>3, <2>1, HeadOff DEF Todo, InRegion, MoveInv, Fitting, Shape, JobShape
  <2> HIDE DEF b
  <2>3. /\ \A x \in Buffer \ {b} : buf'[x] = buf[x]
        /\ buf'[b].state = "ACTIVE" /\ buf'[b].class = job.class /\ buf'[b].size = buf[b].size
        /\ UNCHANGED <<buffers, open, tick>>
        /\ activeBytes'[job.class] = IF job.class # buf[b].class
                                     THEN activeBytes[job.class] + buf[b].size
                                     ELSE activeBytes[job.class]
    BY <1>0, <1>1, <1>3, <2>1, <2>2, RetagDoes DEF Valid, ownerVars
  <2>4. InRegion' = InRegion /\ Todo' = T
    BY <2>1, <2>3 DEF InRegion, Todo
  <2>5. \A x \in T : Valid(x)'
    <3>1. ASSUME NEW x \in T PROVE Valid(x)'
      <4>1. Valid(x) /\ buf'[x] = buf[x]
        BY <1>3, <2>2, <2>3, <3>1 DEF MoveInv, Fitting
      <4>2. QED BY <2>3, <4>1 DEF Valid, Active, Overdue, Deadline
    <3>2. QED BY <3>1
  <2>6. \A x \in InRegion \ T : Active(x)' /\ buf'[x].class = job.class
    <3>1. ASSUME NEW x \in InRegion \ T PROVE Active(x)' /\ buf'[x].class = job.class
      <4>1. CASE x = b
        BY <2>3, <4>1 DEF Active
      <4>2. CASE x # b
        <5>1. x \in InRegion \ Todo /\ buf'[x] = buf[x]
          BY <2>2, <2>3, <4>2
        <5>2. QED BY <1>3, <5>1 DEF MoveInv, Fitting, Active
      <4>3. QED BY <4>1, <4>2
    <3>2. QED BY <3>1
  <2>7. T \in SUBSET Buffer /\ b \in Buffer \ T
    BY <2>2
  <2>8. SizeOf(ToMove(Todo))' = SizeOf(ToMove(T))
    <3>1. ToMove(Todo)' = ToMove(T) /\ \A x \in ToMove(T) : buf'[x].size = buf[x].size
      BY <2>1, <2>3, <2>4, <2>7 DEF ToMove
    <3>2. QED BY <3>1, BytesSame DEF SizeOf
  <2>9. /\ SizeOf(ToMove(T)) \in Nat /\ buf[b].size \in Nat
        /\ SizeOf(ToMove(Todo)) = IF buf[b].class # job.class
                                  THEN SizeOf(ToMove(T)) + buf[b].size ELSE SizeOf(ToMove(T))
    <3>1. Todo = T \cup {b}
      BY <2>2
    <3>2. QED BY <2>7, <3>1, SizeSplit
  <2>10. \/ Capacity[job.class] = 0
         \/ activeBytes'[job.class] + SizeOf(ToMove(T)) <= Capacity[job.class]
    <3>1. \/ Capacity[job.class] = 0
          \/ activeBytes[job.class] + SizeOf(ToMove(Todo)) <= Capacity[job.class]
      BY <1>3 DEF MoveInv, Fitting
    <3>2. QED BY <1>0, <2>3, <2>9, <3>1
  <2>11. QED BY <2>1, <2>2, <2>4, <2>5, <2>6, <2>8, <2>10 DEF Fitting
<1>4. CASE job.op = "apply" /\ UNCHANGED <<job, heapVars>>
  <2>1. UNCHANGED <<job, buf, buffers, open, activeBytes, tick>>
    BY <1>1, <1>4 DEF heapVars, ownerVars, statVars
  <2>2. \A x : (Valid(x)' <=> Valid(x)) /\ (Active(x)' <=> Active(x))
    BY <2>1 DEF Valid, Active, Overdue, Deadline
  <2>3. QED BY <1>4, <2>1, <2>2 DEF MoveInv, Fitting, Todo, InRegion, SizeOf, ToMove
<1>5. QED
  <2>1. ASSUME NEW r \in Region, NEW c \in Class, RegionReclassify(r, c)
        PROVE  job'.op = "reclassify"
    BY <2>1 DEF RegionReclassify, Idle
  <2>2. UNCHANGED <<job, heapVars>> => job.op = "apply"
    OBVIOUS
  <2>3. QED BY <1>2, <1>3, <1>4, <2>1, <2>2, ReclassifyGoesOn

LEMMA MoveAlways ==
  ASSUME ClockMode = "MANUAL"
  PROVE  Spec => [](IInv /\ MoveInv)
<1>1. Init => MoveInv
  BY DEF Init, MoveInv, Summed, Fitting, Idle
<1>2. IInv => Shape /\ TypeOK /\ VectorsMatchOwners
  BY CountersNatural DEF IInv, Owners
<1>3. IInv /\ MoveInv /\ [Next]_vars => MoveInv'
  BY <1>2, SummedStep, FittingStep DEF MoveInv
<1>4. QED BY <1>1, <1>3, Invariance, PTL DEF Spec

\* A move that was checked is made.
LEMMA NoMoveFails ==
  ASSUME IInv, MoveInv, ~BackendMayFail, trace = NoTrace, job.op = "apply"
  PROVE  ~ApplyFails
<1> SUFFICES ASSUME ApplyFails PROVE FALSE
  OBVIOUS
<1> DEFINE b == Head(job.todo)
           T == ToSet(Tail(job.todo))
<1>1. /\ Shape /\ TypeOK /\ job.todo \in Seq(Buffer) /\ job.todo # <<>> /\ job.class \in Class
      /\ activeBytes[job.class] \in Nat /\ Capacity[job.class] \in Nat
  BY CountersNatural, OptionsAssumption DEF IInv, Shape, JobShape, Job, TypeOK, ApplyFails, Working
<1>2. /\ b \in Buffer /\ Todo = {b} \cup T /\ b \notin T /\ T \subseteq Buffer
  <2>1. \A s \in Seq(Buffer) : ToSet(s) \subseteq Buffer
    BY DEF ToSet
  <2>2. QED BY <1>1, <2>1, HeadOff DEF Todo, MoveInv, Fitting
<1>3. Valid(b)
  BY <1>2 DEF MoveInv, Fitting
<1> HIDE DEF b
<1>4. NoRoom(b, job.class)
  BY <1>3 DEF ApplyFails, Current, b, Missed, Valid, Lost, MigrateFails
<1>5. /\ SizeOf(ToMove(T)) \in Nat /\ buf[b].size \in Nat
      /\ SizeOf(ToMove(Todo)) = SizeOf(ToMove(T)) + buf[b].size
  <2>1. Todo = T \cup {b} /\ T \in SUBSET Buffer /\ b \in Buffer \ T
    BY <1>2
  <2>2. QED BY <1>1, <1>4, <2>1, SizeSplit DEF NoRoom
<1>6. \/ Capacity[job.class] = 0
      \/ activeBytes[job.class] + SizeOf(ToMove(Todo)) <= Capacity[job.class]
  BY DEF MoveInv, Fitting
<1>7. QED BY <1>1, <1>4, <1>5, <1>6 DEF NoRoom, Fits

\* The region of a reclassify that got past its checks moves as a whole: by the manual
\* clock, without a trace and with a backend that does not fail, for any number of buffers
\* and any sizes and capacities (rtmem.cpp:973-1005).
THEOREM ReclassifyCorrect == Spec => ReclassifyAllOrNothing
<1>1. ASSUME IInv, MoveInv, [Next]_vars, ~BackendMayFail, trace = NoTrace,
             job.op = "apply", job'.op = "idle", NEW b \in ToSet(buffers[job.region])
      PROVE  Active(b) /\ buf[b].class = job.class
  <2>1. ApplyEnd \/ ApplyFails
    BY <1>1, ApplyStops DEF IInv
  <2>2. ApplyEnd
    BY <1>1, <2>1, NoMoveFails
  <2>3. Todo = {}
    BY <2>2 DEF ApplyEnd, Finished, Todo, ToSet
  <2>4. QED BY <1>1, <2>3 DEF MoveInv, Fitting, InRegion
<1>2. CASE ClockMode = "MANUAL"
  <2>1. IInv /\ MoveInv /\ [Next]_vars =>
          [/\ ClockMode = "MANUAL" /\ ~BackendMayFail /\ trace = NoTrace
           /\ job.op = "apply" /\ job'.op = "idle"
           => \A b \in ToSet(buffers[job.region]) : Active(b) /\ buf[b].class = job.class]_vars
    BY <1>1
  <2>2. QED BY <1>2, <2>1, MoveAlways, PTL DEF Spec, ReclassifyAllOrNothing
<1>3. CASE ClockMode # "MANUAL"
  <2>1. [Next]_vars =>
          [/\ ClockMode = "MANUAL" /\ ~BackendMayFail /\ trace = NoTrace
           /\ job.op = "apply" /\ job'.op = "idle"
           => \A b \in ToSet(buffers[job.region]) : Active(b) /\ buf[b].class = job.class]_vars
    BY <1>3
  <2>2. QED BY <2>1, PTL DEF Spec, ReclassifyAllOrNothing
<1>4. QED BY <1>2, <1>3

-----------------------------------------------------------------------------
(* All that a step may do to the mark that a buffer is in the trace file.    *)

Marked(b) == buf[b].traceLive

MarkKept(b) ==
  /\ buf'[b].traceLive = Marked(b) /\ buf'[b].owner = buf[b].owner
  /\ buf'[b].state = buf[b].state \/ (Active(b) /\ buf'[b].state \in {"INVALID", "EXPIRED"})

Unmarked(b) == ~buf'[b].traceLive /\ buf'[b].state # "ACTIVE"

MarkedNew(b) ==
  /\ buf[b].state = "FREE" /\ buf'[b].state = "ACTIVE" /\ buf'[b].traceLive
  /\ buf'[b].owner \in Region /\ open[buf'[b].owner]
  /\ job = Idle /\ UNCHANGED <<job, open, trace>>

MarkFate(b) == MarkKept(b) \/ Unmarked(b) \/ MarkedNew(b)

LEMMA SameMarks == UNCHANGED heapVars \/ UNCHANGED buf => \A b \in Buffer : MarkKept(b)
BY DEF heapVars, MarkKept, Marked

\* One slot is overwritten.
LEMMA SlotMarks ==
  ASSUME Shape, NEW b \in Buffer, NEW s, buf' = [buf EXCEPT ![b] = s]
  PROVE  buf'[b] = s /\ \A x \in Buffer \ {b} : MarkKept(x)
<1>1. buf \in [Buffer -> Slot]
  BY DEF Shape, BufShape
<1>2. buf'[b] = s /\ \A x \in Buffer \ {b} : buf'[x] = buf[x]
  BY <1>1
<1>3. QED BY <1>2 DEF MarkKept, Marked

LEMMA ReleaseMarks ==
  ASSUME Shape, NEW b \in Buffer, NEW state \in {"INVALID", "EXPIRED"}, Active(b), Release(b, state)
  PROVE  \A x \in Buffer : MarkKept(x)
<1>1. buf[b] \in Slot
  BY DEF Shape, BufShape
<1>2. buf'[b] = Released(buf[b], state) /\ \A x \in Buffer \ {b} : MarkKept(x)
  BY SlotMarks DEF Release
<1>3. MarkKept(b)
  BY <1>1, <1>2 DEF MarkKept, Marked, Released, Slot
<1>4. QED BY <1>2, <1>3

LEMMA DatedMarks ==
  ASSUME Shape, NEW b \in Buffer, NEW t, Dated(b, t)
  PROVE  \A x \in Buffer : MarkKept(x)
<1>1. buf[b] \in Slot
  BY DEF Shape, BufShape
<1>2. buf'[b] = [buf[b] EXCEPT !.lastWrite = t] /\ \A x \in Buffer \ {b} : MarkKept(x)
  BY SlotMarks DEF Dated
<1>3. MarkKept(b)
  BY <1>1, <1>2 DEF MarkKept, Marked, Slot
<1>4. QED BY <1>2, <1>3

LEMMA RetagMarks ==
  ASSUME Shape, NEW b \in Buffer, NEW class, Retag(b, class)
  PROVE  \A x \in Buffer : MarkKept(x)
<1>1. buf[b] \in Slot
  BY DEF Shape, BufShape
<1>2. CASE Dated(b, tick')
  BY <1>2, DatedMarks
<1>3. CASE buf' = [buf EXCEPT ![b] = Retagged(@, class, tick')]
  <2>1. buf'[b] = Retagged(buf[b], class, tick') /\ \A x \in Buffer \ {b} : MarkKept(x)
    BY <1>3, SlotMarks
  <2>2. MarkKept(b)
    BY <1>1, <2>1 DEF MarkKept, Marked, Retagged, Slot
  <2>3. QED BY <2>1, <2>2
<1>4. QED BY <1>2, <1>3 DEF Retag

LEMMA DeletedMarks ==
  ASSUME Shape, NEW b \in Buffer, Deleted(b)
  PROVE  Unmarked(b) /\ \A x \in Buffer \ {b} : MarkKept(x)
<1>1. buf'[b] = FreeSlot /\ \A x \in Buffer \ {b} : MarkKept(x)
  BY SlotMarks DEF Deleted
<1>2. QED BY <1>1 DEF Unmarked, FreeSlot

-----------------------------------------------------------------------------
(* What a step writes to the trace file, next to what it does to the marks.  *)

Healthy == trace # NoTrace /\ ~broken[trace]

\* The buffers that a healthy file holds: while a writer is being attached or
\* detached, those whose turn has come, or has not.
Filed == {b \in Buffer : /\ Marked(b)
                         /\ job.op = "attach" => ~Ahead(b)
                         /\ job.op = "detach" => Ahead(b)}

FileKept == UNCHANGED <<trace, writerVars>> /\ (Healthy => Filed' = Filed)

\* A stream enters its error state, and stays in it.
FileBroken ==
  /\ UNCHANGED <<live, replayable>> /\ broken' \in [Trace -> BOOLEAN]
  /\ \A t \in Trace : broken[t] => broken'[t]
  /\ \/ trace' = trace /\ (trace \in Trace /\ ~broken'[trace] => Filed' = Filed)
     \/ trace' = NoTrace /\ trace \in Trace /\ broken'[trace] /\ job.op = "attach"

Logged(kind, b) ==
  /\ trace # NoTrace /\ trace' = trace /\ Recorded(kind, b)
  /\ IF kind = "ALLOC" THEN b \notin Filed /\ Filed' = Filed \cup {b}
     ELSE b \in Filed /\ Filed' = IF kind = "FREE" THEN Filed \ {b} ELSE Filed

FileAttached ==
  /\ trace = NoTrace /\ trace' \in Trace /\ UNCHANGED writerVars
  /\ Filed' = {}

FileLetGo ==
  /\ trace' = NoTrace /\ UNCHANGED writerVars
  /\ Healthy => Filed = {}
  /\ Healthy \/ trace = NoTrace \/ ShutdownEnd

Writing ==
  \/ FileKept \/ FileBroken \/ FileAttached \/ FileLetGo
  \/ \E b \in Buffer : \E kind : Logged(kind, b)

Reported == (\A x \in Buffer : MarkFate(x)) /\ Writing

-----------------------------------------------------------------------------
(* The invariant of trace files.                                             *)

MarksFit ==
  \A b \in Buffer : (Marked(b) => buf[b].state # "FREE") /\ (Active(b) => Marked(b))

\* What is marked is in an open region, and a region that ends has it ahead.
MarksOpen ==
  \A b \in Buffer : Marked(b) =>
    /\ open[buf[b].owner]
    /\ job.op \in {"end", "destroy", "shutdown"} /\ buf[b].owner = job.region
         => b \in ToSet(job.todo)

\* A lost FREE leaves a mark behind, and a broken stream.
Clean == Healthy \/ trace = NoTrace \/ job.op = "attach"

Announcing ==
  job.op \in {"attach", "detach"} =>
    /\ IsInjective(job.rest) /\ IsInjective(job.todo)
    /\ \A b \in ToSet(job.todo) : buf[b].owner \notin ToSet(job.rest)

Files ==
  /\ \A t \in Trace : ~broken[t] /\ t # trace => live[t] = {}
  /\ Healthy => live[trace] = Filed

TraceInv == MarksFit /\ (Clean => MarksOpen) /\ Announcing /\ Files /\ TraceReplays

\* Whatever a step writes, files stay what they are to hold, and replay.
LEMMA FilesStep ==
  ASSUME WriterShape, Files, TraceReplays, Writing
  PROVE  Files' /\ TraceReplays'
<1> USE DEF WriterShape
<1>1. CASE FileKept
  BY <1>1 DEF FileKept, writerVars, Files, TraceReplays, Healthy
<1>2. CASE FileBroken
  BY <1>2, HandlesAssumption DEF FileBroken, Files, TraceReplays, Healthy
<1>3. CASE FileAttached
  BY <1>3, HandlesAssumption DEF FileAttached, writerVars, Files, TraceReplays, Healthy
<1>4. CASE FileLetGo
  BY <1>4, HandlesAssumption DEF FileLetGo, writerVars, Files, TraceReplays, Healthy
<1>5. ASSUME NEW b \in Buffer, NEW kind, Logged(kind, b)
      PROVE  Files' /\ TraceReplays'
  <2>1. /\ trace \in Trace /\ trace' = trace /\ ~broken[trace] /\ broken' = broken
        /\ Consumed(trace, kind, b) /\ live[trace] = Filed
    BY <1>5 DEF Logged, Recorded, Files, Healthy
  <2>2. /\ live' \in [Trace -> SUBSET Buffer]
        /\ \A t \in Trace \ {trace} : live'[t] = live[t] /\ replayable'[t] = replayable[t]
        /\ replayable'[trace] = (replayable[trace] /\ ((b \in live[trace]) <=> (kind # "ALLOC")))
        /\ live'[trace] = IF kind = "ALLOC" THEN live[trace] \cup {b}
                          ELSE IF kind = "FREE" THEN live[trace] \ {b} ELSE live[trace]
    BY <2>1 DEF Consumed
  <2>3. live'[trace] = Filed' /\ ((b \in live[trace]) <=> (kind # "ALLOC"))
    BY <1>5, <2>1, <2>2 DEF Logged
  <2>4. QED BY <2>1, <2>2, <2>3 DEF Files, TraceReplays, Healthy
<1>6. QED BY <1>1, <1>2, <1>3, <1>4, <1>5 DEF Writing

\* How the file changes by the marks, outside of attach and detach.
LEMMA PlainFiles ==
  ASSUME job.op \notin {"attach", "detach"}, job'.op \notin {"attach", "detach"}
  PROVE  /\ Filed = {b \in Buffer : Marked(b)}
         /\ (\A x \in Buffer : MarkKept(x)) => Filed' = Filed
         /\ \A b \in Buffer : (\A x \in Buffer \ {b} : MarkKept(x)) /\ Unmarked(b)
                                => Filed' = Filed \ {b}
         /\ \A b \in Buffer : (\A x \in Buffer \ {b} : MarkKept(x)) /\ MarkedNew(b)
                                => Filed' = Filed \cup {b}
BY DEF Filed, Marked, MarkKept, Unmarked, MarkedNew

\* Writing a line that the marks agree with.
LEMMA RecordedWrites ==
  ASSUME NEW b \in Buffer, NEW kind, Recorded(kind, b), trace' = trace,
         IF kind = "ALLOC" THEN b \notin Filed /\ Filed' = Filed \cup {b}
         ELSE b \in Filed /\ Filed' = IF kind = "FREE" THEN Filed \ {b} ELSE Filed
  PROVE  Writing
<1>1. CASE trace = NoTrace
  BY <1>1 DEF Recorded, Writing, FileKept, Healthy
<1>2. CASE trace # NoTrace
  BY <1>2 DEF Writing, Logged
<1>3. QED BY <1>1, <1>2

\* Losing a line breaks the writer.
LEMMA LostWrites ==
  ASSUME WriterShape, Lost, trace' = trace \/ (trace' = NoTrace /\ job.op = "attach")
  PROVE  Writing
<1>1. trace \in Trace /\ broken' = [broken EXCEPT ![trace] = TRUE] /\ UNCHANGED <<live, replayable>>
  BY DEF Lost, WriterShape
<1>2. broken' \in [Trace -> BOOLEAN] /\ broken'[trace] /\ \A t \in Trace : broken[t] => broken'[t]
  BY <1>1 DEF WriterShape
<1>3. QED BY <1>1, <1>2 DEF Writing, FileBroken

-----------------------------------------------------------------------------
(* What each step writes.                                                    *)

\* Steps that write nothing and keep the marks.
LEMMA QuietReport ==
  ASSUME \A x \in Buffer : MarkKept(x), UNCHANGED <<trace, writerVars>>,
         job.op \notin {"attach", "detach"}, job'.op \notin {"attach", "detach"}
  PROVE  Reported
<1>1. Filed' = Filed
  BY PlainFiles
<1>2. QED BY <1>1 DEF Reported, Writing, FileKept, MarkFate

\* A line that is lost, whatever happens to the marks.
LEMMA LostReport ==
  ASSUME Shape, \A x \in Buffer : MarkFate(x), Lost, trace' = trace
  PROVE  Reported
BY LostWrites DEF Shape, Reported

\* A line that changes no mark, about a marked buffer.
LEMMA NotedReport ==
  ASSUME \A x \in Buffer : MarkKept(x), NEW b \in Buffer, Marked(b),
         Recorded("HINT", b) \/ Recorded("ACCESS", b), trace' = trace,
         job.op \notin {"attach", "detach"}, job'.op \notin {"attach", "detach"}
  PROVE  Reported
<1>1. Filed' = Filed /\ b \in Filed
  BY PlainFiles
<1>2. Writing
  BY <1>1, RecordedWrites
<1>3. QED BY <1>2 DEF Reported, MarkFate

\* A buffer that is unmarked, with its line.
LEMMA FreedReport ==
  ASSUME NEW b \in Buffer, Unmarked(b), \A x \in Buffer \ {b} : MarkKept(x),
         FreeRecorded(b), trace' = trace,
         job.op \notin {"attach", "detach"}, job'.op \notin {"attach", "detach"}
  PROVE  Reported
<1>1. Filed' = Filed \ {b} /\ (b \in Filed <=> Marked(b))
  BY PlainFiles
<1>2. CASE Marked(b)
  <2>1. Recorded("FREE", b)
    BY <1>2 DEF FreeRecorded, Marked
  <2>2. Writing
    BY <1>1, <1>2, <2>1, RecordedWrites
  <2>3. QED BY <2>2 DEF Reported, MarkFate
<1>3. CASE ~Marked(b)
  <2>1. UNCHANGED writerVars
    BY <1>3 DEF FreeRecorded, Marked
  <2>2. Filed' = Filed
    BY <1>1, <1>3
  <2>3. QED BY <2>1, <2>2 DEF Reported, Writing, FileKept, MarkFate
<1>4. QED BY <1>2, <1>3

\* The calls on one buffer.
LEMMA CallReports ==
  ASSUME Shape, MarksFit, job = Idle, NEW b \in Buffer,
         \/ BufferFree(b) \/ FreePointer(b) \/ ExpireOnUse(b) \/ Unmap(b)
         \/ MarkWritten(b) \/ Refresh(b) \/ Invalidate(b) \/ TraceAccess(b)
         \/ \E flags \in MapModes : Map(b, flags)
         \/ \E c \in Class : Reclassify(b, c)
  PROVE  Reported
<1>0. /\ job.op \notin {"attach", "detach"} /\ buf \in [Buffer -> Slot] /\ buf[b] \in Slot
      /\ Active(b) => Marked(b)
  BY DEF Idle, Shape, BufShape, MarksFit
<1>1. CASE BufferFree(b) \/ FreePointer(b)
  <2>1. job' = job /\ trace' = trace
    BY <1>1 DEF BufferFree, FreePointer
  <2>2. CASE Lost /\ UNCHANGED heapVars
    BY <2>1, <2>2, LostReport, SameMarks DEF MarkFate
  <2>3. CASE Deleted(b)
    <3>1. Unmarked(b) /\ \A x \in Buffer \ {b} : MarkKept(x)
      BY <2>3, DeletedMarks
    <3>2. CASE FreeRecorded(b)
      BY <1>0, <2>1, <3>1, <3>2, FreedReport
    <3>3. CASE Lost
      BY <2>1, <3>1, <3>3, LostReport DEF MarkFate
    <3>4. QED BY <1>1, <3>2, <3>3 DEF BufferFree, FreePointer, FreeLost, heapVars
  <2>4. QED BY <1>1, <2>2, <2>3 DEF BufferFree, FreePointer, FreeLost
<1>2. CASE ExpireOnUse(b)
  <2>1. \A x \in Buffer : MarkKept(x)
    BY <1>2, ReleaseMarks DEF ExpireOnUse, Missed
  <2>2. QED BY <1>0, <1>2, <2>1, QuietReport DEF ExpireOnUse
<1>3. CASE Unmap(b)
  <2>1. buf' = [buf EXCEPT ![b] = Unmapped(@)]
    BY <1>3 DEF Unmap
  <2>2. buf'[b] = Unmapped(buf[b]) /\ \A x \in Buffer \ {b} : MarkKept(x)
    BY <2>1, SlotMarks
  <2>3. MarkKept(b)
    BY <1>0, <2>2 DEF MarkKept, Marked, Unmapped, Slot
  <2>4. QED BY <1>0, <1>3, <2>2, <2>3, QuietReport DEF Unmap
<1>4. CASE MarkWritten(b) \/ Refresh(b)
  <2>1. \A x \in Buffer : MarkKept(x)
    BY <1>4, DatedMarks DEF MarkWritten, Refresh
  <2>2. QED BY <1>0, <1>4, <2>1, QuietReport DEF MarkWritten, Refresh
<1>5. CASE Invalidate(b)
  <2>1. CASE Lost /\ UNCHANGED heapVars
    BY <1>5, <2>1, LostReport, SameMarks DEF MarkFate, Invalidate
  <2>2. CASE /\ FreeRecorded(b)
             /\ buf' = [buf EXCEPT ![b] = [Released(@, "INVALID") EXCEPT !.traceLive = FALSE]]
    <3>1. /\ buf'[b] = [Released(buf[b], "INVALID") EXCEPT !.traceLive = FALSE]
          /\ \A x \in Buffer \ {b} : MarkKept(x)
      BY <2>2, SlotMarks
    <3>2. Unmarked(b)
      BY <1>0, <3>1 DEF Unmarked, Released, Slot
    <3>3. QED BY <1>0, <1>5, <2>2, <3>1, <3>2, FreedReport DEF Invalidate
  <2>3. QED BY <1>5, <2>1, <2>2 DEF Invalidate, FreeLost
<1>6. CASE TraceAccess(b)
  <2>1. /\ \A x \in Buffer : MarkKept(x)
        /\ Marked(b) /\ trace' = trace /\ job' = job
    BY <1>0, <1>6, SameMarks DEF TraceAccess, Valid
  <2>2. QED BY <1>0, <1>6, <2>1, NotedReport, LostReport DEF TraceAccess, MarkFate
<1>7. ASSUME NEW flags \in MapModes, Map(b, flags) PROVE Reported
  <2>1. buf' = [buf EXCEPT ![b] = [@ EXCEPT !.map = flags, !.exposed = TRUE]]
    BY <1>7 DEF Map
  <2>2. /\ buf'[b] = [buf[b] EXCEPT !.map = flags, !.exposed = TRUE]
        /\ \A x \in Buffer \ {b} : MarkKept(x)
    BY <2>1, SlotMarks
  <2>3. MarkKept(b)
    BY <1>0, <2>2 DEF MarkKept, Marked, Slot
  <2>4. QED BY <1>0, <1>7, <2>2, <2>3, QuietReport DEF Map
<1>8. ASSUME NEW c \in Class, Reclassify(b, c) PROVE Reported
  <2>1. Marked(b) /\ trace' = trace /\ job' = job
    BY <1>0, <1>8 DEF Reclassify, Valid
  <2>2. \A x \in Buffer : MarkKept(x)
    BY <1>8, RetagMarks, SameMarks DEF Reclassify, Hinted
  <2>3. Lost \/ Recorded("HINT", b)
    BY <1>8 DEF Reclassify, Hinted
  <2>4. QED BY <1>0, <2>1, <2>2, <2>3, NotedReport, LostReport DEF MarkFate
<1>9. QED BY <1>1, <1>2, <1>3, <1>4, <1>5, <1>6, <1>7, <1>8

\* Allocation.
LEMMA AllocReports ==
  ASSUME Shape, MarksFit, NEW r \in Region, NEW b \in Buffer, NEW n \in Sizes, Alloc(r, b, n)
  PROVE  Reported
<1>0. job = Idle /\ job' = job /\ trace' = trace /\ job.op \notin {"attach", "detach"}
      /\ buf[b].state = "FREE" /\ ~Marked(b) /\ open[r]
  BY DEF Alloc, Idle, MarksFit
<1>1. CASE Lost /\ UNCHANGED heapVars
  BY <1>0, <1>1, LostReport, SameMarks DEF MarkFate
<1>2. CASE ~(Lost /\ UNCHANGED heapVars)
  <2> DEFINE s == [state |-> "ACTIVE", owner |-> r, size |-> n, class |-> policy[r].class, map |-> {},
                   exposed |-> FALSE, lastWrite |-> tick, traceLive |-> TRUE]
  <2>1. Recorded("ALLOC", b) /\ buf' = [buf EXCEPT ![b] = s] /\ open' = open
    BY <1>2 DEF Alloc
  <2>2. buf'[b] = s /\ \A x \in Buffer \ {b} : MarkKept(x)
    BY <2>1, SlotMarks
  <2>3. MarkedNew(b)
    BY <1>0, <2>1, <2>2 DEF MarkedNew
  <2>4. Filed' = Filed \cup {b} /\ b \notin Filed
    BY <1>0, <2>2, <2>3, PlainFiles
  <2>5. Writing
    BY <1>0, <2>1, <2>4, RecordedWrites
  <2>6. QED BY <2>2, <2>3, <2>5 DEF Reported, MarkFate
<1>3. QED BY <1>1, <1>2

\* Every buffer in use has its region ahead when a loop over all regions starts.
LEMMA AllAhead ==
  ASSUME Shape, VectorsMatchOwners, NEW b \in Buffer, buf[b].state # "FREE"
  PROVE  buf[b].owner \in ToSet(regions) /\ b \in ToSet(buffers[buf[b].owner])
<1>1. buf[b].owner \in Region /\ b \in ToSet(buffers[buf[b].owner])
  BY DEF Shape, BufShape, VectorsMatchOwners
<1>2. buffers[buf[b].owner] # <<>>
  BY <1>1 DEF ToSet
<1>3. QED BY <1>1, <1>2 DEF VectorsMatchOwners

\* The calls that start attaching or detaching.
LEMMA AttachReports ==
  ASSUME Shape, VectorsMatchOwners, MarksFit,
         DetachTrace \/ \E t \in Trace : AttachTrace(t)
  PROVE  Reported
<1>1. /\ job = Idle /\ UNCHANGED buf /\ UNCHANGED writerVars /\ job'.rest = regions
      /\ \A x \in Buffer : MarkKept(x)
  BY SameMarks DEF DetachTrace, AttachTrace, Idle, heapVars
<1>2. \A b \in Buffer : Marked(b) => Ahead(b)'
  BY <1>1, AllAhead DEF MarksFit, Ahead
<1>3. CASE DetachTrace
  <2>1. job'.op = "detach" /\ trace' = trace /\ job.op = "idle"
    BY <1>3 DEF DetachTrace, Idle
  <2>2. Filed' = Filed
    BY <1>1, <1>2, <2>1 DEF Filed, Marked
  <2>3. QED BY <1>1, <2>1, <2>2 DEF Reported, Writing, FileKept, MarkFate
<1>4. ASSUME NEW t \in Trace, AttachTrace(t) PROVE Reported
  <2>1. job'.op = "attach" /\ trace' = t /\ trace = NoTrace
    BY <1>4 DEF AttachTrace, Idle
  <2>2. Filed' = {}
    BY <1>1, <1>2, <2>1 DEF Filed, Marked
  <2>3. QED BY <1>1, <2>1, <2>2 DEF Reported, Writing, FileAttached, MarkFate
<1>5. QED BY <1>3, <1>4

LEMMA HandlerReports ==
  ASSUME Shape, VectorsMatchOwners, MarksFit, Handler
  PROVE  Reported
<1>1. job = Idle
  BY DEF Handler, Advance, RegionCreate, Alloc, BufferFree, FreePointer, ExpireOnUse,
     Unmap, MarkWritten, Refresh, Invalidate, TraceAccess, Map, Reclassify, RegionRefresh,
     RegionEnd, RegionDestroy, RegionReclassify, AttachTrace, Poll, DetachTrace, RuntimeDestroy
<1>2. Idle.op = "idle"
  BY DEF Idle
<1>3. CASE \/ \E d \in Strides : Advance(d)
           \/ \E r \in Region, p \in Policies : RegionCreate(r, p)
  <2>1. UNCHANGED buf /\ UNCHANGED <<trace, writerVars>> /\ job' = job
    BY <1>3 DEF Advance, RegionCreate, heapVars
  <2>2. QED BY <1>1, <1>2, <2>1, QuietReport, SameMarks
<1>4. CASE \/ \E r \in Region : RegionRefresh(r) \/ RegionEnd(r) \/ RegionDestroy(r)
           \/ \E r \in Region, c \in Class : RegionReclassify(r, c)
           \/ Poll \/ RuntimeDestroy
  <2>1. UNCHANGED buf /\ UNCHANGED <<trace, writerVars>>
    BY <1>4 DEF RegionRefresh, RegionReclassify, RegionEnd, RegionDestroy, Poll, RuntimeDestroy,
       heapVars
  <2>2. job'.op \in {"refresh", "reclassify", "end", "destroy", "poll", "shutdown"}
    BY <1>4 DEF RegionRefresh, RegionReclassify, RegionEnd, RegionDestroy, Poll, RuntimeDestroy,
       Idle
  <2>3. QED BY <1>1, <1>2, <2>1, <2>2, QuietReport, SameMarks
<1>5. QED BY <1>1, <1>3, <1>4, CallReports, AllocReports, AttachReports DEF Handler

\* The loops that write nothing, and reclassify.
LEMMA LoopReports ==
  ASSUME Shape, MarksFit,
         \/ PollStep \/ PollEnd \/ CheckPasses \/ CheckFails \/ RefreshAll \/ ReclassifyChecked
         \/ ApplyMoves \/ ApplyFails \/ ApplyEnd \/ EndRegion
  PROVE  Reported
<1>0. /\ job \in Job /\ buf \in [Buffer -> Slot] /\ Idle.op = "idle"
      /\ \A b \in Buffer : Active(b) => Marked(b)
  BY DEF Shape, JobShape, BufShape, MarksFit, Idle
<1>1. CASE PollEnd \/ CheckPasses \/ ReclassifyChecked \/ ApplyEnd \/ EndRegion
  <2>1. \A x \in Buffer : MarkKept(x)
    BY <1>1, SameMarks DEF PollEnd, CheckPasses, ReclassifyChecked, ApplyEnd, EndRegion
  <2>2. job.op \in {"poll", "refresh", "reclassify", "apply", "end"} /\ UNCHANGED <<trace, writerVars>>
    BY <1>1 DEF PollEnd, CheckPasses, ReclassifyChecked, ApplyEnd, EndRegion, Working, Finished
  <2>3. job'.op \in {"idle", "apply"} \/ job'.op = job.op
    BY <1>0, <1>1 DEF PollEnd, CheckPasses, ReclassifyChecked, ApplyEnd, EndRegion, Job
  <2>4. QED BY <2>1, <2>2, <2>3, QuietReport
<1>2. CASE PollStep
  <2>1. Current \in Buffer /\ job.op = "poll" /\ job'.op = "poll"
    BY <1>0, <1>2, JobsTyped DEF PollStep, Working, Continue, Job
  <2>2. \A x \in Buffer : MarkKept(x)
    BY <1>2, <2>1, ReleaseMarks, DatedMarks, RetagMarks, SameMarks
       DEF PollStep, PollSkip, PollExpire, PollInvalidate, PollRefresh, PollPromote, Due, Missed
  <2>3. QED BY <1>2, <2>1, <2>2, QuietReport DEF PollStep
<1>3. CASE CheckFails
  <2>1. Current \in Buffer /\ job.op \in {"refresh", "reclassify"} /\ job' = Idle
    BY <1>3, JobsTyped DEF CheckFails, Working
  <2>2. \A x \in Buffer : MarkKept(x)
    BY <1>3, <2>1, ReleaseMarks, SameMarks DEF CheckFails, Missed
  <2>3. QED BY <1>0, <1>3, <2>1, <2>2, QuietReport DEF CheckFails
<1>4. CASE RefreshAll
  <2>1. \A x \in Buffer : buf'[x] = buf[x] \/ buf'[x] = [buf[x] EXCEPT !.lastWrite = tick]
    BY <1>4 DEF RefreshAll
  <2>2. \A x \in Buffer : MarkKept(x)
    <3>1. ASSUME NEW x \in Buffer PROVE MarkKept(x)
      <4>1. buf[x] \in Slot
        BY <1>0
      <4>2. QED BY <2>1, <4>1 DEF MarkKept, Marked, Slot
    <3>2. QED BY <3>1
  <2>3. job.op = "refresh" /\ job' = Idle
    BY <1>4 DEF RefreshAll, Finished
  <2>4. QED BY <1>0, <1>4, <2>2, <2>3, QuietReport DEF RefreshAll
<1>5. CASE ApplyMoves
  <2>1. Current \in Buffer /\ job.op = "apply" /\ job'.op = "apply" /\ Marked(Current)
    BY <1>0, <1>5, JobsTyped DEF ApplyMoves, Working, Continue, Valid, Job
  <2>2. \A x \in Buffer : MarkKept(x)
    BY <1>5, <2>1, RetagMarks DEF ApplyMoves
  <2>3. QED BY <1>5, <2>1, <2>2, NotedReport DEF ApplyMoves
<1>6. CASE ApplyFails
  <2>1. Current \in Buffer /\ job.op = "apply" /\ job' = Idle /\ trace' = trace
    BY <1>6, JobsTyped DEF ApplyFails, Working
  <2>2. CASE Missed(Current) /\ Release(Current, "EXPIRED") /\ UNCHANGED writerVars
    <3>1. \A x \in Buffer : MarkKept(x)
      BY <2>1, <2>2, ReleaseMarks DEF Missed
    <3>2. QED BY <1>0, <2>1, <2>2, <3>1, QuietReport
  <2>3. CASE Valid(Current) /\ UNCHANGED heapVars /\ (Lost \/ Recorded("HINT", Current))
    <3>1. (\A x \in Buffer : MarkKept(x)) /\ Marked(Current)
      BY <1>0, <2>1, <2>3, SameMarks DEF Valid
    <3>2. QED BY <1>0, <2>1, <2>3, <3>1, NotedReport, LostReport DEF MarkFate
  <2>4. QED BY <1>6, <2>2, <2>3 DEF ApplyFails
<1>7. QED BY <1>1, <1>2, <1>3, <1>4, <1>5, <1>6

\* A region that ends, or is deleted.
LEMMA EndingReports ==
  ASSUME Shape, VectorsMatchOwners, MarksFit, Clean => MarksOpen,
         EndBuffer \/ DestroyRegion \/ ShutdownRegion \/ ShutdownEnd
  PROVE  Reported
<1>0. /\ job \in Job /\ buf \in [Buffer -> Slot] /\ Idle.op = "idle"
      /\ \A b \in Buffer : Active(b) => Marked(b)
  BY DEF Shape, JobShape, BufShape, MarksFit, Idle
<1>1. CASE EndBuffer
  <2>1. /\ Current \in Buffer /\ buf'[Current].state # "ACTIVE" /\ trace' = trace
        /\ job.op \in {"end", "destroy", "shutdown"} /\ job'.op = job.op
    BY <1>0, <1>1, EndBufferGood DEF EndBuffer, Working, Continue, Job
  <2>2. Ended(buf[Current]) \in Slot /\ Ended(buf[Current]).owner = buf[Current].owner
        /\ Ended(buf[Current]).traceLive = buf[Current].traceLive
        /\ Ended(buf[Current]).state = IF Active(Current) THEN "INVALID" ELSE buf[Current].state
    BY <1>0, <2>1 DEF Ended, Released, Slot, Active
  <2>3. CASE /\ FreeRecorded(Current)
             /\ buf' = [buf EXCEPT ![Current] = [Ended(@) EXCEPT !.traceLive = FALSE]]
    <3>1. /\ buf'[Current] = [Ended(buf[Current]) EXCEPT !.traceLive = FALSE]
          /\ \A x \in Buffer \ {Current} : MarkKept(x)
      BY <2>1, <2>3, SlotMarks
    <3>2. Unmarked(Current)
      BY <2>1, <2>2, <3>1 DEF Unmarked, Slot
    <3>3. QED BY <2>1, <2>3, <3>1, <3>2, FreedReport
  <2>4. CASE Lost /\ buf' = [buf EXCEPT ![Current] = Ended(@)]
    <3>1. buf'[Current] = Ended(buf[Current]) /\ \A x \in Buffer \ {Current} : MarkKept(x)
      BY <2>1, <2>4, SlotMarks
    <3>2. MarkKept(Current)
      BY <2>2, <3>1 DEF MarkKept, Marked
    <3>3. QED BY <2>1, <2>4, <3>1, <3>2, LostReport DEF MarkFate
  <2>5. QED BY <1>1, <2>3, <2>4 DEF EndBuffer, FreeLost
<1>2. ASSUME job.region \in Region, DeleteRegion(job.region), UNCHANGED <<trace, writerVars>>,
             Finished({"destroy", "shutdown"}), job'.op \notin {"attach", "detach"}
      PROVE  Reported
  <2> DEFINE V == ToSet(buffers[job.region])
  <2>1. buf' = [b \in Buffer |-> IF b \in V THEN FreeSlot ELSE buf[b]]
    BY <1>2 DEF DeleteRegion
  <2>2. \A b \in Buffer : IF b \in V THEN Unmarked(b) /\ buf[b].owner = job.region ELSE MarkKept(b)
    BY <1>2, <2>1 DEF Unmarked, MarkKept, Marked, FreeSlot, VectorsMatchOwners
  <2>3. ASSUME Healthy PROVE \A b \in V : b \in Buffer => ~Marked(b)
    <3>1. ToSet(job.todo) = {} /\ job.op \in {"end", "destroy", "shutdown"} /\ MarksOpen
      BY <1>2, <2>3 DEF Finished, ToSet, Clean
    <3>2. QED BY <2>2, <3>1 DEF MarksOpen
  <2>4. Healthy => Filed' = Filed
    <3>1. job.op \notin {"attach", "detach"}
      BY <1>2 DEF Finished
    <3>2. SUFFICES ASSUME Healthy PROVE Filed' = Filed
      OBVIOUS
    <3>3. \A b \in Buffer : buf'[b].traceLive <=> Marked(b)
      BY <2>2, <2>3, <3>2 DEF Unmarked, MarkKept
    <3>4. QED BY <1>2, <3>1, <3>3 DEF Filed, Marked
  <2>5. QED BY <1>2, <2>2, <2>4 DEF Reported, MarkFate, Writing, FileKept
<1>3. CASE DestroyRegion
  <2>1. Finished({"destroy", "shutdown"}) /\ job.region \in Region /\ job' = Idle
    BY <1>3 DEF DestroyRegion, Finished, Shape, JobShape
  <2>2. QED BY <1>0, <1>2, <1>3, <2>1 DEF DestroyRegion
<1>4. CASE ShutdownRegion
  <2>1. Finished({"destroy", "shutdown"}) /\ job.op = "shutdown" /\ job'.op = "shutdown"
        /\ UNCHANGED <<trace, writerVars>>
    BY <1>0, <1>4 DEF ShutdownRegion, Finished, Job
  <2>2. CASE UNCHANGED heapVars
    BY <2>1, <2>2, SameMarks, QuietReport
  <2>3. CASE job.region # NoRegion /\ DeleteRegion(job.region)
    <3>1. job.region \in Region
      BY <1>0, <2>3 DEF Job
    <3>2. QED BY <1>2, <2>1, <2>3, <3>1
  <2>4. QED BY <1>4, <2>2, <2>3 DEF ShutdownRegion
<1>5. CASE ShutdownEnd
  <2>1. /\ ToSet(regions) = {} /\ trace' = NoTrace /\ UNCHANGED writerVars
        /\ \A x \in Buffer : MarkKept(x)
    BY <1>5, SameMarks DEF ShutdownEnd, ToSet
  <2>2. \A b \in Buffer : ~Marked(b)
    BY <2>1, AllAhead DEF MarksFit
  <2>3. Filed = {}
    BY <2>2 DEF Filed
  <2>4. QED BY <1>5, <2>1, <2>3 DEF Reported, MarkFate, Writing, FileLetGo
<1>6. QED BY <1>1, <1>3, <1>4, <1>5

\* Attaching and detaching.
LEMMA AnnounceReports ==
  ASSUME Shape, VectorsMatchOwners, MarksFit, Announcing,
         NextRegion \/ AnnounceBuffer \/ AttachEnd \/ DetachEnd
  PROVE  Reported
<1>0. /\ job \in Job /\ job.todo \in Seq(Buffer) /\ job.rest \in Seq(Region) /\ Idle.op = "idle"
      /\ UNCHANGED heapVars /\ UNCHANGED buf /\ \A x \in Buffer : MarkKept(x)
  BY SameMarks DEF Shape, JobShape, Job, Idle, NextRegion, AnnounceBuffer, AttachEnd, DetachEnd,
     heapVars
<1>1. CASE NextRegion
  <2>1. /\ job'.op = job.op /\ job'.rest = Tail(job.rest) /\ job.todo = <<>>
        /\ UNCHANGED <<trace, writerVars>> /\ job.op \in {"poll", "attach", "detach"}
        /\ job.op # "poll" => job'.todo = buffers[Head(job.rest)]
    BY <1>0, <1>1 DEF NextRegion, Job
  <2>2. CASE job.op = "poll"
    BY <1>0, <2>1, <2>2, QuietReport
  <2>3. CASE job.op # "poll"
    <3>1. Head(job.rest) \in Region /\ ToSet(job.rest) = {Head(job.rest)} \cup ToSet(Tail(job.rest))
      BY <1>0, <1>1, HeadOff DEF NextRegion
    <3>2. ToSet(job.todo) = {}
      BY <2>1 DEF ToSet
    <3>3. \A b \in Buffer : Marked(b) =>
            (b \in ToSet(buffers[Head(job.rest)]) <=> buf[b].owner = Head(job.rest))
      BY <3>1 DEF MarksFit, VectorsMatchOwners
    <3>4. \A b \in Buffer : Marked(b) => (Ahead(b)' <=> Ahead(b))
      BY <1>0, <2>1, <2>3, <3>1, <3>2, <3>3 DEF Ahead
    <3>5. Filed' = Filed
      BY <1>0, <2>1, <3>4 DEF Filed, Marked
    <3>6. QED BY <1>0, <2>1, <3>5 DEF Reported, MarkFate, Writing, FileKept
  <2>4. QED BY <2>2, <2>3
<1>2. CASE AnnounceBuffer
  <2>1. job.todo # <<>> /\ job.op \in {"attach", "detach"}
    BY <1>2 DEF AnnounceBuffer, Working
  <2>2. /\ Current \in Buffer /\ ToSet(job.todo) = {Current} \cup ToSet(Tail(job.todo))
        /\ Current \notin ToSet(Tail(job.todo)) /\ Current \in ToSet(job.todo)
        /\ buf[Current].owner \notin ToSet(job.rest)
    BY <1>0, <2>1, HeadOff DEF Announcing, Current
  <2>3. CASE Lost /\ trace' = IF job.op = "attach" THEN NoTrace ELSE trace
    BY <1>0, <2>3, LostWrites DEF Shape, Reported, MarkFate
  <2>4. CASE /\ IF Announces(Current) THEN Recorded(Announced, Current) ELSE UNCHANGED writerVars
             /\ Continue /\ UNCHANGED trace
    <3>1. job'.op = job.op /\ job'.rest = job.rest /\ job'.todo = Tail(job.todo)
      BY <1>0, <2>4 DEF Continue, Job
    <3>2. \A b \in Buffer : Ahead(b)' <=> Ahead(b) /\ b # Current
      BY <1>0, <2>2, <3>1 DEF Ahead
    <3>3. Ahead(Current)
      BY <2>2 DEF Ahead
    <3>4. CASE ~Marked(Current)
      <4>1. Filed' = Filed
        BY <1>0, <3>1, <3>2, <3>4 DEF Filed, Marked
      <4>2. QED BY <1>0, <2>4, <3>4, <4>1 DEF Reported, MarkFate, Writing, FileKept, Announces, Marked
    <3>5. CASE Marked(Current) /\ job.op = "attach"
      <4>1. Filed' = Filed \cup {Current} /\ Current \notin Filed
        BY <1>0, <2>2, <3>1, <3>2, <3>3, <3>5 DEF Filed, Marked
      <4>2. Recorded("ALLOC", Current) /\ trace' = trace
        BY <2>4, <3>5 DEF Announces, Announced, Marked
      <4>3. QED BY <1>0, <2>2, <4>1, <4>2, RecordedWrites DEF Reported, MarkFate
    <3>6. CASE Marked(Current) /\ job.op = "detach"
      <4>1. Filed' = Filed \ {Current} /\ Current \in Filed
        BY <1>0, <2>2, <3>1, <3>2, <3>3, <3>6 DEF Filed, Marked
      <4>2. Recorded("FREE", Current) /\ trace' = trace
        BY <2>4, <3>6 DEF Announces, Announced, Marked
      <4>3. QED BY <1>0, <2>2, <4>1, <4>2, RecordedWrites DEF Reported, MarkFate
    <3>7. QED BY <2>1, <3>4, <3>5, <3>6
  <2>5. QED BY <1>2, <2>3, <2>4 DEF AnnounceBuffer
<1>3. CASE AttachEnd \/ DetachEnd
  <2>1. (\A b \in Buffer : ~Ahead(b)) /\ job' = Idle
    BY <1>3 DEF AttachEnd, DetachEnd, Finished, Ahead, ToSet
  <2>2. CASE AttachEnd
    <3>1. job.op = "attach" /\ UNCHANGED <<trace, writerVars>>
      BY <2>2 DEF AttachEnd, Finished
    <3>2. Filed' = Filed
      BY <1>0, <2>1, <3>1 DEF Filed, Marked
    <3>3. QED BY <1>0, <3>1, <3>2 DEF Reported, MarkFate, Writing, FileKept
  <2>3. CASE DetachEnd
    <3>1. CASE Lost /\ UNCHANGED trace
      BY <1>0, <3>1, LostWrites DEF Shape, Reported, MarkFate
    <3>2. CASE ~broken[trace] /\ trace' = NoTrace /\ UNCHANGED writerVars
      <4>1. job.op = "detach"
        BY <2>3 DEF DetachEnd, Finished
      <4>2. Filed = {} /\ (Healthy \/ trace = NoTrace)
        BY <2>1, <3>2, <4>1 DEF Filed, Healthy
      <4>3. QED BY <1>0, <3>2, <4>2 DEF Reported, MarkFate, Writing, FileLetGo
    <3>3. QED BY <2>3, <3>1, <3>2 DEF DetachEnd
  <2>4. QED BY <1>3, <2>2, <2>3
<1>4. QED BY <1>1, <1>2, <1>3

\* Every step.
LEMMA StepReports ==
  ASSUME Shape, VectorsMatchOwners, TraceInv, [Next]_vars
  PROVE  Reported
<1>1. MarksFit /\ (Clean => MarksOpen) /\ Announcing
  BY DEF TraceInv
<1>2. CASE /\ UNCHANGED <<job, heapVars, trace, live, replayable>>
           /\ UNCHANGED broken \/ \E t \in Trace : broken' = [broken EXCEPT ![t] = TRUE]
  <2>1. (\A x \in Buffer : MarkKept(x)) /\ Filed' = Filed
    BY <1>2, SameMarks DEF Filed, Ahead, Marked, heapVars
  <2>2. broken' \in [Trace -> BOOLEAN] /\ \A t \in Trace : broken[t] => broken'[t]
    BY <1>2 DEF Shape, WriterShape
  <2>3. QED BY <1>2, <2>1, <2>2 DEF Reported, MarkFate, Writing, FileBroken
<1>3. CASE Environment \/ UNCHANGED vars
  BY <1>2, <1>3 DEF Environment, ClockTicks, WriterBreaks, vars, writerVars
<1>4. CASE JobStep
  BY <1>1, <1>4, LoopReports, EndingReports, AnnounceReports DEF JobStep
<1>5. QED BY <1>1, <1>3, <1>4, HandlerReports DEF Next

-----------------------------------------------------------------------------
(* The invariant is kept.                                                    *)

\* How attach and detach go on.
LEMMA AnnounceGoesOn ==
  ASSUME Shape, [Next]_vars, job'.op \in {"attach", "detach"}
  PROVE  \/ DetachTrace \/ \E t \in Trace : AttachTrace(t)
         \/ job.op = job'.op /\ (NextRegion \/ AnnounceBuffer)
         \/ UNCHANGED <<job, heapVars>> /\ job.op = job'.op
<1>0. job \in Job
  BY DEF Shape, JobShape
<1>1. CASE Handler
  <2>1. job = Idle
    BY <1>1 DEF Handler, Advance, RegionCreate, Alloc, BufferFree, FreePointer, ExpireOnUse,
       Unmap, MarkWritten, Refresh, Invalidate, TraceAccess, Map, Reclassify, RegionRefresh,
       RegionEnd, RegionDestroy, RegionReclassify, AttachTrace, Poll, DetachTrace, RuntimeDestroy
  <2>2. \/ DetachTrace \/ \E t \in Trace : AttachTrace(t)
        \/ job' = job
        \/ job'.op \in {"poll", "refresh", "reclassify", "end", "destroy", "shutdown"}
    BY <1>1 DEF Handler, Advance, RegionCreate, Alloc, BufferFree, FreePointer, ExpireOnUse,
       Unmap, MarkWritten, Refresh, Invalidate, TraceAccess, Map, Reclassify, Poll, RegionRefresh,
       RegionEnd, RegionDestroy, RegionReclassify, RuntimeDestroy, Idle
  <2>3. QED BY <2>1, <2>2 DEF Idle
<1>2. CASE JobStep
  <2>1. CASE job' = Idle
    BY <2>1 DEF Idle
  <2>2. CASE NextRegion \/ AnnounceBuffer
    BY <1>0, <2>1, <2>2 DEF NextRegion, AnnounceBuffer, Continue, Working, Job
  <2>3. CASE \/ PollEnd \/ CheckFails \/ RefreshAll \/ ApplyFails \/ ApplyEnd
             \/ EndRegion \/ DestroyRegion \/ AttachEnd \/ DetachEnd
    BY <2>1, <2>3 DEF PollEnd, CheckFails, RefreshAll, ApplyFails, ApplyEnd, EndRegion,
       DestroyRegion, AttachEnd, DetachEnd
  <2>4. CASE CheckPasses \/ ReclassifyChecked \/ ApplyMoves \/ EndBuffer \/ ShutdownRegion
             \/ ShutdownEnd \/ PollStep
    <3>1. \/ job' = Idle \/ job'.op = "dead" \/ job'.op = "apply"
          \/ job'.op = job.op /\ job.op \notin {"attach", "detach"}
      BY <1>0, <2>4 DEF CheckPasses, ReclassifyChecked, ApplyMoves, EndBuffer, ShutdownRegion,
         ShutdownEnd, PollStep, Continue, Working, Finished, Idle, Job
    <3>2. QED BY <2>1, <3>1
  <2>5. QED BY <1>2, <2>2, <2>3, <2>4 DEF JobStep
<1>3. CASE Environment \/ UNCHANGED vars
  BY <1>3 DEF Environment, ClockTicks, WriterBreaks, vars, heapVars
<1>4. QED BY <1>1, <1>2, <1>3 DEF Next

LEMMA AnnouncingStep ==
  ASSUME Shape, VectorsMatchOwners, Announcing, [Next]_vars
  PROVE  Announcing'
<1> SUFFICES ASSUME job'.op \in {"attach", "detach"} PROVE Announcing'
  BY DEF Announcing
<1>0. /\ job \in Job /\ regions \in Seq(Region) /\ buffers \in [Region -> Seq(Buffer)]
      /\ job.todo \in Seq(Buffer) /\ job.rest \in Seq(Region)
  BY DEF Shape, OwnerShape, JobShape, Job
<1>1. ToSet(<<>>) = {} /\ IsInjective(<<>>)
  BY DEF ToSet, IsInjective
<1>2. CASE DetachTrace \/ \E t \in Trace : AttachTrace(t)
  <2>1. job'.rest = regions /\ job'.todo = <<>>
    BY <1>2 DEF DetachTrace, AttachTrace, Idle
  <2>2. QED BY <1>1, <2>1 DEF Announcing, VectorsMatchOwners
<1>3. CASE UNCHANGED <<job, heapVars>>
  BY <1>3 DEF Announcing, heapVars
<1>4. CASE job.op = job'.op /\ NextRegion
  <2> DEFINE r == Head(job.rest)
  <2>1. job'.rest = Tail(job.rest) /\ buf' = buf /\ job'.todo = buffers[r] /\ job.rest # <<>>
    BY <1>0, <1>4 DEF NextRegion, heapVars, Job
  <2>2. r \in Region /\ IsInjective(Tail(job.rest)) /\ r \notin ToSet(Tail(job.rest))
    BY <1>0, <1>4, <2>1, HeadOff DEF Announcing
  <2>3. IsInjective(buffers[r]) /\ \A b \in ToSet(buffers[r]) : buf[b].owner = r
    BY <2>2 DEF VectorsMatchOwners
  <2>4. QED BY <2>1, <2>2, <2>3 DEF Announcing
<1>5. CASE job.op = job'.op /\ AnnounceBuffer
  <2>1. CASE job' = Idle
    BY <2>1 DEF Idle
  <2>2. CASE Continue
    <3>1. job'.rest = job.rest /\ job'.todo = Tail(job.todo) /\ buf' = buf /\ job.todo # <<>>
      BY <1>0, <1>5, <2>2 DEF AnnounceBuffer, Continue, Working, heapVars, Job
    <3>2. ToSet(Tail(job.todo)) \subseteq ToSet(job.todo) /\ IsInjective(Tail(job.todo))
      BY <1>0, <1>5, <3>1, HeadOff DEF Announcing
    <3>3. QED BY <1>5, <3>1, <3>2 DEF Announcing
  <2>3. QED BY <1>5, <2>1, <2>2 DEF AnnounceBuffer
<1>6. QED BY <1>2, <1>3, <1>4, <1>5, AnnounceGoesOn

\* A file that is clean after a step was clean before, or the runtime is gone.
LEMMA CleanBefore ==
  ASSUME Shape, [Next]_vars, Writing, Clean'
  PROVE  Clean \/ ShutdownEnd
<1> USE DEF Shape, WriterShape
<1>1. CASE job'.op = "attach"
  <2>1. CASE DetachTrace \/ \E t \in Trace : AttachTrace(t)
    BY <1>1, <2>1 DEF DetachTrace, AttachTrace, Clean, Idle
  <2>2. QED BY <1>1, <2>1, AnnounceGoesOn DEF Clean
<1>2. CASE job'.op # "attach"
  <2>1. Healthy' \/ trace' = NoTrace
    BY <1>2 DEF Clean
  <2>2. QED BY <2>1, HandlesAssumption DEF Writing, FileKept, FileBroken, FileAttached, FileLetGo,
            Logged, Recorded, writerVars, Healthy, Clean
<1>3. QED BY <1>1, <1>2

\* How the end of a region goes on.
LEMMA EndGoesOn ==
  ASSUME Shape, [Next]_vars, job'.op \in {"end", "destroy", "shutdown"}
  PROVE  \/ \E r \in Region : RegionEnd(r) \/ RegionDestroy(r)
         \/ RuntimeDestroy \/ EndBuffer \/ ShutdownRegion
         \/ UNCHANGED job
<1>0. job \in Job
  BY DEF Shape, JobShape
<1>1. CASE Handler
  <2>1. \/ \E r \in Region : RegionEnd(r) \/ RegionDestroy(r)
        \/ RuntimeDestroy
        \/ job' = job
        \/ job'.op \in {"poll", "refresh", "reclassify", "attach", "detach"}
    BY <1>1 DEF Handler, Advance, RegionCreate, Alloc, BufferFree, FreePointer, ExpireOnUse,
       Unmap, MarkWritten, Refresh, Invalidate, TraceAccess, Map, Reclassify, Poll, RegionRefresh,
       RegionReclassify, AttachTrace, DetachTrace, Idle
  <2>2. QED BY <2>1
<1>2. CASE JobStep
  <2>1. CASE job' = Idle
    BY <2>1 DEF Idle
  <2>2. CASE NextRegion \/ AnnounceBuffer \/ PollStep \/ ApplyMoves
    BY <1>0, <2>1, <2>2 DEF NextRegion, AnnounceBuffer, PollStep, ApplyMoves, Continue, Working, Job
  <2>3. CASE \/ PollEnd \/ CheckFails \/ RefreshAll \/ ApplyFails \/ ApplyEnd
             \/ EndRegion \/ DestroyRegion \/ AttachEnd \/ DetachEnd
    BY <2>1, <2>3 DEF PollEnd, CheckFails, RefreshAll, ApplyFails, ApplyEnd, EndRegion,
       DestroyRegion, AttachEnd, DetachEnd
  <2>4. CASE CheckPasses \/ ReclassifyChecked \/ ShutdownEnd
    <3>1. job' = Idle \/ job'.op \in {"dead", "apply", "refresh", "reclassify"}
      BY <1>0, <2>4 DEF CheckPasses, ReclassifyChecked, ShutdownEnd, Working, Finished, Idle, Job
    <3>2. QED BY <2>1, <3>1
  <2>5. QED BY <1>2, <2>2, <2>3, <2>4 DEF JobStep
<1>3. CASE Environment \/ UNCHANGED vars
  BY <1>3 DEF Environment, ClockTicks, WriterBreaks, vars
<1>4. QED BY <1>1, <1>2, <1>3 DEF Next

\* What may become of the regions that are open.
LEMMA OpenMoves ==
  ASSUME Shape, [Next]_vars
  PROVE  \/ \A r \in Region : open[r] => open'[r]
         \/ /\ EndRegion \/ DestroyRegion \/ (ShutdownRegion /\ DeleteRegion(job.region))
            /\ \A r \in Region \ {job.region} : open'[r] = open[r]
<1>0. open \in [Region -> BOOLEAN]
  BY DEF Shape, OwnerShape
<1>1. CASE UNCHANGED open
  BY <1>1
<1>2. ASSUME NEW r \in Region, NEW p \in Policies, RegionCreate(r, p)
      PROVE  \A q \in Region : open[q] => open'[q]
  BY <1>0, <1>2 DEF RegionCreate
<1>3. CASE Handler
  <2>1. UNCHANGED open \/ \E r \in Region, p \in Policies : RegionCreate(r, p)
    BY <1>3 DEF Handler, Advance, Alloc, BufferFree, FreePointer, ExpireOnUse,
       Unmap, MarkWritten, Refresh, Invalidate, TraceAccess, Map, Reclassify, Hinted, RegionRefresh,
       RegionEnd, RegionDestroy, RegionReclassify, AttachTrace, Poll, DetachTrace, RuntimeDestroy,
       heapVars, ownerVars, Deleted, Release, Dated, Retag
  <2>2. QED BY <1>1, <1>2, <2>1
<1>4. CASE JobStep
  <2>1. CASE EndRegion \/ DestroyRegion \/ ShutdownRegion
    BY <1>0, <1>1, <2>1 DEF EndRegion, DestroyRegion, ShutdownRegion, DeleteRegion, heapVars, ownerVars
  <2>2. CASE ~(EndRegion \/ DestroyRegion \/ ShutdownRegion)
    BY <1>1, <1>4, <2>2 DEF JobStep, NextRegion, PollStep, PollSkip, PollExpire, PollInvalidate,
       PollRefresh, PollPromote, PollEnd, CheckPasses, CheckFails, RefreshAll, ReclassifyChecked,
       ApplyMoves, ApplyFails, ApplyEnd, EndBuffer, ShutdownEnd, AnnounceBuffer, AttachEnd,
       DetachEnd, heapVars, ownerVars, Release, Dated, Retag
  <2>3. QED BY <2>1, <2>2
<1>5. CASE Environment \/ UNCHANGED vars
  BY <1>1, <1>5 DEF Environment, ClockTicks, WriterBreaks, vars, heapVars, ownerVars
<1>6. QED BY <1>3, <1>4, <1>5 DEF Next

\* When a region has ended without a lost line, nothing in it is marked.
LEMMA NoneMarked ==
  ASSUME MarksOpen, Finished({"end", "destroy", "shutdown"})
  PROVE  \A b \in Buffer : buf[b].owner = job.region => ~Marked(b)
BY DEF MarksOpen, Finished, ToSet

LEMMA MarksOpenStep ==
  ASSUME Shape, VectorsMatchOwners, MarksFit, MarksOpen, [Next]_vars, Reported, Clean'
  PROVE  MarksOpen'
<1>0. /\ job \in Job /\ buf \in [Buffer -> Slot] /\ job.todo \in Seq(Buffer)
      /\ \A b \in Buffer : MarkFate(b)
      /\ \A b \in Buffer : Marked(b) => buf[b].owner \in Region /\ buf[b].state # "FREE"
  BY DEF Shape, JobShape, BufShape, Job, Reported, MarksFit
<1> SUFFICES ASSUME NEW b \in Buffer, Marked(b)'
             PROVE  /\ open'[buf'[b].owner]
                    /\ job'.op \in {"end", "destroy", "shutdown"} /\ buf'[b].owner = job'.region
                         => b \in ToSet(job'.todo)
  BY DEF MarksOpen
<1>1. CASE MarkedNew(b)
  BY <1>1 DEF MarkedNew, Idle
<1>2. CASE MarkKept(b)
  <2>1. /\ Marked(b) /\ buf'[b].owner = buf[b].owner /\ buf[b].owner \in Region
        /\ open[buf[b].owner] /\ b \in ToSet(buffers[buf[b].owner])
    BY <1>0, <1>2, AllAhead DEF MarkKept, Marked, MarksOpen
  <2>2. open'[buf[b].owner]
    <3>1. CASE EndRegion \/ DestroyRegion \/ (ShutdownRegion /\ DeleteRegion(job.region))
      <4>1. Finished({"end", "destroy", "shutdown"})
        BY <3>1 DEF EndRegion, DestroyRegion, ShutdownRegion, Finished
      <4>2. buf[b].owner # job.region
        BY <2>1, <4>1, NoneMarked
      <4>3. QED BY <2>1, <4>2, OpenMoves
    <3>2. QED BY <2>1, <3>1, OpenMoves
  <2>3. ASSUME job'.op \in {"end", "destroy", "shutdown"}, buf[b].owner = job'.region
        PROVE  b \in ToSet(job'.todo)
    <3>1. CASE UNCHANGED job
      BY <2>1, <2>3, <3>1 DEF MarksOpen
    <3>2. ASSUME NEW r \in Region, RegionEnd(r) \/ RegionDestroy(r)
          PROVE  b \in ToSet(job'.todo)
      <4>1. job'.region = r /\ (job'.todo = buffers[r] \/ ~open[r])
        BY <3>2 DEF RegionEnd, RegionDestroy, Idle
      <4>2. QED BY <2>1, <2>3, <4>1
    <3>3. CASE RuntimeDestroy
      <4>1. job'.region = NoRegion
        BY <3>3 DEF RuntimeDestroy, Idle
      <4>2. QED BY <2>1, <2>3, <4>1, HandlesAssumption
    <3>4. CASE EndBuffer
      <4>1. /\ Current \in Buffer /\ job.todo # <<>> /\ job.op \in {"end", "destroy", "shutdown"}
            /\ job'.op = job.op /\ job'.region = job.region /\ job'.todo = Tail(job.todo)
        BY <1>0, <3>4, EndBufferGood DEF EndBuffer, Working, Continue, Job
      <4>2. b \in ToSet(job.todo)
        BY <2>1, <2>3, <4>1 DEF MarksOpen
      <4>3. ToSet(job.todo) = {Current} \cup ToSet(Tail(job.todo))
        BY <1>0, <4>1, HeadOff DEF Current
      <4>4. CASE b = Current
        <5>1. CASE buf' = [buf EXCEPT ![Current] = [Ended(@) EXCEPT !.traceLive = FALSE]]
          <6>1. Ended(buf[Current]) \in Slot
            <7>1. \A s \in Slot : Ended(s) \in Slot BY DEF Ended, Released, Slot
            <7>2. QED BY <1>0, <4>1, <7>1
          <6>2. PICK k \in Slot : k = Ended(buf[Current]) BY <6>1
          <6>3. Current \in DOMAIN buf BY <1>0, <4>1
          <6>4. buf'[Current] = [k EXCEPT !.traceLive = FALSE] BY <5>1, <6>2, <6>3
          <6>5. ~buf'[Current].traceLive BY <6>4 DEF Slot
          <6>6. QED BY <4>4, <6>5 DEF Marked
        <5>2. CASE Lost
          <6>1. trace \in Trace /\ broken'[trace] /\ trace' = trace /\ job'.op # "attach"
            BY <3>4, <4>1, <5>2 DEF Lost, EndBuffer, Shape, WriterShape
          <6>2. QED BY <6>1, HandlesAssumption DEF Clean, Healthy
        <5>3. QED BY <3>4, <5>1, <5>2 DEF EndBuffer, FreeLost
      <4>5. QED BY <4>1, <4>2, <4>3, <4>4
    <3>5. CASE ShutdownRegion
      <4>1. CASE job.region = NoRegion
        <5>1. \E r : job'.region = r /\ job'.todo = IF open[r] THEN buffers[r] ELSE <<>>
          BY <1>0, <3>5, <4>1 DEF ShutdownRegion, Job
        <5>2. QED BY <2>1, <2>3, <5>1
      <4>2. CASE job.region # NoRegion
        <5>1. job'.region = NoRegion
          BY <1>0, <3>5, <4>2 DEF ShutdownRegion, Job
        <5>2. QED BY <2>1, <2>3, <5>1, HandlesAssumption
      <4>3. QED BY <4>1, <4>2
    <3>6. QED BY <2>3, <3>1, <3>2, <3>3, <3>4, <3>5, EndGoesOn
  <2>4. QED BY <2>1, <2>2, <2>3
<1>3. CASE Unmarked(b)
  BY <1>3 DEF Unmarked, Marked
<1>4. QED BY <1>0, <1>1, <1>2, <1>3 DEF MarkFate

LEMMA TraceStep ==
  ASSUME Shape, VectorsMatchOwners, TraceInv, [Next]_vars
  PROVE  TraceInv'
<1>1. Reported /\ Writing /\ \A b \in Buffer : MarkFate(b)
  BY StepReports DEF Reported
<1>2. MarksFit'
  <2>1. SUFFICES ASSUME NEW b \in Buffer
                 PROVE  (Marked(b)' => buf'[b].state # "FREE") /\ (Active(b)' => Marked(b)')
    BY DEF MarksFit
  <2>2. (Marked(b) => buf[b].state # "FREE") /\ (Active(b) => Marked(b)) /\ MarkFate(b)
    BY <1>1 DEF TraceInv, MarksFit
  <2>3. QED BY <2>2 DEF MarkFate, MarkKept, Unmarked, MarkedNew, Marked, Active
<1>3. ASSUME Clean' PROVE MarksOpen'
  <2>1. CASE Clean
    BY <1>1, <1>3, <2>1, MarksOpenStep DEF TraceInv
  <2>2. CASE ShutdownEnd
    <3>1. ToSet(regions) = {} /\ \A b \in Buffer : MarkKept(b)
      BY <2>2, SameMarks DEF ShutdownEnd, ToSet
    <3>2. \A b \in Buffer : ~Marked(b)
      BY <3>1, AllAhead DEF TraceInv, MarksFit
    <3>3. QED BY <3>1, <3>2 DEF MarksOpen, MarkKept, Marked
  <2>3. QED BY <1>1, <1>3, <2>1, <2>2, CleanBefore
<1>4. Announcing'
  BY AnnouncingStep DEF TraceInv
<1>5. Files' /\ TraceReplays'
  BY <1>1, FilesStep DEF TraceInv, Shape
<1>6. QED BY <1>2, <1>3, <1>4, <1>5 DEF TraceInv

LEMMA TraceAlways == Spec => [](Shape /\ TraceInv)
<1>1. IInv => Shape /\ VectorsMatchOwners
  BY DEF IInv, Owners
<1>2. Init => TraceInv
  <2>1. SUFFICES ASSUME Init PROVE TraceInv
    OBVIOUS
  <2>2. \A b \in Buffer : ~Marked(b) /\ ~Active(b)
    BY <2>1 DEF Init, FreeSlot, Marked, Active
  <2>3. job.op = "idle" /\ trace = NoTrace
    BY <2>1 DEF Init, Idle
  <2>4. QED BY <2>1, <2>2, <2>3
     DEF Init, TraceInv, MarksFit, MarksOpen, Announcing, Files, Healthy, TraceReplays
<1>3. IInv /\ TraceInv /\ [Next]_vars => TraceInv'
  BY <1>1, TraceStep
<1>4. QED BY <1>1, <1>2, <1>3, Invariance, PTL DEF Spec

-----------------------------------------------------------------------------
\* A trace file that was written without an error replays, whatever was attached,
\* detached, expired, invalidated and freed in between (rtmem.cpp:132-146, 613-669).
THEOREM TracesReplayCorrect == Spec => []TraceReplays
<1>1. TraceInv => TraceReplays
  BY DEF TraceInv
<1>2. QED BY <1>1, TraceAlways, PTL

\* Between calls a healthy writer's file holds exactly the handles whose trace_live is
\* set, and a writer that was let go without an error holds none (rtmem.cpp:613-669).
THEOREM TracesBalancedCorrect == Spec => []TraceBalanced
<1>1. ASSUME Shape, TraceInv, job.op \in {"idle", "dead"}, NEW t \in Trace, ~broken[t]
      PROVE  IF t = trace
             THEN live[t] = {b \in Buffer : buf[b].traceLive} /\ \A b \in Buffer : Active(b) => b \in live[t]
             ELSE live[t] = {}
  <2>1. CASE t = trace
    <3>1. live[t] = Filed
      BY <1>1, <2>1, HandlesAssumption DEF TraceInv, Files, Healthy
    <3>2. Filed = {b \in Buffer : buf[b].traceLive}
      BY <1>1 DEF Filed, Marked
    <3>3. \A b \in Buffer : Active(b) => buf[b].traceLive
      BY <1>1 DEF TraceInv, MarksFit, Marked
    <3>4. QED BY <2>1, <3>1, <3>2, <3>3
  <2>2. CASE t # trace
    BY <1>1, <2>2 DEF TraceInv, Files
  <2>3. QED BY <2>1, <2>2
<1>2. Shape /\ TraceInv => TraceBalanced
  BY <1>1 DEF TraceBalanced
<1>3. QED BY <1>2, TraceAlways, PTL


-----------------------------------------------------------------------------
(* A regular poll.  The last completed poll took its reading at              *)
(* tick - lag; a buffer that poll maintains has its deadline beyond what the *)
(* clock may reach before the next one ends.                                 *)

Maintained(b) ==
  LET p == policy[buf[b].owner] IN
  p.action = "REFRESH" \/ (p.action = "PROMOTE" /\ ~p.required)

\* The deadline is not met within the guard of a reading.
Beyond(b, reading) == Deadline(b) = kInfinite \/ Deadline(b) > reading + PollGuard

NothingMapped == \A b \in Buffer : ~Mapped(b)

Regular ==
  /\ lag \in Nat /\ lag <= tick /\ lag <= PollGuard
  /\ job.op = "poll" => tick - lag <= job.now
  /\ \A b \in Buffer : Active(b) /\ Maintained(b) =>
       /\ Beyond(b, tick - lag)
       /\ job.op = "poll" /\ ~Ahead(b) => Beyond(b, job.now)

PollInv == NothingMapped /\ Regular /\ MaintainedNeverExpires

\* An application without mappings stays so.
LEMMA NoMapping ==
  ASSUME Shape, [Next]_vars, MapModes = {}, NothingMapped
  PROVE  NothingMapped'
<1>0. buf \in [Buffer -> Slot]
  BY DEF Shape, BufShape
<1> DEFINE Placed == \E b : \E s : s.map = {} /\ buf' = [buf EXCEPT ![b] = s]
<1>1. \A b \in Buffer : buf[b].map = {} /\ buf[b] \in Slot
  BY <1>0 DEF NothingMapped, Mapped
<1>2. UNCHANGED buf \/ UNCHANGED heapVars => NothingMapped'
  BY DEF NothingMapped, Mapped, heapVars
<1>3. Placed => NothingMapped'
  BY <1>0, <1>1 DEF NothingMapped, Mapped
<1>4. ASSUME NEW b \in Buffer, NEW t, Dated(b, t) PROVE Placed
  <2>1. [buf[b] EXCEPT !.lastWrite = t].map = {}
    BY <1>1 DEF Slot
  <2>2. QED BY <1>4, <2>1 DEF Dated
<1>5. ASSUME NEW b \in Buffer, NEW s, Release(b, s) PROVE Placed
  <2>1. Released(buf[b], s).map = {}
    BY <1>1 DEF Slot, Released
  <2>2. QED BY <1>5, <2>1 DEF Release
<1>6. ASSUME NEW b \in Buffer, NEW c, Retag(b, c) PROVE Placed
  <2>1. \A t : Retagged(buf[b], c, t).map = {}
    BY <1>1 DEF Slot, Retagged
  <2>2. QED BY <1>4, <1>6, <2>1 DEF Retag
<1>7. ASSUME NEW b \in Buffer, Deleted(b) PROVE Placed
  BY <1>7 DEF Deleted, FreeSlot
<1>8. ASSUME NEW r, DeleteRegion(r) PROVE NothingMapped'
  BY <1>1, <1>8 DEF DeleteRegion, NothingMapped, Mapped, FreeSlot
<1>9. CASE Handler
  <2>1. ASSUME NEW r \in Region, NEW b \in Buffer, NEW n \in Sizes, Alloc(r, b, n)
        PROVE  Placed \/ UNCHANGED heapVars
    BY <2>1 DEF Alloc
  <2>2. ASSUME NEW b \in Buffer, Unmap(b) PROVE FALSE
    BY <1>1, <2>2 DEF Unmap, Mapped
  <2>3. ASSUME NEW b \in Buffer, Invalidate(b) PROVE Placed \/ UNCHANGED heapVars
    <3>1. [Released(buf[b], "INVALID") EXCEPT !.traceLive = FALSE].map = {}
      BY <1>1 DEF Slot, Released
    <3>2. QED BY <2>3, <3>1 DEF Invalidate
  <2>4. ASSUME NEW b \in Buffer, NEW c \in Class, Reclassify(b, c)
        PROVE  Placed \/ UNCHANGED heapVars
    BY <1>6, <2>4 DEF Reclassify, Hinted
  <2>5. ASSUME NEW b \in Buffer, BufferFree(b) \/ FreePointer(b) \/ ExpireOnUse(b)
                                 \/ MarkWritten(b) \/ Refresh(b)
        PROVE  Placed \/ UNCHANGED heapVars
    BY <1>4, <1>5, <1>7, <2>5 DEF BufferFree, FreePointer, ExpireOnUse, MarkWritten, Refresh
  <2>6. \/ UNCHANGED heapVars \/ UNCHANGED buf
        \/ \E r \in Region, b \in Buffer, n \in Sizes : Alloc(r, b, n)
        \/ \E b \in Buffer : BufferFree(b) \/ FreePointer(b) \/ ExpireOnUse(b) \/ Unmap(b)
                             \/ MarkWritten(b) \/ Refresh(b) \/ Invalidate(b)
        \/ \E b \in Buffer, c \in Class : Reclassify(b, c)
    BY <1>9 DEF Handler, Advance, RegionCreate, TraceAccess, RegionRefresh, RegionEnd,
       RegionDestroy, RegionReclassify, AttachTrace, Poll, DetachTrace, RuntimeDestroy
  <2>7. QED BY <1>2, <1>3, <2>1, <2>2, <2>3, <2>4, <2>5, <2>6
<1>10. CASE JobStep
  <2>1. CASE PollStep
    <3>1. Current \in Buffer
      BY <2>1, JobsTyped DEF PollStep
    <3>2. Placed \/ UNCHANGED heapVars
      BY <1>4, <1>5, <1>6, <2>1, <3>1 DEF PollStep, PollSkip, PollExpire, PollInvalidate,
         PollRefresh, PollPromote
    <3>3. QED BY <1>2, <1>3, <3>2
  <2>2. CASE CheckFails \/ ApplyFails
    <3>1. Current \in Buffer
      BY <2>2, JobsTyped DEF CheckFails, ApplyFails
    <3>2. Placed \/ UNCHANGED heapVars
      BY <1>5, <2>2, <3>1 DEF CheckFails, ApplyFails
    <3>3. QED BY <1>2, <1>3, <3>2
  <2>3. CASE RefreshAll
    <3>1. ASSUME NEW b \in Buffer PROVE buf'[b].map = {}
      <4>1. buf'[b] = [buf[b] EXCEPT !.lastWrite = tick] \/ buf'[b] = buf[b]
        BY <2>3 DEF RefreshAll
      <4>2. QED BY <1>1, <4>1 DEF Slot
    <3>2. QED BY <3>1 DEF NothingMapped, Mapped
  <2>4. CASE ApplyMoves
    <3>1. Current \in Buffer
      BY <2>4, JobsTyped DEF ApplyMoves
    <3>2. QED BY <1>3, <1>6, <2>4, <3>1 DEF ApplyMoves
  <2>5. CASE EndBuffer
    <3>1. Current \in Buffer
      BY <2>5, JobsTyped DEF EndBuffer
    <3>2. Ended(buf[Current]) \in Slot /\ Ended(buf[Current]).map = {}
      BY <1>1, <3>1 DEF Ended, Released, Slot
    <3>3. [Ended(buf[Current]) EXCEPT !.traceLive = FALSE].map = {}
      BY <3>2 DEF Slot
    <3>4. QED BY <1>3, <2>5, <3>2, <3>3 DEF EndBuffer
  <2>6. CASE DestroyRegion \/ ShutdownRegion
    BY <1>2, <1>8, <2>6 DEF DestroyRegion, ShutdownRegion
  <2>7. CASE \/ NextRegion \/ PollEnd \/ CheckPasses \/ ReclassifyChecked \/ ApplyEnd
             \/ EndRegion \/ ShutdownEnd \/ AnnounceBuffer \/ AttachEnd \/ DetachEnd
    BY <1>2, <2>7 DEF NextRegion, PollEnd, CheckPasses, ReclassifyChecked, ApplyEnd, EndRegion,
       ShutdownEnd, AnnounceBuffer, AttachEnd, DetachEnd
  <2>8. QED BY <1>10, <2>1, <2>2, <2>3, <2>4, <2>5, <2>6, <2>7 DEF JobStep
<1>11. CASE Environment \/ UNCHANGED vars
  BY <1>2, <1>11 DEF Environment, ClockTicks, WriterBreaks, vars
<1>12. QED BY <1>9, <1>10, <1>11 DEF Next

\* The policy of a buffer does not change.
LEMMA PolicyKept ==
  ASSUME Shape, VectorsMatchOwners, [Next]_vars, NEW b \in Buffer, buf'[b].state # "FREE"
  PROVE  policy'[buf'[b].owner] = policy[buf'[b].owner]
<1>0. buf \in [Buffer -> Slot] /\ policy \in [Region -> Policy]
  BY DEF Shape, BufShape, OwnerShape
<1>1. ASSUME NEW r \in Region, NEW p \in Policies, RegionCreate(r, p)
      PROVE  policy'[buf'[b].owner] = policy[buf'[b].owner]
  <2>1. buf' = buf /\ policy' = [policy EXCEPT ![r] = p] /\ r \notin ToSet(regions)
    BY <1>1 DEF RegionCreate
  <2>2. ToSet(buffers[r]) = {}
    BY <2>1 DEF VectorsMatchOwners, ToSet
  <2>3. buf[b].owner # r
    BY <2>1, <2>2 DEF VectorsMatchOwners
  <2>4. QED BY <1>0, <2>1, <2>3
<1>2. ASSUME NEW r \in Region, DeleteRegion(r)
      PROVE  policy'[buf'[b].owner] = policy[buf'[b].owner]
  <2>1. b \notin ToSet(buffers[r]) /\ buf'[b] = buf[b]
    BY <1>2 DEF DeleteRegion, FreeSlot
  <2>2. buf[b].owner # r
    BY <2>1 DEF VectorsMatchOwners
  <2>3. QED BY <1>0, <1>2, <2>1, <2>2 DEF DeleteRegion
<1>3. CASE DestroyRegion \/ ShutdownRegion
  <2>1. UNCHANGED heapVars \/ (job.region \in Region /\ DeleteRegion(job.region))
    BY <1>3 DEF DestroyRegion, ShutdownRegion, Finished, Shape, JobShape, Job
  <2>2. QED BY <1>2, <2>1 DEF heapVars, ownerVars
<1>4. CASE Handler
  <2>1. ASSUME NEW x \in Buffer, NEW c \in Class, Reclassify(x, c)
        PROVE  policy' = policy
    BY <2>1 DEF Reclassify, Hinted, Retag, Dated, heapVars, ownerVars
  <2>2. policy' = policy \/ \E r \in Region, p \in Policies : RegionCreate(r, p)
    BY <1>4, <2>1 DEF Handler, Advance, Alloc, BufferFree, FreePointer, Deleted, ExpireOnUse,
       Release, Unmap, MarkWritten, Refresh, Dated, Invalidate, TraceAccess, Map, RegionRefresh,
       RegionEnd, RegionDestroy, RegionReclassify, AttachTrace, Poll, DetachTrace, RuntimeDestroy,
       heapVars, ownerVars
  <2>3. QED BY <1>1, <2>2
<1>5. CASE JobStep
  <2>1. policy' = policy \/ DestroyRegion \/ ShutdownRegion
    BY <1>5 DEF JobStep, NextRegion, PollStep, PollSkip, PollExpire, PollInvalidate, PollRefresh,
       PollPromote, PollEnd, CheckPasses, CheckFails, RefreshAll, ReclassifyChecked, ApplyMoves,
       ApplyFails, ApplyEnd, EndBuffer, EndRegion, ShutdownEnd, AnnounceBuffer, AttachEnd,
       DetachEnd, Release, Dated, Retag, heapVars, ownerVars
  <2>2. QED BY <1>3, <2>1
<1>6. CASE Environment \/ UNCHANGED vars
  BY <1>6 DEF Environment, ClockTicks, WriterBreaks, vars, heapVars, ownerVars
<1>7. QED BY <1>4, <1>5, <1>6 DEF Next

\* A poll becomes idle by its last step.
LEMMA PollEnds ==
  ASSUME Shape, [Next]_vars, job.op = "poll", job' = Idle
  PROVE  PollEnd
<1>0. job \in Job /\ job # Idle /\ job'.op = "idle"
  BY DEF Shape, JobShape, Idle
<1>1. ~Handler
  BY <1>0 DEF Handler, Advance, RegionCreate, Alloc, BufferFree, FreePointer, ExpireOnUse,
     Unmap, MarkWritten, Refresh, Invalidate, TraceAccess, Map, Reclassify, RegionRefresh,
     RegionEnd, RegionDestroy, RegionReclassify, AttachTrace, Poll, DetachTrace, RuntimeDestroy
<1>2. ~Environment /\ ~UNCHANGED vars
  BY <1>0 DEF Environment, ClockTicks, WriterBreaks, vars
<1>3. ~NextRegion /\ ~PollStep
  BY <1>0 DEF NextRegion, PollStep, Continue, Working, Job
<1>4. /\ ~CheckPasses /\ ~CheckFails /\ ~RefreshAll /\ ~ReclassifyChecked /\ ~ApplyMoves
      /\ ~ApplyFails /\ ~ApplyEnd /\ ~EndBuffer /\ ~EndRegion /\ ~DestroyRegion
      /\ ~ShutdownRegion /\ ~ShutdownEnd /\ ~AnnounceBuffer /\ ~AttachEnd /\ ~DetachEnd
  BY DEF CheckPasses, CheckFails, RefreshAll, ReclassifyChecked, ApplyMoves, ApplyFails,
     ApplyEnd, EndBuffer, EndRegion, DestroyRegion, ShutdownRegion, ShutdownEnd,
     AnnounceBuffer, AttachEnd, DetachEnd, Working, Finished
<1>5. QED BY <1>1, <1>2, <1>3, <1>4 DEF Next, JobStep

\* A date that is not before a reading gives a deadline beyond it.
LEMMA DatedBeyond ==
  ASSUME NEW b \in Buffer, NEW x \in Nat, buf'[b] \in Slot, buf'[b].lastWrite >= x
  PROVE  Beyond(b, x)'
<1>1. /\ buf'[b].lastWrite \in Nat /\ buf'[b].class \in Class
      /\ Retention[buf'[b].class] \in Nat /\ Retention[buf'[b].class] > PollGuard
      /\ PollGuard \in Nat /\ kInfinite \in Nat
  BY GuardAssumption, OptionsAssumption DEF Slot
<1>2. Deadline(b)' = IF \/ Retention[buf'[b].class] = kInfinite
                        \/ buf'[b].lastWrite > kInfinite - Retention[buf'[b].class]
                     THEN kInfinite ELSE buf'[b].lastWrite + Retention[buf'[b].class]
  BY DEF Deadline
<1>3. QED BY <1>1, <1>2 DEF Beyond

\* Time that goes by counts for the clock and the lag alike.
LEMMA Elapsed ==
  ASSUME NEW t \in Nat, NEW u \in Nat, t <= u, NEW l \in Nat, l <= t
  PROVE  /\ l + (u - t) \in Nat /\ l + (u - t) <= u
         /\ u - (l + (u - t)) = t - l
OBVIOUS

\* The clock, the lag and the reading of a poll, over a step.
LEMMA PollNumbers ==
  ASSUME Shape, AgeInv, Regular, PolledNext \/ UNCHANGED <<vars, lag>>, [Next]_vars
  PROVE  /\ tick \in Nat /\ tick' \in Nat /\ tick <= tick' /\ lag \in Nat /\ lag <= tick
         /\ job.now \in Nat
         /\ job.op = "poll" => job.now <= tick /\ tick - lag <= job.now
         /\ lag' \in Nat /\ lag' <= tick' /\ lag' <= PollGuard
         /\ \/ job.op = "poll" /\ PollEnd /\ tick' - lag' = job.now
            \/ ~(job.op = "poll" /\ job' = Idle) /\ tick' - lag' = tick - lag
<1>1. tick \in Nat /\ tick' \in Nat /\ tick <= tick' /\ lag \in Nat /\ lag <= tick
      /\ lag <= PollGuard /\ job.now \in Nat /\ PollGuard \in Nat
  BY ClockMoves, OptionsAssumption DEF Shape, JobShape, Job, Regular
<1>2. job.op = "poll" => job.now <= tick /\ tick - lag <= job.now
  BY DEF AgeInv, Polling, Regular
<1>3. CASE UNCHANGED <<vars, lag>>
  <2>1. job.op = "poll" => job' # Idle
    BY <1>3 DEF vars, Idle
  <2>2. tick' = tick /\ lag' = lag
    BY <1>3 DEF vars
  <2>3. QED BY <1>1, <1>2, <2>1, <2>2
<1>4. CASE PolledNext /\ job.op = "poll" /\ job' = Idle
  <2>1. PollEnd /\ tick' = tick /\ lag' = tick - job.now /\ lag' <= PollGuard
    BY <1>4, PollEnds DEF PolledNext, PollEnd
  <2>2. QED BY <1>1, <1>2, <1>4, <2>1
<1>5. CASE PolledNext /\ ~(job.op = "poll" /\ job' = Idle)
  <2>1. lag' = lag + (tick' - tick) /\ lag' <= PollGuard
    BY <1>5 DEF PolledNext
  <2>2. lag' \in Nat /\ lag' <= tick' /\ tick' - lag' = tick - lag
    BY <1>1, <2>1, Elapsed
  <2>3. QED BY <1>1, <1>2, <1>5, <2>1, <2>2
<1>6. QED BY <1>3, <1>4, <1>5

\* A buffer that poll maintains does not miss its deadline.
LEMMA MaintainedStep ==
  ASSUME Shape, VectorsMatchOwners, AgeInv, PollInv, PolledNext \/ UNCHANGED <<vars, lag>>,
         [Next]_vars
  PROVE  MaintainedNeverExpires'
<1> SUFFICES ASSUME NEW b \in Buffer, buf'[b].state = "EXPIRED", Maintained(b)'
             PROVE  FALSE
  BY DEF MaintainedNeverExpires, Maintained
<1>1. policy'[buf'[b].owner] = policy[buf'[b].owner]
  BY PolicyKept
<1>2. buf'[b].owner = buf[b].owner => Maintained(b)
  BY <1>1 DEF Maintained
<1>3. CASE Kept(b) \/ Repolled(b) \/ DatedByUnmap(b) \/ RefreshedAll(b)
  BY <1>2, <1>3 DEF Kept, Repolled, DatedByUnmap, RefreshedAll, Aged, PollInv,
     MaintainedNeverExpires, Maintained
<1>4. CASE Lapsed(b)
  <2>1. Active(b) /\ Maintained(b) /\ Beyond(b, tick - lag)
    BY <1>2, <1>4 DEF Lapsed, PollInv, Regular
  <2>2. PICK now \in Nat : now <= tick /\ Overdue(b, now)
    <3>1. Regular
      BY DEF PollInv
    <3>2. tick \in Nat /\ job.now \in Nat /\ (job.op = "poll" => job.now <= tick)
      BY <3>1, PollNumbers
    <3>3. QED BY <1>4, <3>2 DEF Lapsed
  <2>3. Deadline(b) # kInfinite /\ now >= Deadline(b) /\ Deadline(b) > (tick - lag) + PollGuard
    BY <2>1, <2>2 DEF Overdue, Beyond
  <2>4. lag <= PollGuard /\ PollGuard \in Nat /\ tick \in Nat /\ lag \in Nat
    BY OptionsAssumption, PollNumbers DEF PollInv, Regular
  <2>5. Deadline(b) \in Nat
    BY OptionsAssumption DEF Shape, BufShape, Slot, Deadline
  <2>6. QED BY <2>2, <2>3, <2>4, <2>5
<1>5. CASE Given(b) \/ Renewed(b) \/ Born(b)
  BY <1>5 DEF Given, Renewed, Born
<1>6. QED BY <1>3, <1>4, <1>5, Fates DEF Fate

\* Whatever dates a buffer in a step dates it at the last reading or later.
LEMMA BeyondReading ==
  ASSUME Shape, VectorsMatchOwners, AgeInv, PollInv, PolledNext \/ UNCHANGED <<vars, lag>>,
         [Next]_vars, Shape', NEW b \in Buffer, buf'[b].state = "ACTIVE", Maintained(b)'
  PROVE  Beyond(b, tick - lag)'
<1>0. /\ tick \in Nat /\ lag \in Nat /\ tick - lag \in Nat /\ tick' \in Nat /\ tick <= tick'
      /\ job.now \in Nat
      /\ job.op = "poll" => tick - lag <= job.now
      /\ buf'[b] \in Slot /\ buf'[b].lastWrite \in Nat
  <2>1. buf'[b] \in Slot
    BY DEF Shape, BufShape
  <2>2. QED BY <2>1, PollNumbers DEF PollInv, Slot
<1>1. buf'[b].owner = buf[b].owner => Maintained(b)
  BY PolicyKept DEF Maintained
<1>2. CASE job.op = "poll" /\ PollEnd /\ tick' - lag' = job.now
  <2>1. buf' = buf /\ Active(b) /\ ToSet(job.todo) = {} /\ ToSet(job.rest) = {}
    BY <1>2 DEF PollEnd, Finished, heapVars, Active, ToSet
  <2>2. Maintained(b) /\ ~Ahead(b)
    BY <1>1, <2>1 DEF Ahead
  <2>3. Beyond(b, job.now)
    BY <1>2, <2>1, <2>2 DEF PollInv, Regular
  <2>4. QED BY <1>2, <2>1, <2>3 DEF Beyond, Deadline
<1>3. CASE tick' - lag' = tick - lag
  <2>1. CASE Kept(b)
    <3>1. Active(b) /\ Maintained(b) /\ Deadline(b)' = Deadline(b)
      BY <1>1, <2>1 DEF Kept, Aged, Active, Deadline
    <3>2. Beyond(b, tick - lag)
      BY <3>1 DEF PollInv, Regular
    <3>3. QED BY <1>3, <3>1, <3>2 DEF Beyond
  <2>2. CASE Repolled(b) \/ Renewed(b) \/ DatedByUnmap(b) \/ RefreshedAll(b) \/ Born(b)
    <3>1. buf'[b].lastWrite >= tick - lag
      BY <1>0, <2>2 DEF Repolled, Renewed, DatedByUnmap, RefreshedAll, Born, Aged, Working
    <3>2. Deadline(b)' = kInfinite \/ Deadline(b)' > (tick - lag) + PollGuard
      BY <1>0, <3>1, DatedBeyond DEF Beyond
    <3>3. QED BY <1>3, <3>2 DEF Beyond
  <2>3. CASE Given(b) \/ Lapsed(b)
    BY <2>3 DEF Given, Lapsed
  <2>4. QED BY <2>1, <2>2, <2>3, Fates DEF Fate
<1>4. QED BY <1>2, <1>3, PollNumbers DEF PollInv

\* What poll has visited and keeps has its deadline beyond its reading.
LEMMA VisitedBeyond ==
  ASSUME Shape, VectorsMatchOwners, AgeInv, PollInv, ~BackendMayFail, job.op = "poll", PollStep,
         [Next]_vars, Shape', NEW b \in Buffer, b = Current, buf'[b].state = "ACTIVE", Maintained(b)'
  PROVE  Beyond(b, job.now)'
<1>0. /\ buf[b] \in Slot /\ buf'[b] \in Slot
      /\ buf[b].map = {} /\ ~Mapped(b)
  BY DEF Shape, BufShape, PollInv, NothingMapped, Mapped
<1>1. /\ job'.now = job.now /\ job.now \in Nat /\ PollGuard \in Nat
      /\ tick \in Nat /\ tick' \in Nat /\ tick <= tick' /\ job.now <= tick
  BY ClockMoves, OptionsAssumption DEF Shape, JobShape, Job, PollStep, Continue, AgeInv, Polling
<1>2. ASSUME buf'[b].lastWrite >= job.now
      PROVE  Beyond(b, job.now)'
  <2>1. Deadline(b)' = kInfinite \/ Deadline(b)' > job.now + PollGuard
    BY <1>0, <1>1, <1>2, DatedBeyond DEF Beyond
  <2>2. QED BY <1>1, <2>1, Zenon DEF Beyond
<1>3. ASSUME UNCHANGED <<tick, heapVars>>
      PROVE  buf' = buf /\ Active(b) /\ Maintained(b)
  <2>1. buf' = buf /\ Active(b)
    BY <1>3 DEF heapVars, Active
  <2>2. policy'[buf'[b].owner] = policy[buf'[b].owner]
    BY <1>0, <2>1, PolicyKept DEF Slot, Active
  <2>3. QED BY <2>1, <2>2 DEF Maintained
<1>4. CASE PollSkip(b)
  <2>1. buf' = buf /\ Active(b) /\ Maintained(b)
    BY <1>3, <1>4 DEF PollSkip
  <2>2. ~Overdue(b, job.now) /\ ~Due(b)
    BY <1>0, <1>4, <2>1 DEF PollSkip, Maintained
  <2>3. Deadline(b) = kInfinite \/ ~(Deadline(b) - job.now <= PollGuard)
    BY <1>0, <2>1, <2>2 DEF Due
  <2>4. Deadline(b) \in Nat
    BY <1>0, OptionsAssumption DEF Slot, Deadline
  <2>5. Deadline(b) = kInfinite \/ Deadline(b) > job.now + PollGuard
    BY <1>1, <2>3, <2>4
  <2>6. Deadline(b)' = Deadline(b)
    BY <2>1 DEF Deadline
  <2>7. QED BY <1>1, <2>5, <2>6 DEF Beyond
<1>5. CASE Dated(b, job.now)
  BY <1>0, <1>1, <1>2, <1>5, DatedAges DEF Aged
<1>6. CASE Valid(b) /\ Retag(b, policy[buf[b].owner].target)
  <2>1. buf'[b].lastWrite = tick'
    <3>1. CASE Dated(b, tick')
      BY <1>0, <3>1, DatedAges DEF Aged
    <3>2. CASE \E c : buf' = [buf EXCEPT ![b] = Retagged(@, c, tick')]
      BY <1>0, <3>2 DEF Retagged, Slot, Shape, BufShape
    <3>3. QED BY <1>6, <3>1, <3>2 DEF Retag
  <2>2. QED BY <1>1, <1>2, <2>1
<1>7. CASE /\ policy[buf[b].owner].action = "PROMOTE" /\ policy[buf[b].owner].required
           /\ UNCHANGED <<tick, heapVars>>
  BY <1>3, <1>7 DEF Maintained
<1>8. ASSUME NEW s \in {"INVALID", "EXPIRED"}, Release(b, s)
      PROVE  FALSE
  <2>1. buf'[b] = Released(buf[b], s)
    BY <1>8 DEF Release, Shape, BufShape
  <2>2. buf'[b].state = s
    BY <1>0, <2>1 DEF Released, Slot
  <2>3. QED BY <2>2
<1>9. \/ PollSkip(b) \/ Release(b, "EXPIRED") \/ Release(b, "INVALID") \/ Dated(b, job.now)
      \/ Valid(b) /\ Retag(b, policy[buf[b].owner].target)
      \/ /\ policy[buf[b].owner].action = "PROMOTE" /\ policy[buf[b].owner].required
         /\ UNCHANGED <<tick, heapVars>>
  BY DEF PollStep, PollExpire, PollInvalidate, PollRefresh, PollPromote, MigrateFails
<1>10. QED BY <1>4, <1>5, <1>6, <1>7, <1>8, <1>9

\* Poll leaves every maintained buffer that it has visited with such a deadline.
LEMMA BeyondVisited ==
  ASSUME Shape, VectorsMatchOwners, StorageReturned, AgeInv, PollInv, ~BackendMayFail,
         PolledNext \/ UNCHANGED <<vars, lag>>, [Next]_vars, Shape', NEW b \in Buffer,
         buf'[b].state = "ACTIVE", Maintained(b)', job'.op = "poll", ~Ahead(b)'
  PROVE  Beyond(b, job.now)'
<1>0. /\ job \in Job /\ regions \in Seq(Region) /\ buffers \in [Region -> Seq(Buffer)]
      /\ job.todo \in Seq(Buffer) /\ job.rest \in Seq(Region)
      /\ \A x \in Buffer : buf[x].state # "FREE" => buf[x].owner \in Region
  BY DEF Shape, OwnerShape, BufShape, JobShape, Job
<1>1. buf'[b].owner = buf[b].owner => Maintained(b)
  BY PolicyKept DEF Maintained
<1>2. ASSUME buf' = buf
      PROVE  Active(b) /\ buf[b].owner \in Region /\ open[buf[b].owner] /\ Maintained(b)
             /\ b \in ToSet(buffers[buf[b].owner]) /\ buf[b].owner \in ToSet(regions)
  <2>1. Active(b) /\ buf[b].owner \in Region /\ Maintained(b) /\ buf[b].state # "FREE"
    BY <1>0, <1>1, <1>2 DEF Active
  <2>2. b \in ToSet(buffers[buf[b].owner]) /\ open[buf[b].owner]
    BY <2>1 DEF VectorsMatchOwners, StorageReturned
  <2>3. buf[b].owner \in ToSet(regions)
    BY <2>1, <2>2 DEF VectorsMatchOwners
  <2>4. QED BY <2>1, <2>2, <2>3
<1>3. ASSUME job.op = "poll", buf'[b] = buf[b], ~Ahead(b), job'.now = job.now
      PROVE  Beyond(b, job.now)'
  <2>1. Active(b) /\ Maintained(b)
    BY <1>1, <1>3 DEF Active
  <2>2. Beyond(b, job.now)
    BY <1>3, <2>1 DEF PollInv, Regular
  <2>3. QED BY <1>3, <2>2 DEF Beyond, Deadline
<1>4. CASE Poll
  <2>1. buf' = buf /\ job'.rest = regions
    BY <1>4 DEF Poll, Idle, heapVars
  <2>2. QED BY <1>2, <2>1 DEF Ahead
<1>5. CASE job.op = "poll" /\ NextRegion
  <2> DEFINE r == Head(job.rest)
  <2>1. /\ job'.now = job.now /\ job'.rest = Tail(job.rest) /\ buf' = buf
        /\ job'.todo = IF ~open[r] THEN <<>> ELSE buffers[r]
        /\ ToSet(job.todo) = {}
    BY <1>0, <1>5 DEF NextRegion, heapVars, Job, ToSet
  <2>2. ToSet(job.rest) = {r} \cup ToSet(Tail(job.rest))
    BY <1>0, <1>5, HeadOff DEF NextRegion
  <2>3. ~Ahead(b)
    BY <1>2, <2>1, <2>2 DEF Ahead
  <2>4. QED BY <1>3, <1>5, <2>1, <2>3
<1>6. CASE job.op = "poll" /\ PollStep
  <2>1. /\ job'.now = job.now /\ job'.rest = job.rest /\ job'.todo = Tail(job.todo)
        /\ job.todo # <<>>
    BY <1>0, <1>6 DEF PollStep, Continue, Working, Job
  <2>2. Current \in Buffer /\ ToSet(job.todo) = {Current} \cup ToSet(Tail(job.todo))
    BY <1>0, <2>1, HeadOff DEF Current
  <2>3. CASE b = Current
    BY <1>6, <2>3, VisitedBeyond
  <2>4. CASE b # Current
    <3>1. buf'[b] = buf[b]
      BY <1>6, <2>2, <2>4, OthersStay
    <3>2. ~Ahead(b)
      BY <2>1, <2>2, <2>4, <3>1 DEF Ahead
    <3>3. QED BY <1>3, <1>6, <2>1, <3>1, <3>2
  <2>5. QED BY <2>3, <2>4
<1>7. CASE job.op = "poll" /\ UNCHANGED <<job, heapVars>>
  <2>1. buf' = buf /\ job' = job
    BY <1>7 DEF heapVars
  <2>2. ~Ahead(b)
    BY <2>1 DEF Ahead
  <2>3. QED BY <1>3, <1>7, <2>1, <2>2
<1>8. QED BY <1>4, <1>5, <1>6, <1>7, PollGoesOn

LEMMA RegularStep ==
  ASSUME Shape, VectorsMatchOwners, StorageReturned, AgeInv, PollInv, ~BackendMayFail,
         PolledNext \/ UNCHANGED <<vars, lag>>, [Next]_vars, Shape'
  PROVE  Regular'
<1>1. lag' \in Nat /\ lag' <= tick' /\ lag' <= PollGuard
  BY PollNumbers DEF PollInv
<1>2. ASSUME job'.op = "poll"
      PROVE  tick' - lag' <= job'.now
  <2>1. tick \in Nat /\ lag \in Nat /\ (job.op = "poll" => tick - lag <= job.now)
    BY PollNumbers DEF PollInv
  <2>2. tick' - lag' = tick - lag
    BY <1>2, PollNumbers DEF PollInv, PollEnd, Idle
  <2>3. job'.now = tick \/ (job.op = "poll" /\ job'.now = job.now)
    BY <1>2, PollGoesOn DEF Poll, NextRegion, PollStep, Continue, Idle, Shape, JobShape, Job
  <2>4. QED BY <2>1, <2>2, <2>3
<1>3. ASSUME NEW b \in Buffer, Active(b)', Maintained(b)'
      PROVE  /\ Beyond(b, tick - lag)'
             /\ job'.op = "poll" /\ ~Ahead(b)' => Beyond(b, job.now)'
  <2>1. buf'[b].state = "ACTIVE"
    BY <1>3 DEF Active
  <2>2. QED BY <1>3, <2>1, BeyondReading, BeyondVisited
<1>4. QED BY <1>1, <1>2, <1>3 DEF Regular

LEMMA PollAlways ==
  ASSUME MapModes = {}, ~BackendMayFail
  PROVE  PolledSpec => []PollInv
<1>1. PolledInit => Init
  BY DEF PolledInit
<1>2. [PolledNext]_<<vars, lag>> => [Next]_vars
  BY DEF PolledNext
<1>3. PolledInit => PollInv
  BY OptionsAssumption DEF PolledInit, Init, PollInv, NothingMapped, Mapped, Regular,
     MaintainedNeverExpires, FreeSlot, Idle, Active
<1>4. /\ Shape /\ VectorsMatchOwners /\ StorageReturned /\ AgeInv /\ PollInv /\ Shape'
      /\ [PolledNext]_<<vars, lag>>
      => PollInv'
  BY <1>2, NoMapping, RegularStep, MaintainedStep DEF PollInv
<1>5. IInv => Shape /\ StorageReturned
  BY DEF IInv, Owners
<1>6. Spec => [](Shape /\ VectorsMatchOwners /\ StorageReturned /\ AgeInv)
  BY <1>5, AgesAlways, Invariance, PTL
<1>7. QED BY <1>1, <1>2, <1>3, <1>4, <1>6, PTL DEF PolledSpec, Spec

\* An application that does not map buffers, and polls so often that the clock never
\* gets further than the guard past the last completed poll, loses no buffer that
\* it has refreshed, or promoted with refresh as the fallback: by either clock, for any
\* number of buffers and whatever calls change their class and age in between
\* (rtmem.cpp:290-338).
THEOREM MaintainedCorrect ==
  ASSUME MapModes = {}, ~BackendMayFail
  PROVE  PolledSpec => []MaintainedNeverExpires
BY PollAlways, PTL DEF PollInv
=============================================================================
