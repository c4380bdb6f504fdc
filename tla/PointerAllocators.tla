------------------------- MODULE PointerAllocators -------------------------
(***************************************************************************)
(* Calls that take the mutex of the runtime more than once, over one region *)
(* of a host-coherent runtime whose buffers are not maintained (RT_EXPIRY_- *)
(* ERROR): rt_region_malloc and rt_region_free_pointer, rt_buffer_read_bytes *)
(* and rt_buffer_write_bytes, and the memory resource of the C++ API.  A    *)
(* step is what one holder of the mutex does, or a copy without it; other   *)
(* threads poll, refresh the region or use the handle in between.           *)
(*                                                                         *)
(* Storage is freed when its buffer expires, and malloc may hand out its    *)
(* address again: pointers are addresses, and contents follows what is at   *)
(* each.  The application does not use a handle it has freed.               *)
(***************************************************************************)
EXTENDS Naturals, FiniteSets

CONSTANTS
  Thread, Handle, Address,
  Retention,   \* class_retention_ticks of the region's class
  MaxTick,     \* BOUND on the clock
  Nil          \* a null pointer, an absent entry

ASSUME AllocatorAssumption ==
  /\ Handle \subseteq Nat /\ Retention \in Nat \ {0} /\ MaxTick \in Nat
  /\ Nil \notin Handle \cup Address

VARIABLES
  tick,
  buf,        \* region->buffers in the order of the handles, each used once (BOUND),
              \* with the last value stored in each while it had its storage
  table,      \* retention_resource::impl::allocations
  call,       \* what each thread is in the middle of
  grants,     \* pointers the application holds
  contents,   \* what is stored at each address
  strayed     \* addresses written for a buffer that no longer owns them

memory == <<contents, strayed>>
vars == <<tick, buf, table, call, grants, memory>>

New == [state |-> "NEW", origin |-> Nil, address |-> Nil, exposed |-> Nil, map |-> {},
        written |-> 0, stored |-> Nil, contested |-> FALSE]
NoCall == [op |-> "none", at |-> "none", handle |-> Nil, whole |-> TRUE]

Init ==
  /\ tick = 0 /\ buf = [h \in Handle |-> New] /\ table = [a \in Address |-> Nil]
  /\ call = [t \in Thread |-> NoCall] /\ grants = {}
  /\ contents = [a \in Address |-> Nil] /\ strayed = {}

-----------------------------------------------------------------------------
(* The runtime under its mutex.                                              *)

Active(h) == buf[h].state = "ACTIVE"
Listed == {h \in Handle : buf[h].state \in {"ACTIVE", "EXPIRED"}}
First(S) == CHOOSE h \in S : \A k \in S : h <= k

Overdue(h) == Active(h) /\ tick >= buf[h].written + Retention

\* release_storage_locked: no longer mapped, and no longer found by its pointer.
Released(b, state) ==
  [b EXCEPT !.state = state, !.exposed = Nil, !.map = {}, !.written = 0, !.stored = Nil]

\* Slip: the pointer is still exposed.
ReleasedExposed(b) == [b EXCEPT !.state = "EXPIRED", !.map = {}]

Expired(b) == Released(b, "EXPIRED")

\* validate_active_locked expires an overdue buffer, mapped or not.
Validated(h) == IF Overdue(h) THEN Expired(buf[h]) ELSE buf[h]
Valid(h) == Active(h) /\ ~Overdue(h)

\* delete buffer
Deleted(h) == [buf EXCEPT ![h] = Released(@, "DELETED")]

\* rt_alloc: a new buffer, on any storage that is free.  It is contested when the
\* application still holds a pointer to that storage from before.
Allocated(h, origin, a) ==
  /\ h \in Handle /\ buf[h].state = "NEW" /\ \A k \in Handle : k < h => buf[k].state # "NEW"
  /\ \A k \in Handle : Active(k) => buf[k].address # a
  /\ buf' = [buf EXCEPT ![h] = [New EXCEPT !.state = "ACTIVE", !.origin = origin, !.address = a,
               !.written = tick, !.contested = \E g \in grants : g.address = a]]
  /\ contents' = [contents EXCEPT ![a] = Nil] /\ strayed' = strayed \ {a}

Alloc(h, a) == Allocated(h, "handle", a) /\ UNCHANGED <<tick, table, call, grants>>

InUse(h) == \E t \in Thread : call[t].handle = h

\* rt_buffer_free, of a handle no other call uses.
FreeHandle(h) ==
  /\ h \in Listed /\ buf[h].origin = "handle" /\ ~InUse(h)
  /\ buf' = Deleted(h) /\ UNCHANGED <<tick, table, call, grants, memory>>

\* rt_buffer_mark_written, of a handle that another thread may have mapped.
MarkWritten(h) ==
  /\ h \in Listed /\ buf[h].origin = "handle"
  /\ buf' = [buf EXCEPT ![h] = IF Valid(h) THEN [@ EXCEPT !.written = tick] ELSE Validated(h)]
  /\ UNCHANGED <<tick, table, call, grants, memory>>

\* rt_runtime_poll passes mapped buffers by.
Poll ==
  /\ buf' = [h \in Handle |-> IF Overdue(h) /\ buf[h].map = {} THEN Expired(buf[h]) ELSE buf[h]]
  /\ UNCHANGED <<tick, table, call, grants, memory>>

\* rt_region_refresh stops at the first buffer it cannot refresh; if that one is
\* overdue it expires, mapped or not.
RegionRefresh ==
  /\ LET stops == {h \in Listed : ~Valid(h) \/ buf[h].map # {}} IN
     buf' = [h \in Handle |->
               IF stops # {} THEN IF h = First(stops) THEN Validated(h) ELSE buf[h]
               ELSE IF h \in Listed THEN [buf[h] EXCEPT !.written = tick] ELSE buf[h]]
  /\ UNCHANGED <<tick, table, call, grants, memory>>

Advance == tick < MaxTick /\ tick' = tick + 1 /\ UNCHANGED <<buf, table, call, grants, memory>>

-----------------------------------------------------------------------------
(* Calls in several steps: at names the next one.                            *)

Call(op, h) == [NoCall EXCEPT !.op = op, !.handle = h, !.at = "map"]
Flags(op) == CASE op = "read" -> {"R"} [] op = "write" -> {"W"} [] OTHER -> {"R", "W"}

\* impl::mutex is held through the whole of do_allocate.
ResourceFree == \A t \in Thread : call[t].op # "resource"

\* rt_region_malloc and do_allocate begin with rt_alloc.
BeginAllocation(t, op, h, a) ==
  /\ call[t] = NoCall /\ op \in {"malloc", "resource"} /\ (op = "resource" => ResourceFree)
  /\ Allocated(h, op, a)
  /\ call' = [call EXCEPT ![t] = Call(op, h)] /\ UNCHANGED <<tick, table, grants>>

\* rt_buffer_read_bytes and rt_buffer_write_bytes, on handles.
BeginTransfer(t, op, h) ==
  /\ call[t] = NoCall /\ op \in {"read", "write"} /\ h \in Listed /\ buf[h].origin = "handle"
  /\ call' = [call EXCEPT ![t] = Call(op, h)] /\ UNCHANGED <<tick, buf, table, grants, memory>>

\* A call that fails returns; an allocation frees its buffer first.
FailsAt(t) ==
  IF call[t].op \in {"malloc", "resource"} THEN [call EXCEPT ![t].at = "free"]
  ELSE [call EXCEPT ![t] = NoCall]

\* Slip: a buffer that is mapped is mapped again.
MapsAgain(h) == TRUE
Unmapped(h) == buf[h].map = {}

CanMap(h) == Valid(h) /\ Unmapped(h)

\* rt_buffer_map exposes the pointer.
Map(t) ==
  LET h == call[t].handle IN
  /\ call[t].at = "map"
  /\ IF CanMap(h)
     THEN /\ buf' = [buf EXCEPT ![h].map = Flags(call[t].op), ![h].exposed = buf[h].address]
          /\ call' = [call EXCEPT ![t].at =
                        IF call[t].op \in {"read", "write"} THEN "copy" ELSE "unmap"]
     ELSE buf' = [buf EXCEPT ![h] = Validated(h)] /\ call' = FailsAt(t)
  /\ UNCHANGED <<tick, table, grants, memory>>

\* v is put at the address that h had, or still has.
PutAt(h, a, v) ==
  /\ contents' = [contents EXCEPT ![a] = v]
  /\ IF Active(h) THEN buf' = [buf EXCEPT ![h].stored = v] /\ UNCHANGED strayed
     ELSE strayed' = strayed \cup {a} /\ UNCHANGED buf

\* A copy taken now is what was last stored in the buffer, or a write strayed into it.
ReadsStored(h) ==
  Active(h) /\ (contents[buf[h].address] = buf[h].stored \/ buf[h].address \in strayed)

\* std::memcpy without the mutex: what it writes is whole only at its end.
Copy(t) ==
  LET h == call[t].handle  a == buf[h].address IN
  /\ \/ /\ call[t].at = "copy" /\ call[t].op = "read"
        /\ call' = [call EXCEPT ![t].at = "unmap", ![t].whole = ReadsStored(h)]
        /\ UNCHANGED <<buf, memory>>
     \/ /\ call[t].at = "copy" /\ call[t].op = "write"
        /\ call' = [call EXCEPT ![t].at = "copying"]
        /\ contents' = [contents EXCEPT ![a] = "torn"]
        /\ strayed' = IF Active(h) THEN strayed ELSE strayed \cup {a}
        /\ UNCHANGED buf
     \/ /\ call[t].at = "copying"
        /\ call' = [call EXCEPT ![t].at = "unmap"] /\ PutAt(h, a, t)
  /\ UNCHANGED <<tick, table, grants>>

\* The pointer is handed out; emplace leaves an entry with the same pointer as it is.
Granted(t) ==
  LET h == call[t].handle  a == buf[h].address IN
  /\ grants' = grants \cup {[handle |-> h, address |-> a, origin |-> call[t].op]}
  /\ table' = IF call[t].op = "resource" /\ table[a] = Nil THEN [table EXCEPT ![a] = h] ELSE table
  /\ call' = [call EXCEPT ![t] = NoCall]

\* rt_buffer_unmap does not look at the deadline.
Unmaps(h) == [buf EXCEPT ![h].map = {}, ![h].written = IF "W" \in buf[h].map THEN tick ELSE @]

StillMapped(h) == Active(h) /\ buf[h].map # {}

Unmap(t) ==
  LET h == call[t].handle  op == call[t].op IN
  /\ call[t].at = "unmap"
  /\ IF ~StillMapped(h) THEN call' = FailsAt(t) /\ UNCHANGED <<buf, table, grants>>
     ELSE /\ buf' = Unmaps(h)
          /\ \/ op \in {"malloc", "resource"} /\ Granted(t)
             \/ \* emplace throws
                op = "resource" /\ call' = FailsAt(t) /\ UNCHANGED <<table, grants>>
             \/ /\ op \in {"read", "write"}
                /\ call' = [call EXCEPT ![t].at = "record"] /\ UNCHANGED <<table, grants>>
  /\ UNCHANGED <<tick, memory>>

\* rt_buffer_trace_access validates once more: the copy is made, the answer may be
\* RT_ERROR_EXPIRED.
Record(t) ==
  LET h == call[t].handle IN
  /\ call[t].at = "record" /\ h \in Listed
  /\ buf' = [buf EXCEPT ![h] = Validated(h)]
  /\ call' = [call EXCEPT ![t] = NoCall] /\ UNCHANGED <<tick, table, grants, memory>>

\* Slip: an allocation that fails late leaves its buffer behind.
Kept(h) == buf
FreedOnFailure(h) == Deleted(h)

\* rt_buffer_free of an allocation that failed.
FreeFailed(t) ==
  /\ call[t].at = "free" /\ buf' = FreedOnFailure(call[t].handle)
  /\ call' = [call EXCEPT ![t] = NoCall] /\ UNCHANGED <<tick, table, grants, memory>>

-----------------------------------------------------------------------------
(* The application and its pointers.                                         *)

\* A write through a pointer, which does not ask whether the buffer is still there.
\* While it is, no call reads what is written.
Store(g) ==
  /\ ~Active(g.handle) /\ PutAt(g.handle, g.address, "app")
  /\ UNCHANGED <<tick, table, call, grants>>

Exposed(a) == {h \in Listed : buf[h].exposed = a}

\* Slip: a mapping does not keep a buffer from being freed by its pointer.
NeverBusy(h) == FALSE
Busy(h) == buf[h].map # {}

\* rt_region_free_pointer frees the first buffer that exposes the pointer; with none,
\* RT_ERROR_INVALID_ARGUMENT, and the pointer is of no more use.
FreePointer(g) ==
  /\ g.origin = "malloc"
  /\ \/ Exposed(g.address) = {} /\ grants' = grants \ {g} /\ UNCHANGED buf
     \/ /\ Exposed(g.address) # {} /\ ~Busy(First(Exposed(g.address)))
        /\ buf' = Deleted(First(Exposed(g.address))) /\ grants' = grants \ {g}
  /\ UNCHANGED <<tick, table, call, memory>>

\* Slip: a buffer that was freed stays in the table.
KeptInTable(a) == table
Erased(a) == [table EXCEPT ![a] = Nil]

\* do_deallocate frees the buffer the table has for the pointer, and ignores a pointer
\* it has none for.  With a deleted buffer there its behaviour is undefined.
Deallocate(g) ==
  /\ g.origin = "resource" /\ ResourceFree
  /\ table[g.address] # Nil => buf[table[g.address]].state # "DELETED"
  /\ buf' = IF table[g.address] = Nil THEN buf ELSE Deleted(table[g.address])
  /\ table' = Erased(g.address)
  /\ grants' = grants \ {g} /\ UNCHANGED <<tick, call, memory>>

-----------------------------------------------------------------------------
Step(t) ==
  \/ \E op \in {"malloc", "resource"}, h \in Handle, a \in Address : BeginAllocation(t, op, h, a)
  \/ \E op \in {"read", "write"}, h \in Handle : BeginTransfer(t, op, h)
  \/ Map(t) \/ Copy(t) \/ Unmap(t) \/ Record(t) \/ FreeFailed(t)

Next ==
  \/ \E t \in Thread : Step(t)
  \/ \E h \in Handle : FreeHandle(h) \/ MarkWritten(h) \/ \E a \in Address : Alloc(h, a)
  \/ \E g \in grants : FreePointer(g) \/ Deallocate(g) \/ Store(g)
  \/ Poll \/ RegionRefresh \/ Advance

Spec == Init /\ [][Next]_vars

-----------------------------------------------------------------------------
(* Properties.                                                               *)

Origins == {"handle", "malloc", "resource"}
Values == Thread \cup {Nil, "torn", "app"}
BufferType ==
  [state : {"NEW", "ACTIVE", "EXPIRED", "DELETED"}, origin : Origins \cup {Nil},
   address : Address \cup {Nil}, exposed : Address \cup {Nil}, map : SUBSET {"R", "W"},
   written : Nat, stored : Values, contested : BOOLEAN]
CallType ==
  [op : {"none", "malloc", "resource", "read", "write"}, handle : Handle \cup {Nil},
   at : {"none", "map", "copy", "copying", "unmap", "record", "free"},
   whole : BOOLEAN]

\* Variables stay in their types, and a pointer is exposed only to storage the buffer has
\* (rtmem.cpp:1207-1214).
AllocatorsTypeOK ==
  /\ tick \in 0..MaxTick /\ buf \in [Handle -> BufferType] /\ table \in [Address -> Handle \cup {Nil}]
  /\ call \in [Thread -> CallType] /\ strayed \subseteq Address
  /\ grants \subseteq [handle : Handle, address : Address, origin : Origins]
  /\ contents \in [Address -> Values]
  /\ \A h \in Handle : buf[h].exposed # Nil => Active(h) /\ buf[h].exposed = buf[h].address

\* Storage handed out again while the application held an older pointer to it.
Contested == {buf[h].address : h \in {k \in Handle : buf[k].contested}}

\* A buffer is not freed under a call that uses it: between map and unmap nobody else
\* maps, unmaps or frees it, only its expiry takes it away, and outside of them it is
\* freed only by an older pointer to the same storage (rtmem.cpp:1009-1081, 1442-1499).
CallsKeepBuffers ==
  \A t \in Thread : call[t] # NoCall =>
    LET h == call[t].handle IN
    IF call[t].at \in {"copy", "copying", "unmap"}
    THEN /\ buf[h].state = "EXPIRED" \/ (Active(h) /\ buf[h].map = Flags(call[t].op))
         /\ \A u \in Thread \ {t} :
              call[u].handle = h /\ Active(h) => call[u].at \notin {"copy", "copying", "unmap"}
    ELSE buf[h].state = "DELETED" => buf[h].address \in Contested

\* A read that is going to be answered read all of what was last written into the
\* buffer: never the middle of another thread's write, nor the storage of the buffer
\* that has the address now, unless a write strayed there (rtmem.cpp:1443-1499).
ReadsWhole ==
  \A t \in Thread :
    call[t].at = "record" /\ call[t].op = "read" => call[t].whole

\* A pointer the application holds is that of the buffer it was handed out for, and
\* freeing it frees that buffer; or the buffer expired, or another pointer to the
\* same storage was still held when it was handed out (rtmem.cpp:1047-1081,
\* rtmem_cpp.cpp:418-464).
PointersHold ==
  \A g \in grants :
    \/ buf[g.handle].state = "EXPIRED" \/ g.address \in Contested
    \/ Active(g.handle) /\ First(Exposed(g.address)) = g.handle
                        /\ (g.origin = "resource" => table[g.address] = g.handle)

\* No storage is lost: a buffer made for a pointer is being made, or the application
\* holds its pointer and freeing it reaches it, unless its storage was contested
\* (rtmem.cpp:1035-1043, rtmem_cpp.cpp:434-452).
NothingOrphaned ==
  \A h \in Handle :
    Active(h) /\ buf[h].origin # "handle" =>
      InUse(h) \/ buf[h].address \in Contested \/ \E g \in grants : g.handle = h
=============================================================================
