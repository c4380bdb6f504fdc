----------------------------- MODULE XrtBackend -----------------------------
(***************************************************************************)
(* One buffer on the XRT backend (backend_xrt.cpp): an XRT buffer object has *)
(* a host copy, which mappings expose, and device memory in the group of    *)
(* the buffer's class; sync calls copy the logical bytes from one to the    *)
(* other, and migration copies device memory by whole words into the device *)
(* memory of a new object.  The runtime's BUSY and ACTIVE checks around the *)
(* backend calls are those of RetentionRuntime; buffers do not share state, *)
(* so one is enough.                                                        *)
(***************************************************************************)
EXTENDS Naturals

CONSTANTS
  SizeBytes,      \* logical size of the buffer
  kWordBytes,     \* bytes the kernel moves at a time
  Value, Zero,    \* what a byte holds; Zero is what rt_alloc fills in
  Undefined,      \* what memory nobody has written holds
  MapModes,       \* the map flags the application uses
  FlushAnytime,   \* it flushes or fences outside mappings for read and write
  DeviceStores,   \* its own kernels write the buffer's device memory
  SyncMayFail     \* a sync or an allocation of the device may throw

Class == 0..2
Offset == 0..(SizeBytes - 1)

\* round_to_words, without its overflow check.
PhysicalSize == ((SizeBytes + kWordBytes - 1) \div kWordBytes) * kWordBytes
Address == 0..(PhysicalSize - 1)

ASSUME SizeAssumption == SizeBytes \in Nat \ {0} /\ kWordBytes \in Nat \ {0}
ASSUME ValueAssumption == Zero \in Value /\ Undefined \notin Value
ASSUME UseAssumption ==
  /\ MapModes \subseteq (SUBSET {"R", "W"}) \ {{}}
  /\ FlushAnytime \in BOOLEAN /\ DeviceStores \in BOOLEAN /\ SyncMayFail \in BOOLEAN

VARIABLES
  class,     \* buffer->retention_class, the memory group of the object
  mode,      \* buffer->map_flags
  host,      \* the object's host copy, xrt_allocation::mapped()
  device,    \* the object's device memory
  expected   \* history: the last value the application stored at each offset

vars == <<class, mode, host, device, expected>>

Init ==
  /\ class \in Class /\ mode = {}
  /\ host = [a \in Address |-> Zero] /\ device = [a \in Address |-> Zero]
  /\ expected = [i \in Offset |-> Zero]

\* bo.sync over the logical size.
Synced(to, from) == [a \in Address |-> IF a \in Offset THEN from[a] ELSE to[a]]

\* Mapping for read, and only that, brings the host copy up to date.
Map(flags) ==
  /\ mode = {} /\ mode' = flags
  /\ host' = IF "R" \in flags THEN Synced(host, device) ELSE host
  /\ UNCHANGED <<class, device, expected>>

\* The application stores through the mapped pointer.
HostStore(i, v) ==
  /\ "W" \in mode
  /\ host' = [host EXCEPT ![i] = v] /\ expected' = [expected EXCEPT ![i] = v]
  /\ UNCHANGED <<class, mode, device>>

\* An application kernel stores through rt_buffer_device_address, between mappings.
DeviceStore(i, v) ==
  /\ DeviceStores /\ mode = {}
  /\ device' = [device EXCEPT ![i] = v] /\ expected' = [expected EXCEPT ![i] = v]
  /\ UNCHANGED <<class, mode, host>>

\* Slip: the write-back is left to a later flush.
UnmapLazy == mode # {} /\ mode' = {} /\ UNCHANGED <<class, host, device, expected>>

\* A write mapping is synced back, a read mapping just closed.
Unmap ==
  /\ mode # {} /\ mode' = {}
  /\ device' = IF "W" \in mode THEN Synced(device, host) ELSE device
  /\ UNCHANGED <<class, host, expected>>

Flush ==
  /\ FlushAnytime \/ mode = {"R", "W"}
  /\ device' = Synced(device, host)
  /\ UNCHANGED <<class, mode, host, expected>>

\* Slip: the number of words is rounded down.
KernelFloor(source) ==
  [a \in Address |-> IF a < (SizeBytes \div kWordBytes) * kWordBytes THEN source[a] ELSE Undefined]

\* rtmem_migrate copies PhysicalSize / kWordBytes words.
Kernel(source) ==
  [a \in Address |-> IF a < (PhysicalSize \div kWordBytes) * kWordBytes THEN source[a] ELSE Undefined]

\* reclassify_locked with a new class: the new object's host copy is not written.
Migrate(destination) ==
  /\ mode = {} /\ destination # class
  /\ class' = destination
  /\ device' = Kernel(device)
  /\ host' = [a \in Address |-> Undefined]
  /\ UNCHANGED <<mode, expected>>

\* A sync that throws may have moved some of the bytes.  The runtime reports
\* RT_ERROR_BACKEND: a map did not open, an unmap left the buffer mapped.
MapFails(moved) ==
  /\ SyncMayFail /\ mode = {}
  /\ \E flags \in MapModes : "R" \in flags
  /\ host' = [a \in Address |-> IF a \in moved THEN device[a] ELSE host[a]]
  /\ UNCHANGED <<class, mode, device, expected>>

WriteBackFails(moved) ==
  /\ SyncMayFail /\ ("W" \in mode \/ FlushAnytime)
  /\ device' = [a \in Address |-> IF a \in moved THEN host[a] ELSE device[a]]
  /\ UNCHANGED <<class, mode, host, expected>>

Next ==
  \/ \E flags \in MapModes : Map(flags)
  \/ \E i \in Offset, v \in Value : HostStore(i, v) \/ DeviceStore(i, v)
  \/ Unmap \/ Flush
  \/ \E moved \in SUBSET Offset : MapFails(moved) \/ WriteBackFails(moved)
  \/ \E c \in Class : Migrate(c)

Spec == Init /\ [][Next]_vars

-----------------------------------------------------------------------------
Byte == Value \cup {Undefined}

\* Variables stay in their types, padding and fresh objects included.
TypeOK ==
  /\ class \in Class /\ mode \in SUBSET {"R", "W"}
  /\ host \in [Address -> Byte] /\ device \in [Address -> Byte]
  /\ expected \in [Offset -> Value]

\* The application keeps to mappings that read before they write.
Disciplined == ~FlushAnytime /\ \A flags \in MapModes : "R" \in flags

\* Between mappings the device holds what the application stored last, through
\* any series of migrations, flushes and mappings (backend_xrt.cpp:113-191).
Intact == mode = {} => \A i \in Offset : device[i] = expected[i]

\* A mapping shows what the application stored last.
MappingCurrent == mode # {} => \A i \in Offset : host[i] = expected[i]

\* The host copy while it is the one being written, the device's otherwise.
Contents == [i \in Offset |-> IF "W" \in mode THEN host[i] ELSE device[i]]

Promise == INSTANCE BufferContents WITH contents <- Contents

\* The object behaves as the plain array of bytes of BufferContents.
KeepsPromise == Promise!Spec
=============================================================================
