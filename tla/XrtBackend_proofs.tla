-------------------------- MODULE XrtBackend_proofs --------------------------
(* For buffers and word sizes of any size: a disciplined application finds   *)
(* in its buffer what it stored, and sees the plain array of BufferContents. *)
EXTENDS XrtBackend, TLAPS

\* Rounding up to words loses no byte, and leaves whole words.
LEMMA RoundingCovers ==
  /\ PhysicalSize \in Nat /\ SizeBytes <= PhysicalSize
  /\ (PhysicalSize \div kWordBytes) * kWordBytes = PhysicalSize
<1> DEFINE s == SizeBytes + kWordBytes - 1
           q == s \div kWordBytes
<1>1. s \in Nat /\ kWordBytes \in Nat /\ kWordBytes > 0 /\ SizeBytes \in Nat
  BY SizeAssumption
<1>2. q \in Nat /\ q * kWordBytes <= s /\ s < q * kWordBytes + kWordBytes
  <2> HIDE DEF s
  <2>1. QED BY <1>1
<1>3. (q * kWordBytes) \div kWordBytes = q
  <2> HIDE DEF q
  <2>1. QED BY <1>1, <1>2
<1>4. PhysicalSize = q * kWordBytes
  BY DEF PhysicalSize
<1>5. q * kWordBytes \in Nat
  <2> HIDE DEF q
  <2>1. QED BY <1>1, <1>2
<1>6. QED BY <1>1, <1>2, <1>3, <1>4, <1>5

\* Logical offsets are addresses, and all addresses are in whole words.
LEMMA AddressFacts ==
  /\ Offset \subseteq Address
  /\ \A a \in Address : a < (PhysicalSize \div kWordBytes) * kWordBytes
BY RoundingCovers, SizeAssumption DEF Offset, Address

\* The kernel is a copy: no byte of the last, partial word is left behind.
LEMMA KernelCopies ==
  ASSUME NEW source \in [Address -> Byte]
  PROVE  Kernel(source) = source
BY AddressFacts DEF Kernel

\* A sync makes the logical bytes equal and leaves memory typed.
LEMMA SyncedType ==
  ASSUME NEW to \in [Address -> Byte], NEW from \in [Address -> Byte]
  PROVE  /\ Synced(to, from) \in [Address -> Byte]
         /\ \A i \in Offset : Synced(to, from)[i] = from[i]
BY AddressFacts DEF Synced

-----------------------------------------------------------------------------
\* Every step keeps every variable in its type.
THEOREM TypeCorrect == Spec => []TypeOK
<1>1. Init => TypeOK
  BY ValueAssumption DEF Init, TypeOK, Byte
<1>2. TypeOK /\ [Next]_vars => TypeOK'
  <2> SUFFICES ASSUME TypeOK, [Next]_vars PROVE TypeOK'
    OBVIOUS
  <2> USE DEF TypeOK
  <2>1. ASSUME NEW flags \in MapModes, Map(flags) PROVE TypeOK'
    BY <2>1, SyncedType, UseAssumption DEF Map
  <2>2. ASSUME NEW i \in Offset, NEW v \in Value, HostStore(i, v) PROVE TypeOK'
    BY <2>2 DEF HostStore, Byte
  <2>3. ASSUME NEW i \in Offset, NEW v \in Value, DeviceStore(i, v) PROVE TypeOK'
    BY <2>3 DEF DeviceStore, Byte
  <2>4. CASE Unmap
    BY <2>4, SyncedType DEF Unmap
  <2>5. CASE Flush
    BY <2>5, SyncedType DEF Flush
  <2>6. ASSUME NEW moved \in SUBSET Offset, MapFails(moved) PROVE TypeOK'
    BY <2>6 DEF MapFails
  <2>7. ASSUME NEW moved \in SUBSET Offset, WriteBackFails(moved) PROVE TypeOK'
    BY <2>7 DEF WriteBackFails
  <2>8. ASSUME NEW c \in Class, Migrate(c) PROVE TypeOK'
    BY <2>8, KernelCopies DEF Migrate, Byte
  <2>9. CASE UNCHANGED vars
    BY <2>9 DEF vars
  <2>10. QED
    BY <2>1, <2>2, <2>3, <2>4, <2>5, <2>6, <2>7, <2>8, <2>9 DEF Next
<1>3. QED BY <1>1, <1>2, PTL DEF Spec

-----------------------------------------------------------------------------
\* Intact speaks of unmapped buffers only.  It is inductive together with what
\* holds while a mapping is open: the host copy is current, and so is the device
\* unless the mapping may write.
Coherent ==
  /\ MappingCurrent
  /\ "W" \notin mode => \A i \in Offset : device[i] = expected[i]

\* A disciplined application finds what it stored, whatever migrations, flushes
\* and failed syncs come in between.
THEOREM DisciplinedIntact ==
  ASSUME Disciplined
  PROVE  Spec => [](Intact /\ MappingCurrent)
<1> USE DEF Coherent, MappingCurrent
<1>1. Init => Coherent
  BY AddressFacts DEF Init
<1>2. TypeOK /\ Coherent /\ [Next]_vars => Coherent'
  <2> SUFFICES ASSUME TypeOK, Coherent, [Next]_vars PROVE Coherent'
    OBVIOUS
  <2> USE AddressFacts DEF TypeOK
  <2>1. ASSUME NEW flags \in MapModes, Map(flags) PROVE Coherent'
    BY <2>1, SyncedType DEF Map, Disciplined
  <2>2. ASSUME NEW i \in Offset, NEW v \in Value, HostStore(i, v) PROVE Coherent'
    BY <2>2 DEF HostStore
  <2>3. ASSUME NEW i \in Offset, NEW v \in Value, DeviceStore(i, v) PROVE Coherent'
    BY <2>3 DEF DeviceStore
  <2>4. CASE Unmap
    BY <2>4, SyncedType DEF Unmap
  <2>5. CASE Flush
    BY <2>5, SyncedType DEF Flush, Disciplined
  <2>6. ASSUME NEW moved \in SUBSET Offset, MapFails(moved) PROVE Coherent'
    BY <2>6 DEF MapFails
  <2>7. ASSUME NEW moved \in SUBSET Offset, WriteBackFails(moved) PROVE Coherent'
    BY <2>7 DEF WriteBackFails, Disciplined
  <2>8. ASSUME NEW c \in Class, Migrate(c) PROVE Coherent'
    BY <2>8, KernelCopies DEF Migrate
  <2>9. CASE UNCHANGED vars
    BY <2>9 DEF vars
  <2>10. QED
    BY <2>1, <2>2, <2>3, <2>4, <2>5, <2>6, <2>7, <2>8, <2>9 DEF Next
<1>3. Coherent => Intact
  BY DEF Intact
<1>4. QED BY <1>1, <1>2, <1>3, TypeCorrect, PTL DEF Spec

-----------------------------------------------------------------------------
\* To a disciplined application the buffer is a plain array of bytes: opening,
\* closing and storing are the steps of BufferContents, and migrations, flushes and
\* failed syncs are not steps at all.
THEOREM DisciplinedRefines ==
  ASSUME Disciplined
  PROVE  Spec => KeepsPromise
<1>1. Init => Promise!Init
  BY AddressFacts DEF Init, Promise!Init, Contents
<1>2. TypeOK /\ TypeOK' /\ [Next]_vars => [Promise!Next]_<<Contents, mode>>
  <2> SUFFICES ASSUME TypeOK, TypeOK', [Next]_vars PROVE [Promise!Next]_<<Contents, mode>>
    OBVIOUS
  <2> USE AddressFacts DEF TypeOK, Contents
  <2>1. ASSUME NEW flags \in MapModes, Map(flags) PROVE Promise!Open(flags)
    BY <2>1, SyncedType DEF Map, Disciplined, Promise!Open
  <2>2. ASSUME NEW i \in Offset, NEW v \in Value, HostStore(i, v) PROVE Promise!Store(i, v)
    BY <2>2 DEF HostStore, Promise!Store
  <2>3. ASSUME NEW i \in Offset, NEW v \in Value, DeviceStore(i, v) PROVE Promise!Store(i, v)
    BY <2>3 DEF DeviceStore, Promise!Store
  <2>4. CASE Unmap
    <3>1. Promise!Close
      BY <2>4, SyncedType DEF Unmap, Promise!Close
    <3>2. QED BY <3>1 DEF Promise!Next
  <2>5. CASE Flush
    BY <2>5, SyncedType DEF Flush, Disciplined
  <2>6. ASSUME NEW moved \in SUBSET Offset, MapFails(moved) PROVE UNCHANGED <<Contents, mode>>
    BY <2>6 DEF MapFails
  <2>7. ASSUME NEW moved \in SUBSET Offset, WriteBackFails(moved)
        PROVE  UNCHANGED <<Contents, mode>>
    BY <2>7 DEF WriteBackFails, Disciplined
  <2>8. ASSUME NEW c \in Class, Migrate(c) PROVE UNCHANGED <<Contents, mode>>
    BY <2>8, KernelCopies DEF Migrate
  <2>9. CASE UNCHANGED vars
    BY <2>9 DEF vars
  <2>10. QED
    BY <2>1, <2>2, <2>3, <2>4, <2>5, <2>6, <2>7, <2>8, <2>9, UseAssumption DEF Next, Promise!Next
<1>3. QED BY <1>1, <1>2, TypeCorrect, PTL DEF Spec, KeepsPromise, Promise!Spec
=============================================================================
