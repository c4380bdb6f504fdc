---------------------- MODULE PointerAllocators_proofs ----------------------
(***************************************************************************)
(* For every set of threads, buffers and addresses, and every retention:    *)
(* calls keep the buffers they use, reads are whole, pointers hold and no   *)
(* storage is lost.  A step expires buffers, allocates one, deletes one, or *)
(* takes a call from one of its points to the next.                         *)
(***************************************************************************)
EXTENDS PointerAllocators, TLAPS

Allocating == {"malloc", "resource"}
Holding == {"copy", "copying", "unmap"}

\* A buffer that was never allocated is as it was made; one that was has storage of
\* its own while it is active, and only then is mapped, with its pointer exposed.
Storage ==
  /\ \A h \in Handle : buf[h].state # "NEW" => buf[h].address \in Address
  /\ \A h \in Handle : buf[h].state = "NEW" => ~buf[h].contested
  /\ \A h \in Handle : buf[h].map # {} => Active(h) /\ buf[h].exposed = buf[h].address
  /\ \A h, k \in Handle : Active(h) /\ Active(k) /\ buf[h].address = buf[k].address => h = k

\* A call is at one of its points, over a buffer of its own kind; nothing else uses a
\* buffer that is being allocated.
Calls ==
  /\ \A t \in Thread : call[t] # NoCall =>
       /\ call[t].handle \in Handle /\ buf[call[t].handle].state # "NEW"
       /\ \/ /\ call[t].op \in Allocating /\ buf[call[t].handle].origin = call[t].op
             /\ call[t].at \in {"map", "unmap", "free"}
          \/ /\ call[t].op \in {"read", "write"} /\ buf[call[t].handle].origin = "handle"
             /\ call[t].at \in {"map", "copy", "unmap", "record"} \cup
                               (IF call[t].op = "write" THEN {"copying"} ELSE {})
  /\ \A t, u \in Thread : call[t].op \in Allocating /\ call[u].handle = call[t].handle => u = t

\* A pointer is that of its buffer, whose allocation is over; the buffers that took its
\* storage since were contested.
Grants ==
  \A g \in grants :
    /\ g.origin \in Allocating /\ buf[g.handle].state # "NEW"
    /\ buf[g.handle].origin = g.origin /\ buf[g.handle].address = g.address
    /\ ~InUse(g.handle)
    /\ \A h \in Handle : Active(h) /\ buf[h].address = g.address => h = g.handle \/ buf[h].contested
    /\ \A o \in grants : o.address = g.address => o = g \/ g.address \in Contested

\* An entry of the table is the buffer of a pointer that the resource gave out.
Table ==
  \A a \in Address : table[a] # Nil =>
    /\ buf[table[a]].state # "NEW" /\ buf[table[a]].origin = "resource"
    /\ buf[table[a]].address = a /\ ~InUse(table[a])
    /\ \E g \in grants : g.address = a /\ g.origin = "resource"

\* What PointersHold says, before First picks the only buffer there is to pick.
Reached ==
  \A g \in grants :
    \/ buf[g.handle].state = "EXPIRED" \/ g.address \in Contested
    \/ /\ Active(g.handle) /\ buf[g.handle].exposed = g.address
       /\ g.origin = "resource" => table[g.address] = g.handle

\* Unless it is being written, an active buffer holds what was stored in it; and a
\* read of a buffer that is still there was whole.
Copies ==
  /\ \A h \in Handle : Active(h) =>
       ReadsStored(h) \/ \E t \in Thread : call[t].handle = h /\ call[t].at = "copying"
  /\ \A t \in Thread : call[t].at = "unmap" /\ call[t].op = "read" /\ Active(call[t].handle) =>
       call[t].whole

IInv ==
  /\ AllocatorsTypeOK /\ Storage /\ Calls /\ CallsKeepBuffers
  /\ Grants /\ Table /\ Reached /\ NothingOrphaned
  /\ Copies /\ ReadsWhole

-----------------------------------------------------------------------------
(* What a step does to the buffers, and to the calls.                        *)

Alike(b, c) ==
  /\ c.state = b.state /\ c.origin = b.origin /\ c.address = b.address /\ c.exposed = b.exposed
  /\ c.map = b.map /\ c.stored = b.stored /\ c.contested = b.contested

Gone(b, c, state) ==
  /\ c.state = state /\ c.origin = b.origin /\ c.address = b.address /\ c.contested = b.contested
  /\ c.exposed = Nil /\ c.map = {}

\* Buffers are rewritten, or expire.
Aging ==
  /\ buf' \in [Handle -> BufferType]
  /\ \A h \in Handle : Alike(buf[h], buf'[h]) \/ (Active(h) /\ Gone(buf[h], buf'[h], "EXPIRED"))

\* Buffers are deleted, and with them entries of the table, pointers, and failed calls.
Deleting ==
  /\ buf' \in [Handle -> BufferType]
  /\ \A h \in Handle : buf'[h] = buf[h] \/ (buf[h].state # "NEW" /\ Gone(buf[h], buf'[h], "DELETED"))
  /\ call' \in [Thread -> CallType] /\ table' \in [Address -> Handle \cup {Nil}]
  /\ \A t \in Thread : call'[t] = call[t] \/ (call[t].at = "free" /\ call'[t] = NoCall)
  /\ \A a \in Address : table'[a] = table[a] \/ table'[a] = Nil
  /\ grants' \subseteq grants

\* A transfer returns, or an allocation fails: neither in the middle of a copy.
Leaving ==
  /\ call' \in [Thread -> CallType]
  /\ \A t \in Thread :
       \/ call'[t] = call[t]
       \/ call[t].op \in {"read", "write"} /\ call[t].at # "copying" /\ call'[t] = NoCall
       \/ call[t].op \in Allocating /\ call'[t] = [call[t] EXCEPT !.at = "free"]

\* A thread is in a call exactly when it has one to name.
LEMMA CallKinds ==
  ASSUME IInv, NEW t \in Thread
  PROVE  /\ (call[t] = NoCall) <=> (call[t].op = "none")
         /\ (call[t].op # "none") <=> call[t].op \in Allocating \cup {"read", "write"}
         /\ call[t] = NoCall => call[t].at = "none" /\ call[t].handle = Nil
         /\ call[t] # NoCall => call[t].handle \in Handle
<1>1. CASE call[t] = NoCall BY <1>1 DEF NoCall, Allocating
<1>2. CASE call[t] # NoCall
  <2>1. call[t].handle \in Handle /\ call[t].op \in Allocating \cup {"read", "write"}
    BY <1>2 DEF IInv, Calls
  <2> QED BY <2>1, <1>2 DEF Allocating
<1> QED BY <1>1, <1>2

\* The storage an address had stays contested.
LEMMA ContestedStays ==
  ASSUME \A h \in Handle : buf[h].contested => buf'[h].contested /\ buf'[h].address = buf[h].address
  PROVE  Contested \subseteq Contested'
BY DEF Contested

LEMMA AgingGood ==
  ASSUME IInv, Aging, Leaving, UNCHANGED <<table, grants, memory>>, tick' \in 0..MaxTick
  PROVE  IInv'
<1> USE DEF Alike, Gone, Active, memory
<1>1. \A h \in Handle :
        /\ buf'[h].address = buf[h].address /\ buf'[h].origin = buf[h].origin
        /\ buf'[h].contested = buf[h].contested
        /\ \A s \in {"NEW", "DELETED"} : (buf'[h].state = s) <=> (buf[h].state = s)
        /\ buf[h].state = "EXPIRED" => buf'[h].state = "EXPIRED"
        /\ Active(h)' => Active(h) /\ Alike(buf[h], buf'[h])
        /\ Active(h) => Active(h)' \/ buf'[h].state = "EXPIRED"
  BY DEF Aging
<1>2. Contested' = Contested
  BY <1>1 DEF Contested
<1>3. \A t \in Thread :
        \/ call'[t] = call[t]
        \/ call'[t] = NoCall /\ call[t].op \in {"read", "write"} /\ call[t].at # "copying"
        \/ /\ call'[t].op = call[t].op /\ call'[t].handle = call[t].handle
           /\ call'[t].at = "free" /\ call[t].op \in Allocating /\ call[t].op # "none"
           /\ call[t] # NoCall /\ call'[t] # NoCall
  BY CallKinds DEF Leaving, IInv, AllocatorsTypeOK, CallType, Allocating, NoCall
<1>4. \A h \in Handle : InUse(h)' => InUse(h)
  <2>1. NoCall.handle = Nil BY DEF NoCall
  <2>2. \A t \in Thread : call'[t].handle \in {call[t].handle, Nil} BY <1>3, <2>1
  <2> QED BY <2>2, AllocatorAssumption DEF InUse
<1>T. \A h \in Handle : InUse(h) /\ buf[h].origin # "handle" => InUse(h)'
  <2>1. \A t \in Thread : call[t].op \in {"read", "write"} => buf[call[t].handle].origin = "handle"
    BY CallKinds DEF IInv, Calls, Allocating
  <2>2. \A t \in Thread : buf[call[t].handle].origin # "handle" => call'[t].handle = call[t].handle
    BY <1>3, <2>1
  <2> QED BY <2>2 DEF InUse
<1>5. AllocatorsTypeOK'
  BY <1>1 DEF Aging, Leaving, IInv, AllocatorsTypeOK
<1>6. Storage'
  BY <1>1 DEF Aging, IInv, Storage
<1>7. Calls'
  <2>1. NoCall.handle = Nil /\ NoCall.op = "none" BY DEF NoCall
  <2>2. ASSUME NEW t \in Thread, call'[t] # NoCall
        PROVE  /\ call'[t].handle \in Handle /\ buf'[call'[t].handle].state # "NEW"
               /\ \/ /\ call'[t].op \in Allocating /\ buf'[call'[t].handle].origin = call'[t].op
                     /\ call'[t].at \in {"map", "unmap", "free"}
                  \/ /\ call'[t].op \in {"read", "write"} /\ buf'[call'[t].handle].origin = "handle"
                     /\ call'[t].at \in {"map", "copy", "unmap", "record"} \cup
                               (IF call'[t].op = "write" THEN {"copying"} ELSE {})
    <3>1. CASE call'[t] = call[t] BY <1>1, <2>2, <3>1 DEF IInv, Calls
    <3>2. CASE call'[t] # call[t] BY <1>1, <1>3, <2>2, <3>2 DEF IInv, Calls, Allocating
    <3> QED BY <3>1, <3>2
  <2>3. ASSUME NEW t \in Thread, NEW u \in Thread, call'[t].op \in Allocating,
               call'[u].handle = call'[t].handle
        PROVE  u = t
    <3>1. call[t].op \in Allocating /\ call[t] # NoCall /\ call'[t].handle = call[t].handle
      BY <2>3, <1>3, <2>1, CallKinds DEF Allocating
    <3>2. call[u].handle = call[t].handle
      BY <2>3, <3>1, <1>3, <2>1, CallKinds, AllocatorAssumption
    <3> QED BY <3>1, <3>2 DEF IInv, Calls
  <2> QED BY <2>2, <2>3 DEF Calls
<1>8. CallsKeepBuffers'
  <2>1. ASSUME NEW t \in Thread, call'[t] # NoCall, call'[t].at \in Holding
        PROVE  /\ call'[t] = call[t] /\ call[t].handle \in Handle /\ call[t].at \in Holding
               /\ LET h == call[t].handle IN
                  /\ buf'[h].state = "EXPIRED" \/ (Active(h)' /\ buf'[h].map = Flags(call[t].op))
                  /\ \A u \in Thread \ {t} : call[u].handle = h /\ Active(h)' => call[u].at \notin Holding
    <3>1. call'[t] = call[t] BY <2>1, <1>3 DEF Holding
    <3>2. call[t].handle \in Handle BY <2>1, <3>1, CallKinds
    <3> QED BY <2>1, <3>1, <3>2, <1>1 DEF IInv, CallsKeepBuffers, Holding
  <2>2. ASSUME NEW t \in Thread, call'[t] # NoCall, call'[t].at \in Holding,
               NEW u \in Thread \ {t}, call'[u].handle = call[t].handle, Active(call[t].handle)'
        PROVE  call'[u].at \notin Holding
    <3>1. CASE call'[u] = call[u] BY <2>2, <3>1, <2>1
    <3>2. CASE call'[u] # call[u] BY <2>2, <3>2, <1>3 DEF NoCall, Holding
    <3> QED BY <3>1, <3>2
  <2>3. ASSUME NEW t \in Thread, call'[t] # NoCall, call'[t].at \notin Holding,
               buf'[call'[t].handle].state = "DELETED"
        PROVE  buf'[call'[t].handle].address \in Contested'
    <3>1. call[t] # NoCall /\ call'[t].handle = call[t].handle /\ call[t].handle \in Handle
      BY <2>3, <1>3, CallKinds
    <3>2. buf[call[t].handle].state = "DELETED" BY <2>3, <3>1, <1>1
    <3> QED BY <2>3, <3>1, <3>2, <1>1, <1>2 DEF IInv, CallsKeepBuffers, Holding
  <2> QED BY <2>1, <2>2, <2>3 DEF CallsKeepBuffers, Holding
<1>9. Grants'
  BY <1>1, <1>2, <1>4 DEF IInv, Grants, AllocatorsTypeOK
<1>10. Table'
  BY <1>1, <1>4 DEF IInv, Table, AllocatorsTypeOK
<1>11. Reached'
  BY <1>1, <1>2 DEF IInv, Reached, AllocatorsTypeOK
<1>12. NothingOrphaned'
  BY <1>1, <1>2, <1>T DEF IInv, NothingOrphaned
<1>13. Copies'
  <2>1. \A t \in Thread : call[t].at = "copying" => call'[t] = call[t]
    BY <1>3, CallKinds DEF IInv, Calls, Allocating
  <2>2. \A h \in Handle : Active(h)' => ReadsStored(h)' \/ ~ReadsStored(h)
    BY <1>1 DEF ReadsStored
  <2>3. \A h \in Handle : Active(h)' =>
           ReadsStored(h)' \/ \E t \in Thread : call'[t].handle = h /\ call'[t].at = "copying"
    BY <2>1, <2>2, <1>1 DEF IInv, Copies
  <2>4. \A t \in Thread : call'[t].at = "unmap" => call'[t] = call[t] /\ call[t].handle \in Handle
    BY <1>3, CallKinds DEF NoCall
  <2>5. \A t \in Thread : call'[t].at = "unmap" /\ call'[t].op = "read"
                             /\ Active(call[t].handle)' => call'[t].whole
    BY <2>4, <1>1 DEF IInv, Copies
  <2> QED BY <2>3, <2>5 DEF Copies
<1>14. ReadsWhole'
  BY <1>3 DEF IInv, ReadsWhole, NoCall
<1> QED BY <1>5, <1>6, <1>7, <1>8, <1>9, <1>10, <1>11, <1>12, <1>13, <1>14 DEF IInv

\* What is deleted was in no call, under no pointer, or contested; what is left is
\* still in the table under its pointer, and reached by one.
LEMMA DeletingGood ==
  ASSUME IInv, Deleting, UNCHANGED <<tick, memory>>,
         \A t \in Thread : call'[t] # NoCall =>
           LET h == call[t].handle IN
           buf'[h] = buf[h] \/ (call[t].at \notin Holding /\ buf[h].address \in Contested),
         \A g \in grants' : \/ buf'[g.handle] = buf[g.handle] \/ g.address \in Contested,
         \A a \in Address : table'[a] # Nil =>
           \E g \in grants' : g.address = a /\ g.origin = "resource",
         \A g \in grants' : g.origin = "resource" /\ g.address \notin Contested /\ Active(g.handle)
                              /\ buf'[g.handle] = buf[g.handle]
                              => table'[g.address] = table[g.address],
         \A h \in Handle : Active(h) /\ buf'[h] = buf[h] /\ buf[h].origin # "handle" =>
           \/ \E t \in Thread : call'[t].handle = h
           \/ buf[h].address \in Contested
           \/ \E g \in grants' : g.handle = h
  PROVE  IInv'
<1> USE DEF Gone, Active, memory
<1>1. \A h \in Handle :
        /\ buf'[h].address = buf[h].address /\ buf'[h].origin = buf[h].origin
        /\ buf'[h].contested = buf[h].contested
        /\ buf[h].state # "NEW" => buf'[h].state # "NEW"
        /\ buf'[h].state = "NEW" => buf'[h] = buf[h]
        /\ Active(h)' => Active(h) /\ buf'[h] = buf[h]
  BY DEF Deleting
<1>2. Contested' = Contested
  BY <1>1 DEF Contested
<1>3. /\ NoCall.handle = Nil /\ NoCall.op = "none" /\ NoCall.at = "none"
      /\ \A t \in Thread : call[t].at = "free" => call[t].op \in Allocating
  BY DEF NoCall, IInv, Calls
<1>4. \A h \in Handle : InUse(h)' => InUse(h)
  BY <1>3, AllocatorAssumption DEF InUse, Deleting
<1>5. AllocatorsTypeOK'
  BY <1>1 DEF Deleting, IInv, AllocatorsTypeOK
<1>6. Storage'
  BY <1>1 DEF Deleting, IInv, Storage
<1>7. Calls'
  <2>1. \A t \in Thread : call'[t] # NoCall => call'[t] = call[t] BY DEF Deleting
  <2>2. ASSUME NEW t \in Thread, NEW u \in Thread, call'[t].op \in Allocating,
               call'[u].handle = call'[t].handle
        PROVE  u = t
    <3>1. call'[t] = call[t] /\ call[t].handle \in Handle
      BY <2>2, <2>1, <1>3, CallKinds DEF Allocating
    <3>2. call'[u] = call[u] BY <2>2, <2>1, <1>3, <3>1, AllocatorAssumption
    <3> QED BY <2>2, <3>1, <3>2 DEF IInv, Calls
  <2> QED BY <2>1, <2>2, <1>1 DEF IInv, Calls
<1>8. CallsKeepBuffers'
  <2>1. ASSUME NEW t \in Thread, call'[t] # NoCall
        PROVE  call'[t] = call[t] /\ call[t].handle \in Handle
    BY <2>1, CallKinds DEF Deleting
  <2>2. ASSUME NEW t \in Thread, call'[t] # NoCall, call'[t].at \in Holding
        PROVE  LET h == call[t].handle IN
               /\ buf'[h].state = "EXPIRED" \/ (Active(h) /\ buf'[h] = buf[h] /\ buf'[h].map = Flags(call[t].op))
               /\ \A u \in Thread \ {t} : call[u].handle = h /\ Active(h) => call[u].at \notin Holding
    BY <2>1, <2>2 DEF IInv, CallsKeepBuffers, Holding
  <2>3. ASSUME NEW t \in Thread, call'[t] # NoCall, call'[t].at \in Holding,
               NEW u \in Thread \ {t}, call'[u].handle = call[t].handle, Active(call[t].handle)
        PROVE  call'[u].at \notin Holding
    <3>1. call'[u] = call[u] BY <2>1, <2>3, <1>3, AllocatorAssumption
    <3> QED BY <3>1, <2>3, <2>2
  <2>4. ASSUME NEW t \in Thread, call'[t] # NoCall, call'[t].at \notin Holding,
               buf'[call[t].handle].state = "DELETED"
        PROVE  buf'[call[t].handle].address \in Contested'
    BY <2>4, <2>1, <1>1, <1>2 DEF IInv, CallsKeepBuffers, Holding
  <2> QED BY <2>1, <2>2, <2>3, <2>4, <1>1 DEF CallsKeepBuffers, Holding
<1>9. Grants'
  BY <1>1, <1>2, <1>4 DEF IInv, Grants, Deleting, AllocatorsTypeOK
<1>10. Table'
  BY <1>1, <1>4 DEF IInv, Table, Deleting, AllocatorsTypeOK
<1>11. Reached'
  BY <1>1, <1>2 DEF IInv, Reached, Deleting, AllocatorsTypeOK
<1>12. NothingOrphaned'
  BY <1>1, <1>2 DEF NothingOrphaned, InUse
<1>13. Copies'
  <2>1. \A t \in Thread : call'[t].at \in Holding => call'[t] = call[t] /\ call[t].handle \in Handle
    BY <1>3, CallKinds DEF Deleting, Holding
  <2>2. \A t \in Thread : call[t].at = "copying" => call'[t] = call[t] BY DEF Deleting
  <2> QED BY <2>1, <2>2, <1>1 DEF IInv, Copies, ReadsStored, Holding
<1>14. ReadsWhole'
  BY <1>3 DEF IInv, ReadsWhole, Deleting
<1> QED BY <1>5, <1>6, <1>7, <1>8, <1>9, <1>10, <1>11, <1>12, <1>13, <1>14 DEF IInv

-----------------------------------------------------------------------------
(* Steps that age.                                                           *)

\* A buffer that is validated ages.
LEMMA ValidatedAges ==
  ASSUME IInv, NEW h \in Handle
  PROVE  /\ Validated(h) \in BufferType /\ Expired(buf[h]) \in BufferType
         /\ Active(h) => Gone(buf[h], Expired(buf[h]), "EXPIRED")
         /\ Alike(buf[h], Validated(h)) \/ (Active(h) /\ Gone(buf[h], Validated(h), "EXPIRED"))
         /\ LET b == [buf[h] EXCEPT !.written = tick] IN b \in BufferType /\ Alike(buf[h], b)
<1>1. buf[h] \in BufferType /\ tick \in Nat BY AllocatorAssumption DEF IInv, AllocatorsTypeOK
<1>2. Expired(buf[h]) \in BufferType /\ Gone(buf[h], Expired(buf[h]), "EXPIRED")
  BY <1>1 DEF Expired, Released, BufferType, Gone, Values
<1>3. [buf[h] EXCEPT !.written = tick] \in BufferType /\ Alike(buf[h], [buf[h] EXCEPT !.written = tick])
  BY <1>1 DEF BufferType, Alike
<1> QED BY <1>1, <1>2, <1>3 DEF Validated, Overdue, Alike

\* Nothing happens to the calls.
LEMMA NobodyLeaves ==
  ASSUME IInv, UNCHANGED call
  PROVE  Leaving
BY DEF IInv, AllocatorsTypeOK, Leaving

\* One buffer is rewritten, or expires.
LEMMA OneAges ==
  ASSUME IInv, NEW h \in Handle, NEW b \in BufferType, buf' = [buf EXCEPT ![h] = b],
         Alike(buf[h], b) \/ (Active(h) /\ Gone(buf[h], b, "EXPIRED"))
  PROVE  Aging
<1>1. buf \in [Handle -> BufferType] BY DEF IInv, AllocatorsTypeOK
<1>2. buf' \in [Handle -> BufferType] /\ buf'[h] = b /\ \A k \in Handle \ {h} : buf'[k] = buf[k]
  BY <1>1
<1>3. \A k \in Handle : Alike(buf[k], buf[k]) BY DEF Alike
<1> QED BY <1>2, <1>3 DEF Aging

LEMMA MarkWrittenGood == ASSUME IInv, NEW h \in Handle, MarkWritten(h) PROVE IInv'
<1>1. Aging
  <2>1. PICK b : b = IF Valid(h) THEN [buf[h] EXCEPT !.written = tick] ELSE Validated(h) OBVIOUS
  <2>2. /\ b \in BufferType
        /\ Alike(buf[h], b) \/ (Active(h) /\ Gone(buf[h], b, "EXPIRED"))
    BY <2>1, ValidatedAges
  <2>3. buf' = [buf EXCEPT ![h] = b] BY <2>1 DEF MarkWritten, IInv, AllocatorsTypeOK
  <2> QED BY <2>2, <2>3, OneAges
<1> QED BY <1>1, NobodyLeaves, AgingGood DEF MarkWritten, IInv, AllocatorsTypeOK

LEMMA PollGood == ASSUME IInv, Poll PROVE IInv'
<1>1. Aging
  BY ValidatedAges DEF Poll, Aging, Alike, Overdue, IInv, AllocatorsTypeOK
<1> QED BY <1>1, NobodyLeaves, AgingGood DEF Poll, IInv, AllocatorsTypeOK

LEMMA RegionRefreshGood == ASSUME IInv, RegionRefresh PROVE IInv'
<1>1. Aging
  BY ValidatedAges DEF RegionRefresh, Aging, Alike, IInv, AllocatorsTypeOK
<1> QED BY <1>1, NobodyLeaves, AgingGood DEF RegionRefresh, IInv, AllocatorsTypeOK

LEMMA AdvanceGood == ASSUME IInv, Advance PROVE IInv'
<1>1. Aging BY DEF Advance, Aging, Alike, IInv, AllocatorsTypeOK
<1>2. tick' \in 0..MaxTick BY AllocatorAssumption DEF Advance, IInv, AllocatorsTypeOK
<1> QED BY <1>1, <1>2, NobodyLeaves, AgingGood DEF Advance

LEMMA RecordGood == ASSUME IInv, NEW t \in Thread, Record(t) PROVE IInv'
<1>1. call[t].handle \in Handle /\ call[t].op \in {"read", "write"}
  BY CallKinds DEF Record, NoCall, IInv, Calls, Listed
<1>2. Aging BY <1>1, ValidatedAges DEF Record, Aging, Alike, IInv, AllocatorsTypeOK
<1>3. NoCall \in CallType BY DEF NoCall, CallType
<1>4. Leaving BY <1>1, <1>3 DEF Record, Leaving, IInv, AllocatorsTypeOK
<1> QED BY <1>2, <1>4, AgingGood DEF Record, IInv, AllocatorsTypeOK

\* A call that fails leaves.
LEMMA FailureLeaves ==
  ASSUME IInv, NEW t \in Thread, call[t].at \in {"map", "unmap"}, call' = FailsAt(t)
  PROVE  Leaving
<1>1. call[t] # NoCall BY DEF NoCall
<1>2. NoCall \in CallType /\ [call[t] EXCEPT !.at = "free"] \in CallType
  BY DEF NoCall, CallType, IInv, AllocatorsTypeOK
<1> QED BY <1>1, <1>2, CallKinds DEF FailsAt, Leaving, Allocating, IInv, AllocatorsTypeOK

\* A mapping that fails, and an unmapping that finds nothing mapped.
LEMMA MapFailsGood ==
  ASSUME IInv, NEW t \in Thread, Map(t), ~CanMap(call[t].handle)
  PROVE  IInv'
<1>1. call[t].handle \in Handle BY CallKinds DEF Map, NoCall
<1>2. Aging
  <2>1. buf' = [buf EXCEPT ![call[t].handle] = Validated(call[t].handle)] BY DEF Map
  <2> QED BY <1>1, <2>1, ValidatedAges, OneAges
<1>3. Leaving BY FailureLeaves DEF Map
<1> QED BY <1>2, <1>3, AgingGood DEF Map, IInv, AllocatorsTypeOK

LEMMA UnmapMissesGood ==
  ASSUME IInv, NEW t \in Thread, Unmap(t), ~StillMapped(call[t].handle)
  PROVE  IInv'
<1>1. Aging BY DEF Unmap, Aging, Alike, IInv, AllocatorsTypeOK
<1>2. Leaving BY FailureLeaves DEF Unmap
<1> QED BY <1>1, <1>2, AgingGood DEF Unmap, IInv, AllocatorsTypeOK

-----------------------------------------------------------------------------
(* Steps that delete.                                                        *)

\* Deleting a buffer that was allocated drops it.
LEMMA DeletedDrops ==
  ASSUME IInv, NEW h \in Handle, buf[h].state # "NEW", buf' = Deleted(h)
  PROVE  /\ buf' \in [Handle -> BufferType] /\ Gone(buf[h], buf'[h], "DELETED")
         /\ \A k \in Handle \ {h} : buf'[k] = buf[k]
<1>1. buf \in [Handle -> BufferType] /\ buf[h] \in BufferType BY DEF IInv, AllocatorsTypeOK
<1>2. Released(buf[h], "DELETED") \in BufferType /\ Gone(buf[h], Released(buf[h], "DELETED"), "DELETED")
  BY <1>1 DEF Released, BufferType, Gone, Values
<1> QED BY <1>1, <1>2 DEF Deleted

LEMMA FreeHandleGood == ASSUME IInv, NEW h \in Handle, FreeHandle(h) PROVE IInv'
<1>1. h \in Handle /\ buf[h].state # "NEW" /\ buf[h].origin = "handle" /\ ~InUse(h)
  BY DEF FreeHandle, Listed
<1>2. /\ buf' \in [Handle -> BufferType] /\ Gone(buf[h], buf'[h], "DELETED")
      /\ \A k \in Handle \ {h} : buf'[k] = buf[k]
  BY <1>1, DeletedDrops DEF FreeHandle
<1>3. Deleting BY <1>1, <1>2 DEF FreeHandle, Deleting, IInv, AllocatorsTypeOK
<1>4. \A t \in Thread : call'[t] # NoCall => buf'[call[t].handle] = buf[call[t].handle]
  BY <1>1, <1>2, CallKinds DEF FreeHandle, InUse
<1>5. \A g \in grants' : g.handle \in Handle \ {h} /\ buf'[g.handle] = buf[g.handle]
  BY <1>1, <1>2 DEF FreeHandle, IInv, AllocatorsTypeOK, Grants, Allocating
<1>6. \A a \in Address : table'[a] # Nil => \E g \in grants' : g.address = a /\ g.origin = "resource"
  BY DEF FreeHandle, IInv, Table
<1>7. \A k \in Handle : Active(k) /\ buf'[k] = buf[k] /\ buf[k].origin # "handle" =>
        \/ \E t \in Thread : call'[t].handle = k
        \/ buf[k].address \in Contested
        \/ \E g \in grants' : g.handle = k
  BY DEF FreeHandle, IInv, NothingOrphaned, InUse
<1> QED BY <1>3, <1>4, <1>5, <1>6, <1>7, DeletingGood DEF FreeHandle

LEMMA FreeFailedGood == ASSUME IInv, NEW t \in Thread, FreeFailed(t) PROVE IInv'
<1> DEFINE h == call[t].handle
<1>1. h \in Handle /\ buf[h].state # "NEW" /\ call[t].op \in Allocating /\ buf[h].origin = call[t].op
  BY CallKinds DEF FreeFailed, NoCall, IInv, Calls
<1>2. /\ buf' \in [Handle -> BufferType] /\ Gone(buf[h], buf'[h], "DELETED")
      /\ \A k \in Handle \ {h} : buf'[k] = buf[k]
  BY <1>1, DeletedDrops DEF FreeFailed, FreedOnFailure
<1>3. call' = [call EXCEPT ![t] = NoCall] /\ call \in [Thread -> CallType] /\ NoCall \in CallType
  BY DEF FreeFailed, IInv, AllocatorsTypeOK, NoCall, CallType
<1>4. Deleting BY <1>1, <1>2, <1>3 DEF FreeFailed, Deleting, IInv, AllocatorsTypeOK
<1>5. \A u \in Thread : call'[u] # NoCall => buf'[call[u].handle] = buf[call[u].handle]
  <2>1. \A u \in Thread \ {t} : call[u].handle # h BY <1>1 DEF IInv, Calls
  <2> QED BY <2>1, <1>2, <1>3, CallKinds
<1>6. \A g \in grants' : g.handle \in Handle \ {h} /\ buf'[g.handle] = buf[g.handle]
  BY <1>1, <1>2 DEF FreeFailed, IInv, AllocatorsTypeOK, Grants, InUse
<1>7. \A a \in Address : table'[a] # Nil => \E g \in grants' : g.address = a /\ g.origin = "resource"
  BY DEF FreeFailed, IInv, Table
<1>8. \A k \in Handle : Active(k) /\ buf'[k] = buf[k] /\ buf[k].origin # "handle" =>
        \/ \E u \in Thread : call'[u].handle = k
        \/ buf[k].address \in Contested
        \/ \E g \in grants' : g.handle = k
  <2>1. \A k \in Handle : Active(k) /\ buf'[k] = buf[k] => k # h
    BY <1>2 DEF Gone, Active
  <2> QED BY <2>1, <1>3 DEF FreeFailed, IInv, NothingOrphaned, InUse
<1> QED BY <1>4, <1>5, <1>6, <1>7, <1>8, DeletingGood DEF FreeFailed

\* The buffers that expose a pointer are the active one at its address, if any.
LEMMA ExposedOnes ==
  ASSUME IInv, NEW a \in Address, NEW h \in Exposed(a)
  PROVE  /\ h \in Handle /\ Active(h) /\ buf[h].address = a /\ buf[h].exposed = a
         /\ \A k \in Exposed(a) : k = h
         /\ First(Exposed(a)) = h
<1>1. \A k \in Exposed(a) : k \in Handle /\ Active(k) /\ buf[k].address = a /\ buf[k].exposed = a
  BY AllocatorAssumption DEF Exposed, Listed, IInv, AllocatorsTypeOK
<1>2. \A k \in Exposed(a) : k = h BY <1>1 DEF IInv, Storage
<1>3. \A k \in Exposed(a) : h <= k
  <2>1. h \in Nat BY <1>1, AllocatorAssumption
  <2> QED BY <2>1, <1>2
<1>4. \E k \in Exposed(a) : \A m \in Exposed(a) : k <= m BY <1>3
<1>5. First(Exposed(a)) \in Exposed(a) BY <1>4 DEF First
<1> QED BY <1>1, <1>2, <1>5

LEMMA FreePointerGood == ASSUME IInv, NEW g \in grants, FreePointer(g) PROVE IInv'
<1> DEFINE a == g.address
<1>1. a \in Address /\ g.handle \in Handle /\ g.origin = "malloc" /\ grants' = grants \ {g}
        /\ buf[g.handle].address = a
  BY DEF FreePointer, IInv, AllocatorsTypeOK, Grants
\* The pointer is of no more use: nothing is behind it.
<1>2. ASSUME NEW h \in Handle, Active(h), buf[h].origin # "handle", ~InUse(h),
             buf[h].address \notin Contested, \A o \in grants' : o.handle # h
      PROVE  buf[h].exposed = a /\ h \in Exposed(a)
  <2>1. PICK o \in grants : o.handle = h BY <1>2 DEF IInv, NothingOrphaned
  <2>2. o = g BY <1>1, <1>2, <2>1
  <2>3. buf[h].exposed = a BY <1>1, <1>2, <2>1, <2>2 DEF IInv, Reached, Active
  <2> QED BY <1>2, <2>3 DEF Exposed, Listed, Active
<1>3. \A b \in Address : table[b] # Nil => \E o \in grants' : o.address = b /\ o.origin = "resource"
  BY <1>1 DEF IInv, Table
<1>4. CASE Exposed(a) = {}
  <2>1. buf' = buf BY <1>4, <1>1 DEF FreePointer
  <2>2. Deleting BY <1>1, <2>1 DEF FreePointer, Deleting, IInv, AllocatorsTypeOK
  <2>3. \A h \in Handle : Active(h) /\ buf[h].origin # "handle" =>
          \/ \E t \in Thread : call'[t].handle = h
          \/ buf[h].address \in Contested
          \/ \E o \in grants' : o.handle = h
    BY <1>2, <1>4 DEF FreePointer, InUse
  <2> QED BY <1>3, <2>1, <2>2, <2>3, DeletingGood DEF FreePointer
<1>5. CASE Exposed(a) # {}
  <2>1. PICK h \in Exposed(a) : First(Exposed(a)) = h BY <1>1, <1>5, ExposedOnes
  <2>2. /\ h \in Handle /\ Active(h) /\ buf[h].address = a /\ buf[h].state # "NEW"
        /\ \A k \in Exposed(a) : k = h
    BY <1>1, ExposedOnes DEF Active
  <2>3. buf[h].map = {} /\ buf' = Deleted(h) BY <1>5, <2>1 DEF FreePointer, Busy
  <2>4. /\ buf' \in [Handle -> BufferType] /\ Gone(buf[h], buf'[h], "DELETED")
        /\ \A k \in Handle \ {h} : buf'[k] = buf[k]
    BY <2>2, <2>3, DeletedDrops
  <2>5. Deleting BY <1>1, <2>2, <2>4 DEF FreePointer, Deleting, IInv, AllocatorsTypeOK
  <2>6. h = g.handle \/ a \in Contested
    BY <2>2 DEF IInv, Grants, Contested
  <2>7. ASSUME NEW t \in Thread, call'[t] # NoCall, call[t].handle = h
        PROVE  call[t].at \notin Holding /\ a \in Contested
    <3>1. h # g.handle BY <2>7 DEF IInv, Grants, InUse
    <3>2. Flags(call[t].op) # {} BY DEF Flags
    <3> QED BY <2>2, <2>3, <2>6, <2>7, <3>1, <3>2 DEF FreePointer, IInv, CallsKeepBuffers, Holding, Active
  <2>8. \A o \in grants' : \/ buf'[o.handle] = buf[o.handle] \/ o.address \in Contested
    <3>1. ASSUME NEW o \in grants', o.handle = h PROVE o.address \in Contested
      <4>1. o \in grants /\ o # g /\ o.address = a BY <3>1, <1>1, <2>2 DEF IInv, Grants
      <4> QED BY <4>1 DEF IInv, Grants
    <3> QED BY <3>1, <2>4, <1>1 DEF IInv, AllocatorsTypeOK
  <2>9. \A k \in Handle : Active(k) /\ buf'[k] = buf[k] /\ buf[k].origin # "handle" =>
          \/ \E t \in Thread : call'[t].handle = k
          \/ buf[k].address \in Contested
          \/ \E o \in grants' : o.handle = k
    <3>1. \A k \in Handle : Active(k) /\ buf'[k] = buf[k] => k \notin Exposed(a)
      BY <2>2, <2>4 DEF Gone, Active
    <3> QED BY <1>2, <3>1 DEF FreePointer, InUse
  <2> QED BY <1>3, <2>2, <2>4, <2>5, <2>7, <2>8, <2>9, CallKinds, DeletingGood DEF FreePointer
<1> QED BY <1>4, <1>5

LEMMA DeallocateGood == ASSUME IInv, NEW g \in grants, Deallocate(g) PROVE IInv'
<1> DEFINE a == g.address
           k == table[a]
<1>1. /\ a \in Address /\ g.handle \in Handle /\ g.origin = "resource" /\ grants' = grants \ {g}
      /\ buf[g.handle].address = a /\ table' = [table EXCEPT ![a] = Nil]
      /\ table \in [Address -> Handle \cup {Nil}] /\ table' \in [Address -> Handle \cup {Nil}]
  BY DEF Deallocate, IInv, AllocatorsTypeOK, Grants, Erased
\* Behind the pointer was what the table has for it.
<1>2. ASSUME NEW h \in Handle, Active(h), buf[h].origin # "handle", ~InUse(h),
             buf[h].address \notin Contested, \A o \in grants' : o.handle # h
      PROVE  k = h
  <2>1. PICK o \in grants : o.handle = h BY <1>2 DEF IInv, NothingOrphaned
  <2>2. o = g BY <1>1, <1>2, <2>1
  <2> QED BY <1>1, <1>2, <2>1, <2>2 DEF IInv, Reached, Active
<1>3. \A b \in Address : table'[b] # Nil => \E o \in grants' : o.address = b /\ o.origin = "resource"
  <2>1. ASSUME NEW b \in Address, table'[b] # Nil
        PROVE  b # a /\ \E o \in grants : o.address = b /\ o.origin = "resource"
    BY <1>1, <2>1 DEF IInv, Table
  <2> QED BY <2>1, <1>1
\* Another pointer to the same storage means that it is contested.
<1>4. \A o \in grants' : o.address = a => a \in Contested
  BY <1>1 DEF IInv, Grants
<1>5. \A o \in grants' : o.origin = "resource" /\ o.address \notin Contested /\ Active(o.handle)
                              /\ buf'[o.handle] = buf[o.handle]
                              => table'[o.address] = table[o.address]
  BY <1>1, <1>4 DEF IInv, AllocatorsTypeOK
<1>6. CASE k = Nil
  <2>1. buf' = buf BY <1>6 DEF Deallocate
  <2>2. Deleting BY <1>1, <2>1 DEF Deallocate, Deleting, IInv, AllocatorsTypeOK
  <2>3. \A h \in Handle : Active(h) /\ buf[h].origin # "handle" =>
          \/ \E t \in Thread : call'[t].handle = h
          \/ buf[h].address \in Contested
          \/ \E o \in grants' : o.handle = h
    BY <1>2, <1>6, AllocatorAssumption DEF Deallocate, InUse
  <2> QED BY <1>3, <1>5, <2>1, <2>2, <2>3, DeletingGood DEF Deallocate
<1>7. CASE k # Nil
  <2>1. /\ k \in Handle /\ buf[k].state # "NEW" /\ buf[k].address = a /\ ~InUse(k)
        /\ buf' = Deleted(k)
    BY <1>1, <1>7 DEF IInv, Table, Deallocate
  <2>2. /\ buf' \in [Handle -> BufferType] /\ Gone(buf[k], buf'[k], "DELETED")
        /\ \A h \in Handle \ {k} : buf'[h] = buf[h]
    BY <2>1, DeletedDrops
  <2>3. Deleting BY <1>1, <2>1, <2>2 DEF Deallocate, Deleting, IInv, AllocatorsTypeOK
  <2>4. \A t \in Thread : call'[t] # NoCall => buf'[call[t].handle] = buf[call[t].handle]
    BY <2>1, <2>2, CallKinds DEF Deallocate, InUse
  <2>5. \A o \in grants' : buf'[o.handle] = buf[o.handle] \/ o.address \in Contested
    <3>1. \A o \in grants' : o.handle \in Handle /\ buf[o.handle].address = o.address
      BY <1>1 DEF IInv, AllocatorsTypeOK, Grants
    <3> QED BY <3>1, <1>4, <2>1, <2>2
  <2>6. \A h \in Handle : Active(h) /\ buf'[h] = buf[h] /\ buf[h].origin # "handle" =>
          \/ \E t \in Thread : call'[t].handle = h
          \/ buf[h].address \in Contested
          \/ \E o \in grants' : o.handle = h
    <3>1. \A h \in Handle : Active(h) /\ buf'[h] = buf[h] => h # k
      BY <2>2 DEF Gone, Active
    <3> QED BY <1>2, <3>1 DEF Deallocate, InUse
  <2> QED BY <1>3, <1>5, <2>3, <2>4, <2>5, <2>6, DeletingGood DEF Deallocate
<1> QED BY <1>6, <1>7

-----------------------------------------------------------------------------
(* Steps that allocate, map, copy and unmap.                                 *)

\* A buffer takes storage that no active buffer has; if a pointer has it, it is contested.
LEMMA AllocatedBuffer ==
  ASSUME IInv, NEW h, NEW a \in Address, NEW origin \in Origins, Allocated(h, origin, a)
  PROVE  /\ h \in Handle /\ buf[h].state = "NEW" /\ ~buf[h].contested /\ buf' \in [Handle -> BufferType]
         /\ \A k \in Handle \ {h} : buf'[k] = buf[k]
         /\ \A k \in Handle : Active(k) => buf[k].address # a /\ k # h
         /\ buf'[h].state = "ACTIVE" /\ buf'[h].origin = origin /\ buf'[h].address = a
         /\ buf'[h].exposed = Nil /\ buf'[h].map = {} /\ buf'[h].stored = Nil
         /\ buf'[h].contested = (\E g \in grants : g.address = a)
         /\ contents' = [contents EXCEPT ![a] = Nil] /\ strayed' = strayed \ {a}
         /\ \A g \in grants : g.handle # h
         /\ \A b \in Address : table[b] # Nil => table[b] # h
         /\ \A t \in Thread : call[t].handle # h
         /\ Contested \subseteq Contested'
<1>1. buf \in [Handle -> BufferType] /\ tick \in Nat BY AllocatorAssumption DEF IInv, AllocatorsTypeOK
<1>2. h \in Handle /\ buf[h].state = "NEW" BY DEF Allocated
<1> DEFINE b == [New EXCEPT !.state = "ACTIVE", !.origin = origin, !.address = a,
                  !.written = tick, !.contested = \E g \in grants : g.address = a]
<1>3. /\ b \in BufferType /\ b.state = "ACTIVE" /\ b.origin = origin /\ b.address = a
      /\ b.exposed = Nil /\ b.map = {} /\ b.stored = Nil
      /\ b.contested = (\E g \in grants : g.address = a)
  BY <1>1 DEF New, BufferType, Values
<1>4. buf' = [buf EXCEPT ![h] = b] BY DEF Allocated
<1> HIDE DEF b
<1>5. /\ \A g \in grants : g.handle # h
      /\ \A c \in Address : table[c] # Nil => table[c] # h
      /\ \A t \in Thread : call[t].handle # h
  BY <1>2, CallKinds, AllocatorAssumption DEF IInv, Grants, Table, Calls
<1>6. ~buf[h].contested BY <1>2 DEF IInv, Storage
<1>7. Contested \subseteq Contested' BY <1>1, <1>2, <1>4, <1>6 DEF Contested
<1> QED BY <1>1, <1>2, <1>3, <1>4, <1>5, <1>6, <1>7 DEF Allocated, Active

\* A call that begins is at its first point.
LEMMA CallBegins ==
  ASSUME IInv, NEW op \in Allocating \cup {"read", "write"}, NEW h \in Handle
  PROVE  /\ Call(op, h) \in CallType /\ Call(op, h) # NoCall
         /\ Call(op, h).op = op /\ Call(op, h).handle = h /\ Call(op, h).at = "map"
BY DEF Call, NoCall, CallType, Allocating

\* A thread that is in no call may be in an allocation.
LEMMA AllocationGood ==
  ASSUME IInv, NEW h, NEW a \in Address, NEW origin \in Origins, Allocated(h, origin, a),
         UNCHANGED <<tick, table, grants>>,
         \/ origin = "handle" /\ call' = call
         \/ \E t \in Thread : /\ origin \in Allocating /\ call[t] = NoCall
                              /\ call' = [call EXCEPT ![t] = Call(origin, h)]
  PROVE  IInv'
<1>1. /\ h \in Handle /\ buf[h].state = "NEW" /\ ~buf[h].contested /\ buf' \in [Handle -> BufferType]
      /\ \A k \in Handle \ {h} : buf'[k] = buf[k]
      /\ \A k \in Handle : Active(k) => buf[k].address # a /\ k # h
      /\ buf'[h].state = "ACTIVE" /\ buf'[h].origin = origin /\ buf'[h].address = a
      /\ buf'[h].exposed = Nil /\ buf'[h].map = {} /\ buf'[h].stored = Nil
      /\ buf'[h].contested = (\E g \in grants : g.address = a)
      /\ contents' = [contents EXCEPT ![a] = Nil] /\ strayed' = strayed \ {a}
      /\ \A g \in grants : g.handle # h
      /\ \A b \in Address : table[b] # Nil => table[b] # h
      /\ \A t \in Thread : call[t].handle # h
      /\ Contested \subseteq Contested'
  BY AllocatedBuffer
<1>2. \A k \in Handle : Active(k)' => k = h \/ (Active(k) /\ buf'[k] = buf[k] /\ buf[k].address # a)
  BY <1>1 DEF Active
<1>3. /\ call' \in [Thread -> CallType]
      /\ \A t \in Thread :
           \/ call'[t] = call[t]
           \/ /\ call[t] = NoCall /\ call'[t] # NoCall /\ origin \in Allocating
              /\ call'[t].op = origin /\ call'[t].handle = h /\ call'[t].at = "map"
      /\ \A t, u \in Thread : call'[t] # call[t] /\ call'[u] # call[u] => t = u
      /\ origin # "handle" => \E t \in Thread : call'[t].handle = h
  BY <1>1, CallBegins DEF IInv, AllocatorsTypeOK, Origins, Allocating
<1>4. \A k \in Handle \ {h} : InUse(k)' <=> InUse(k)
  BY <1>3, CallKinds, AllocatorAssumption DEF InUse
<1>5. AllocatorsTypeOK'
  BY <1>1, <1>3 DEF IInv, AllocatorsTypeOK, Active, Values
<1>6. Storage'
  BY <1>1, <1>2 DEF IInv, Storage, Active
<1>7. Calls'
  <2>1. \A t \in Thread : call[t] # NoCall => call[t].handle \in Handle \ {h} BY <1>1, CallKinds
  <2>2. ASSUME NEW t \in Thread, NEW u \in Thread, call'[t].op \in Allocating,
               call'[u].handle = call'[t].handle
        PROVE  u = t
    <3>1. CASE call'[t] = call[t]
      <4>1. call[t].handle \in Handle \ {h} BY <3>1, <2>2, <2>1, CallKinds DEF Allocating
      <4>2. call'[u] = call[u] BY <4>1, <3>1, <2>2, <1>3
      <4> QED BY <4>2, <3>1, <2>2 DEF IInv, Calls
    <3>2. CASE call'[t] # call[t]
      <4>1. call'[u].handle = h BY <3>2, <2>2, <1>3
      <4>2. call'[u] # call[u] BY <4>1, <1>1
      <4> QED BY <4>2, <3>2, <1>3
    <3> QED BY <3>1, <3>2
  <2>3. \A t \in Thread : call'[t] # call[t] => buf'[call'[t].handle].origin = call'[t].op
                             /\ buf'[call'[t].handle].state # "NEW"
    BY <1>1, <1>3
  <2> QED BY <2>1, <2>2, <2>3, <1>1, <1>3 DEF IInv, Calls
<1>8. CallsKeepBuffers'
  <2>1. \A t \in Thread : call'[t].at \in Holding => call'[t] = call[t] BY <1>3 DEF Holding
  <2>2. \A t \in Thread : call[t] # NoCall =>
           call[t].handle \in Handle \ {h} /\ buf'[call[t].handle] = buf[call[t].handle]
    BY <1>1, CallKinds
  <2>3. ASSUME NEW t \in Thread, call'[t] # NoCall, call'[t].at \in Holding
        PROVE  LET k == call[t].handle IN
               /\ buf[k].state = "EXPIRED" \/ (Active(k) /\ buf[k].map = Flags(call[t].op))
               /\ \A u \in Thread \ {t} : call[u].handle = k /\ Active(k) => call[u].at \notin Holding
    BY <2>1, <2>3 DEF IInv, CallsKeepBuffers, Holding
  <2>4. ASSUME NEW t \in Thread, call'[t] # NoCall, call'[t].at \notin Holding,
               buf'[call'[t].handle].state = "DELETED"
        PROVE  buf'[call'[t].handle].address \in Contested'
    <3>1. call'[t] = call[t] BY <1>1, <1>3, <2>4
    <3> QED BY <3>1, <2>2, <2>4, <1>1 DEF IInv, CallsKeepBuffers, Holding
  <2> QED BY <2>1, <2>2, <2>3, <2>4 DEF CallsKeepBuffers, Holding, Active
<1>9. Grants'
  <2>1. ASSUME NEW g \in grants
        PROVE  g.handle \in Handle \ {h} /\ buf'[g.handle] = buf[g.handle] /\ ~InUse(g.handle)'
    BY <1>1, <1>4 DEF IInv, Grants, AllocatorsTypeOK
  <2>2. ASSUME NEW g \in grants, NEW k \in Handle, Active(k)', buf'[k].address = g.address
        PROVE  k = g.handle \/ buf'[k].contested
    <3>1. CASE k = h BY <3>1, <2>2, <1>1
    <3>2. CASE k # h BY <3>2, <2>2, <1>1, <1>2 DEF IInv, Grants
    <3> QED BY <3>1, <3>2
  <2> QED BY <2>1, <2>2, <1>1 DEF IInv, Grants
<1>10. Table'
  BY <1>1, <1>4 DEF IInv, Table, AllocatorsTypeOK
<1>11. Reached'
  BY <1>1 DEF IInv, Reached, AllocatorsTypeOK, Active
<1>12. NothingOrphaned'
  BY <1>1, <1>2, <1>3, <1>4 DEF IInv, NothingOrphaned, InUse
<1>13. Copies'
  <2>1. ReadsStored(h)' BY <1>1 DEF ReadsStored, Active, IInv, AllocatorsTypeOK
  <2>2. \A k \in Handle : Active(k)' /\ k # h => (ReadsStored(k) => ReadsStored(k)')
    BY <1>1, <1>2 DEF ReadsStored, Active, IInv, AllocatorsTypeOK, Storage
  <2>3. \A t \in Thread : call[t].at = "copying" => call'[t] = call[t] BY <1>3, CallKinds
  <2>4. \A t \in Thread : call'[t].at = "unmap" =>
           call'[t] = call[t] /\ call[t].handle \in Handle \ {h}
    BY <1>1, <1>3, CallKinds
  <2> QED BY <2>1, <2>2, <2>3, <2>4, <1>1, <1>2 DEF IInv, Copies, Active
<1>14. ReadsWhole'
  BY <1>3 DEF IInv, ReadsWhole
<1> QED BY <1>5, <1>6, <1>7, <1>8, <1>9, <1>10, <1>11, <1>12, <1>13, <1>14 DEF IInv

LEMMA AllocGood ==
  ASSUME IInv, NEW h \in Handle, NEW a \in Address, Alloc(h, a) PROVE IInv'
<1>1. "handle" \in Origins BY DEF Origins
<1> QED BY <1>1, AllocationGood DEF Alloc

LEMMA BeginAllocationGood ==
  ASSUME IInv, NEW t \in Thread, NEW op \in Allocating, NEW h \in Handle, NEW a \in Address,
         BeginAllocation(t, op, h, a)
  PROVE  IInv'
<1>1. op \in Origins BY DEF Origins, Allocating
<1> QED BY <1>1, AllocationGood DEF BeginAllocation

LEMMA BeginTransferGood ==
  ASSUME IInv, NEW t \in Thread, NEW op \in {"read", "write"}, NEW h \in Handle,
         BeginTransfer(t, op, h)
  PROVE  IInv'
<1>1. /\ call[t] = NoCall /\ buf[h].origin = "handle" /\ buf[h].state \notin {"NEW", "DELETED"}
      /\ UNCHANGED <<tick, buf, table, grants, contents, strayed>>
      /\ call' = [call EXCEPT ![t] = Call(op, h)]
  BY DEF BeginTransfer, Listed, memory
<1>2. /\ Call(op, h) # NoCall /\ Call(op, h) \in CallType
      /\ Call(op, h).op = op /\ Call(op, h).handle = h /\ Call(op, h).at = "map"
  BY CallBegins
<1>3. /\ call' \in [Thread -> CallType] /\ call'[t] = Call(op, h)
      /\ \A u \in Thread \ {t} : call'[u] = call[u]
  BY <1>1, <1>2 DEF IInv, AllocatorsTypeOK
<1>4. \A k \in Handle : InUse(k) => InUse(k)'
  BY <1>1, <1>3, CallKinds, AllocatorAssumption DEF InUse
<1>5. \A k \in Handle \ {h} : InUse(k)' => InUse(k)
  BY <1>2, <1>3 DEF InUse
<1>6. AllocatorsTypeOK' BY <1>1, <1>3 DEF IInv, AllocatorsTypeOK, Active
<1>7. Storage' BY <1>1 DEF IInv, Storage, Active
<1>8. Calls'
  <2>1. ASSUME NEW u \in Thread, call[u].op \in Allocating PROVE call[u].handle # h
    BY <2>1, <1>1, CallKinds DEF IInv, Calls, Allocating
  <2> QED BY <2>1, <1>1, <1>2, <1>3 DEF IInv, Calls, Allocating
<1>9. CallsKeepBuffers'
  BY <1>1, <1>2, <1>3 DEF IInv, CallsKeepBuffers, Active, Contested
<1>10. Grants'
  BY <1>1, <1>5 DEF IInv, Grants, Active, Contested, Allocating, AllocatorsTypeOK
<1>11. Table' BY <1>1, <1>5 DEF IInv, Table, AllocatorsTypeOK
<1>12. Reached' BY <1>1 DEF IInv, Reached, Active, Contested
<1>13. NothingOrphaned' BY <1>1, <1>4 DEF IInv, NothingOrphaned, Active, Contested
<1>14. Copies'
  <2>1. \A u \in Thread : call[u].at = "copying" => u # t BY <1>1 DEF NoCall
  <2> QED BY <2>1, <1>1, <1>2, <1>3 DEF IInv, Copies, ReadsStored, Active
<1>15. ReadsWhole' BY <1>2, <1>3 DEF IInv, ReadsWhole
<1> QED BY <1>6, <1>7, <1>8, <1>9, <1>10, <1>11, <1>12, <1>13, <1>14, <1>15 DEF IInv

\* The thread's call goes on to its next point, with what it is about unchanged.
GoesOn(t) ==
  /\ call' \in [Thread -> CallType] /\ \A u \in Thread \ {t} : call'[u] = call[u]
  /\ call'[t].op = call[t].op /\ call'[t].handle = call[t].handle

\* The mapping exposes the pointer, and its buffer is the call's until it is unmapped.
LEMMA MapsGood ==
  ASSUME IInv, NEW t \in Thread, Map(t), CanMap(call[t].handle)
  PROVE  IInv'
<1> DEFINE h == call[t].handle
           next == IF call[t].op \in {"read", "write"} THEN "copy" ELSE "unmap"
<1>1. /\ call[t].at = "map" /\ call[t] # NoCall /\ h \in Handle /\ Active(h) /\ buf[h].map = {}
      /\ call[t].op \in Allocating \cup {"read", "write"} /\ buf[h].address \in Address
      /\ UNCHANGED <<tick, table, grants, contents, strayed>>
  BY CallKinds DEF Map, CanMap, Valid, Unmapped, NoCall, memory, IInv, Storage, Active
<1>2. /\ buf' = [buf EXCEPT ![h].map = Flags(call[t].op), ![h].exposed = buf[h].address]
      /\ call' = [call EXCEPT ![t].at = next]
  BY DEF Map
<1>3. /\ buf' \in [Handle -> BufferType]
      /\ \A k \in Handle \ {h} : buf'[k] = buf[k]
      /\ buf'[h].map = Flags(call[t].op) /\ buf'[h].exposed = buf[h].address
      /\ \A k \in Handle : /\ buf'[k].state = buf[k].state /\ buf'[k].origin = buf[k].origin
                           /\ buf'[k].address = buf[k].address /\ buf'[k].stored = buf[k].stored
                           /\ buf'[k].contested = buf[k].contested
  <2>1. buf[h] \in BufferType /\ buf \in [Handle -> BufferType] BY <1>1 DEF IInv, AllocatorsTypeOK
  <2>2. Flags(call[t].op) \in SUBSET {"R", "W"} BY DEF Flags
  <2>3. [buf[h] EXCEPT !.map = Flags(call[t].op), !.exposed = buf[h].address] \in BufferType
    BY <1>1, <2>1, <2>2 DEF BufferType
  <2> QED BY <1>1, <1>2, <2>1, <2>3 DEF BufferType
<1>4. /\ GoesOn(t) /\ call'[t].at = next /\ call'[t].whole = call[t].whole
  BY <1>1, <1>2 DEF GoesOn, IInv, AllocatorsTypeOK, CallType
<1>5. call'[t] # NoCall /\ next \in Holding /\ next # "copying" BY <1>4 DEF NoCall, Holding
<1>6. \A k \in Handle : (InUse(k)' <=> InUse(k)) /\ (Active(k)' <=> Active(k))
  BY <1>3, <1>4 DEF InUse, GoesOn, Active
<1>7. Contested' = Contested BY <1>3 DEF Contested
<1>8. AllocatorsTypeOK' BY <1>1, <1>3, <1>4, <1>6 DEF IInv, AllocatorsTypeOK, GoesOn
<1>9. Storage' BY <1>1, <1>3, <1>6 DEF IInv, Storage
<1>10. Calls' BY <1>1, <1>3, <1>4 DEF IInv, Calls, GoesOn, Allocating
<1>11. CallsKeepBuffers'
  <2>1. \A u \in Thread \ {t} : call[u].handle = h => call[u].at \notin Holding
    <3>1. \A u \in Thread : Flags(call[u].op) # {} BY DEF Flags
    <3> QED BY <1>1, <3>1, CallKinds DEF IInv, CallsKeepBuffers, Holding, Active
  <2>2. ASSUME NEW u \in Thread \ {t}, call[u] # NoCall
        PROVE  LET k == call[u].handle IN
               IF call[u].at \in Holding
               THEN /\ buf'[k].state = "EXPIRED" \/ (Active(k) /\ buf'[k].map = Flags(call[u].op))
                    /\ \A w \in Thread \ {u} : call'[w].handle = k /\ Active(k) => call'[w].at \notin Holding
               ELSE buf'[k].state = "DELETED" => buf'[k].address \in Contested
    <3>1. call[u].handle \in Handle BY <2>2, CallKinds
    <3>2. CASE call[u].at \in Holding
      <4>1. call[u].handle # h BY <2>1, <3>2
      <4> QED BY <3>1, <3>2, <4>1, <2>2, <1>3, <1>4 DEF IInv, CallsKeepBuffers, GoesOn, Holding
    <3>3. CASE call[u].at \notin Holding
      BY <3>1, <3>3, <2>2, <1>3 DEF IInv, CallsKeepBuffers, Holding
    <3> QED BY <3>2, <3>3
  <2>3. /\ buf'[call'[t].handle].state = "ACTIVE" /\ buf'[call'[t].handle].map = Flags(call'[t].op)
        /\ call'[t].at \in Holding
        /\ \A u \in Thread \ {t} : call'[u].handle = call'[t].handle => call'[u].at \notin Holding
    BY <2>1, <1>1, <1>3, <1>4, <1>5 DEF GoesOn, Active
  <2>4. ASSUME NEW u \in Thread \ {t}, call'[u] # NoCall
        PROVE  IF call'[u].at \in Holding
               THEN /\ \/ buf'[call'[u].handle].state = "EXPIRED"
                       \/ /\ buf'[call'[u].handle].state = "ACTIVE"
                          /\ buf'[call'[u].handle].map = Flags(call'[u].op)
                    /\ \A w \in Thread \ {u} :
                         call'[w].handle = call'[u].handle /\ buf'[call'[u].handle].state = "ACTIVE"
                           => call'[w].at \notin Holding
               ELSE buf'[call'[u].handle].state = "DELETED" => buf'[call'[u].handle].address \in Contested'
    <3>1. call'[u] = call[u] /\ call[u].handle \in Handle BY <2>4, <1>4, CallKinds DEF GoesOn
    <3> QED BY <2>2, <2>4, <3>1, <1>3, <1>7 DEF Active
  <2> QED BY <2>3, <2>4 DEF CallsKeepBuffers, Holding, Active
<1>12. Grants'
  BY <1>1, <1>3, <1>6, <1>7 DEF IInv, Grants, AllocatorsTypeOK
<1>13. Table' BY <1>1, <1>3, <1>6 DEF IInv, Table, AllocatorsTypeOK
<1>14. Reached'
  <2>1. \A g \in grants : g.handle \in Handle \ {h} \/ (g.handle = h /\ buf[h].address = g.address)
    BY DEF IInv, AllocatorsTypeOK, Grants
  <2> QED BY <2>1, <1>1, <1>3, <1>6, <1>7 DEF IInv, Reached
<1>15. NothingOrphaned' BY <1>1, <1>3, <1>6, <1>7 DEF IInv, NothingOrphaned
<1>16. Copies'
  <2>1. \A k \in Handle : ReadsStored(k) => ReadsStored(k)' BY <1>1, <1>3, <1>6 DEF ReadsStored
  <2>2. \A u \in Thread : call[u].at = "copying" => call'[u] = call[u]
    BY <1>1, <1>4 DEF GoesOn
  <2>3. call'[t].op = "read" => call'[t].at # "unmap" BY <1>4 DEF GoesOn
  <2>4. \A u \in Thread \ {t} : call'[u].at = "unmap" => call'[u] = call[u] /\ call[u].handle \in Handle
    BY <1>4, CallKinds DEF GoesOn
  <2> QED BY <2>1, <2>2, <2>3, <2>4, <1>6 DEF IInv, Copies
<1>17. ReadsWhole' BY <1>4, <1>5 DEF IInv, ReadsWhole, GoesOn, Holding
<1> QED BY <1>8, <1>9, <1>10, <1>11, <1>12, <1>13, <1>14, <1>15, <1>16, <1>17 DEF IInv

\* A copy changes what is stored, and the point its call is at.
LEMMA CopyingGood ==
  ASSUME IInv, UNCHANGED <<tick, table, grants>>, contents' \in [Address -> Values],
         strayed' \subseteq Address, Copies',
         buf' \in [Handle -> BufferType],
         \A k \in Handle : /\ buf'[k].state = buf[k].state /\ buf'[k].origin = buf[k].origin
                           /\ buf'[k].address = buf[k].address /\ buf'[k].exposed = buf[k].exposed
                           /\ buf'[k].map = buf[k].map /\ buf'[k].contested = buf[k].contested,
         call' \in [Thread -> CallType],
         \A u \in Thread :
           \/ call'[u] = call[u]
           \/ /\ call[u].op \in {"read", "write"} /\ call[u].at \in {"copy", "copying"}
              /\ call'[u].op = call[u].op /\ call'[u].handle = call[u].handle
              /\ call'[u].at = "unmap" \/ (call'[u].at = "copying" /\ call[u].op = "write")
  PROVE  IInv'
<1>1. Contested' = Contested BY DEF Contested
<1>2. \A k \in Handle : (InUse(k)' <=> InUse(k)) /\ (Active(k)' <=> Active(k))
  BY DEF InUse, Active
<1>3. \A u \in Thread : /\ call'[u] # NoCall => call[u] # NoCall
                        /\ call'[u].op = call[u].op /\ call'[u].handle = call[u].handle
                        /\ (call'[u].at \in Holding) <=> (call[u].at \in Holding)
  BY CallKinds DEF Holding, Allocating
<1>4. AllocatorsTypeOK' BY <1>2 DEF IInv, AllocatorsTypeOK
<1>5. Storage' BY <1>2 DEF IInv, Storage
<1>6. Calls' BY <1>3 DEF IInv, Calls, Allocating
<1>7. CallsKeepBuffers'
  <2>1. ASSUME NEW u \in Thread, call'[u] # NoCall
        PROVE  LET k == call'[u].handle IN
               IF call'[u].at \in Holding
               THEN /\ \/ buf'[k].state = "EXPIRED"
                       \/ buf'[k].state = "ACTIVE" /\ buf'[k].map = Flags(call'[u].op)
                    /\ \A w \in Thread \ {u} : call'[w].handle = k /\ buf'[k].state = "ACTIVE"
                                                => call'[w].at \notin Holding
               ELSE buf'[k].state = "DELETED" => buf'[k].address \in Contested'
    <3>1. call[u] # NoCall /\ call[u].handle \in Handle BY <2>1, <1>3, CallKinds
    <3>2. CASE call[u].at \in Holding
      BY <3>1, <3>2, <1>1, <1>2, <1>3 DEF IInv, CallsKeepBuffers, Holding, Active
    <3>3. CASE call[u].at \notin Holding
      BY <3>1, <3>3, <1>1, <1>2, <1>3 DEF IInv, CallsKeepBuffers, Holding
    <3> QED BY <3>2, <3>3
  <2> QED BY <2>1 DEF CallsKeepBuffers, Holding, Active
<1>8. Grants' BY <1>1, <1>2 DEF IInv, Grants, AllocatorsTypeOK
<1>9. Table' BY <1>2 DEF IInv, Table, AllocatorsTypeOK
<1>10. Reached' BY <1>1, <1>2 DEF IInv, Reached, AllocatorsTypeOK
<1>11. NothingOrphaned' BY <1>1, <1>2 DEF IInv, NothingOrphaned
<1>12. ReadsWhole' BY <1>3 DEF IInv, ReadsWhole
<1> QED BY <1>4, <1>5, <1>6, <1>7, <1>8, <1>9, <1>10, <1>11, <1>12 DEF IInv

\* A value put where a buffer is, or was, is what it stores, or strayed.
LEMMA PutAtStored ==
  ASSUME IInv, NEW h \in Handle, buf[h].state # "NEW", NEW v \in Values, PutAt(h, buf[h].address, v)
  PROVE  /\ contents' \in [Address -> Values] /\ strayed' \subseteq Address
         /\ buf' \in [Handle -> BufferType]
         /\ \A k \in Handle : /\ buf'[k].state = buf[k].state /\ buf'[k].origin = buf[k].origin
                              /\ buf'[k].address = buf[k].address /\ buf'[k].exposed = buf[k].exposed
                              /\ buf'[k].map = buf[k].map /\ buf'[k].contested = buf[k].contested
         /\ Active(h) => ReadsStored(h)'
         /\ \A k \in Handle \ {h} : Active(k) /\ ReadsStored(k) => ReadsStored(k)'
<1> DEFINE a == buf[h].address
<1>1. /\ a \in Address /\ contents' = [contents EXCEPT ![a] = v] /\ contents \in [Address -> Values]
      /\ buf \in [Handle -> BufferType] /\ buf[h] \in BufferType /\ strayed \subseteq Address
  BY DEF PutAt, IInv, Storage, AllocatorsTypeOK
<1>2. CASE Active(h)
  <2>1. buf' = [buf EXCEPT ![h].stored = v] /\ strayed' = strayed BY <1>2 DEF PutAt
  <2>2. [buf[h] EXCEPT !.stored = v] \in BufferType BY <1>1 DEF BufferType
  <2>3. /\ buf' \in [Handle -> BufferType] /\ buf'[h].stored = v
        /\ \A k \in Handle \ {h} : buf'[k] = buf[k]
        /\ \A k \in Handle : /\ buf'[k].state = buf[k].state /\ buf'[k].origin = buf[k].origin
                             /\ buf'[k].address = buf[k].address /\ buf'[k].exposed = buf[k].exposed
                             /\ buf'[k].map = buf[k].map /\ buf'[k].contested = buf[k].contested
    BY <1>1, <2>1, <2>2 DEF BufferType
  <2>4. \A k \in Handle \ {h} : Active(k) => buf[k].address \in Address /\ buf[k].address # a
    BY <1>2 DEF IInv, Storage, Active
  <2> QED BY <1>1, <1>2, <2>1, <2>3, <2>4 DEF ReadsStored, Active
<1>3. CASE ~Active(h)
  <2>1. buf' = buf /\ strayed' = strayed \cup {a} BY <1>3 DEF PutAt
  <2> QED BY <1>1, <1>3, <2>1 DEF ReadsStored, Active
<1> QED BY <1>2, <1>3

LEMMA StoreGood == ASSUME IInv, NEW g \in grants, Store(g) PROVE IInv'
<1>1. /\ g.handle \in Handle /\ buf[g.handle].state # "NEW" /\ buf[g.handle].address = g.address
      /\ "app" \in Values /\ ~Active(g.handle) /\ UNCHANGED <<tick, table, call, grants>>
  BY DEF Store, IInv, Grants, AllocatorsTypeOK, Values
<1>2. PutAt(g.handle, buf[g.handle].address, "app") BY <1>1 DEF Store
<1>3. Copies'
  <2>1. \A k \in Handle : Active(k)' => Active(k) /\ k # g.handle
    BY <1>1, <1>2, PutAtStored DEF Active
  <2>2. \A t \in Thread : call[t].at = "unmap" => call[t].handle \in Handle
    BY CallKinds
  <2> QED BY <2>1, <2>2, <1>1, <1>2, PutAtStored DEF IInv, Copies
<1> QED BY <1>1, <1>2, <1>3, PutAtStored, CopyingGood DEF IInv, AllocatorsTypeOK

\* The call that copies is a transfer of an allocated buffer.
LEMMA Copying ==
  ASSUME IInv, NEW t \in Thread, call[t].at \in {"copy", "copying"}
  PROVE  /\ call[t] # NoCall /\ call[t].op \in {"read", "write"} /\ call[t].handle \in Handle
         /\ buf[call[t].handle].state # "NEW"
         /\ call[t].at = "copying" => call[t].op = "write"
BY CallKinds DEF IInv, Calls

\* The read of a buffer that is still there finds no write in the middle.
LEMMA CopyReadsGood ==
  ASSUME IInv, NEW t \in Thread, call[t].at = "copy", call[t].op = "read",
         call' = [call EXCEPT ![t].at = "unmap", ![t].whole = ReadsStored(call[t].handle)],
         UNCHANGED <<tick, buf, table, grants, memory>>
  PROVE  IInv'
<1> DEFINE h == call[t].handle
<1>1. call[t] # NoCall /\ h \in Handle BY Copying
<1>2. /\ call' \in [Thread -> CallType] /\ \A u \in Thread \ {t} : call'[u] = call[u]
      /\ call'[t].op = "read" /\ call'[t].handle = h /\ call'[t].at = "unmap"
      /\ call'[t].whole = ReadsStored(h)
  BY DEF IInv, AllocatorsTypeOK, CallType, ReadsStored, Active
<1>3. Active(h) => ReadsStored(h)
  BY <1>1 DEF IInv, Copies, CallsKeepBuffers
<1>4. Copies'
  <2>1. \A k \in Handle : (ReadsStored(k)' <=> ReadsStored(k)) /\ (Active(k)' <=> Active(k))
    BY DEF ReadsStored, Active, memory
  <2>2. \A u \in Thread : call[u].at = "copying" => call'[u] = call[u] BY <1>2
  <2>3. \A u \in Thread : call'[u].at = "unmap" => call'[u].handle \in Handle
    BY <1>1, <1>2, CallKinds
  <2> QED BY <1>2, <1>3, <2>1, <2>2, <2>3 DEF IInv, Copies, Active
<1> QED BY <1>1, <1>2, <1>4, CopyingGood DEF IInv, AllocatorsTypeOK, memory

\* A write in the middle.
LEMMA CopyBeginsGood ==
  ASSUME IInv, NEW t \in Thread, call[t].at = "copy", call[t].op = "write",
         call' = [call EXCEPT ![t].at = "copying"],
         contents' = [contents EXCEPT ![buf[call[t].handle].address] = "torn"],
         strayed' = IF Active(call[t].handle) THEN strayed
                    ELSE strayed \cup {buf[call[t].handle].address},
         UNCHANGED <<tick, buf, table, grants>>
  PROVE  IInv'
<1> DEFINE h == call[t].handle
           a == buf[h].address
<1>1. call[t] # NoCall /\ h \in Handle /\ a \in Address BY Copying DEF IInv, Storage
<1>2. /\ call' \in [Thread -> CallType] /\ \A u \in Thread \ {t} : call'[u] = call[u]
      /\ call'[t].op = "write" /\ call'[t].handle = h /\ call'[t].at = "copying"
  BY DEF IInv, AllocatorsTypeOK, CallType
<1>3. /\ contents \in [Address -> Values] /\ contents' \in [Address -> Values]
      /\ strayed' \subseteq Address
  BY <1>1 DEF IInv, AllocatorsTypeOK, Values
<1>4. Copies'
  <2>1. \A k \in Handle \ {h} : Active(k) /\ ReadsStored(k) => ReadsStored(k)'
    BY <1>1, <1>3 DEF ReadsStored, Active, IInv, Storage
  <2>2. \A u \in Thread \ {t} : call'[u].at = "unmap" => call'[u] = call[u] /\ call'[u].handle \in Handle
    BY <1>2, CallKinds
  <2>3. \A u \in Thread : call[u].at = "copying" => call'[u] = call[u] BY <1>2
  <2> QED BY <1>1, <1>2, <2>1, <2>2, <2>3 DEF IInv, Copies, Active
<1> QED BY <1>1, <1>2, <1>3, <1>4, CopyingGood DEF IInv, AllocatorsTypeOK

LEMMA CopyEndsGood ==
  ASSUME IInv, NEW t \in Thread, call[t].at = "copying",
         call' = [call EXCEPT ![t].at = "unmap"],
         PutAt(call[t].handle, buf[call[t].handle].address, t),
         UNCHANGED <<tick, table, grants>>
  PROVE  IInv'
<1> DEFINE h == call[t].handle
<1>1. /\ call[t] # NoCall /\ h \in Handle /\ buf[h].state # "NEW" /\ call[t].op = "write"
      /\ t \in Values
  BY Copying DEF Values
<1>2. /\ call' \in [Thread -> CallType] /\ \A u \in Thread \ {t} : call'[u] = call[u]
      /\ call'[t].op = "write" /\ call'[t].handle = h /\ call'[t].at = "unmap"
  BY <1>1 DEF IInv, AllocatorsTypeOK, CallType
<1>3. Copies'
  <2>1. \A k \in Handle : Active(k)' <=> Active(k) BY <1>1, PutAtStored DEF Active
  <2>2. \A u \in Thread \ {t} : call'[u].at = "unmap" => call'[u] = call[u] /\ call'[u].handle \in Handle
    BY <1>2, CallKinds
  <2>3. \A u \in Thread \ {t} : call[u].at = "copying" => call'[u] = call[u] BY <1>2
  <2>4. \A k \in Handle : Active(k)' =>
           ReadsStored(k)' \/ \E u \in Thread : call'[u].handle = k /\ call'[u].at = "copying"
    BY <1>1, <2>1, <2>3, PutAtStored DEF IInv, Copies
  <2> QED BY <1>2, <2>1, <2>2, <2>4 DEF IInv, Copies, Active
<1> QED BY <1>1, <1>2, <1>3, PutAtStored, CopyingGood

LEMMA CopyGood == ASSUME IInv, NEW t \in Thread, Copy(t) PROVE IInv'
BY CopyReadsGood, CopyBeginsGood, CopyEndsGood DEF Copy, memory

\* What an unmapping does to the buffer, which no other call has mapped.
LEMMA UnmappedBuffer ==
  ASSUME IInv, NEW t \in Thread, Unmap(t), StillMapped(call[t].handle)
  PROVE  LET h == call[t].handle IN
         /\ call[t].at = "unmap" /\ call[t] # NoCall /\ h \in Handle /\ Active(h)
         /\ call[t].op \in Allocating \cup {"read", "write"} /\ buf[h].address \in Address
         /\ buf[h].exposed = buf[h].address /\ buf' \in [Handle -> BufferType]
         /\ \A k \in Handle : /\ buf'[k].state = buf[k].state /\ buf'[k].origin = buf[k].origin
                              /\ buf'[k].address = buf[k].address /\ buf'[k].exposed = buf[k].exposed
                              /\ buf'[k].stored = buf[k].stored /\ buf'[k].contested = buf[k].contested
                              /\ buf'[k].map = buf[k].map \/ (k = h /\ buf'[k].map = {})
         /\ \A u \in Thread \ {t} : call[u].handle = h => call[u].at \notin Holding
<1> DEFINE h == call[t].handle
           written == IF "W" \in buf[h].map THEN tick ELSE buf[h].written
<1>1. /\ call[t].at = "unmap" /\ call[t] # NoCall /\ h \in Handle /\ Active(h) /\ buf[h].map # {}
      /\ call[t].op \in Allocating \cup {"read", "write"}
  BY CallKinds DEF Unmap, StillMapped, NoCall
<1>2. buf[h].address \in Address /\ buf[h].exposed = buf[h].address
  BY <1>1 DEF IInv, Storage, Active
<1>3. /\ buf \in [Handle -> BufferType] /\ buf[h] \in BufferType /\ tick \in Nat
      /\ buf' = [buf EXCEPT ![h].map = {}, ![h].written = written]
  BY <1>1, AllocatorAssumption DEF IInv, AllocatorsTypeOK, Unmap, Unmaps
<1>4. [buf[h] EXCEPT !.map = {}, !.written = written] \in BufferType BY <1>3 DEF BufferType
<1>5. \A u \in Thread \ {t} : call[u].handle = h => call[u].at \notin Holding
  BY <1>1 DEF IInv, CallsKeepBuffers, Holding, Active
<1> QED BY <1>1, <1>2, <1>3, <1>4, <1>5 DEF BufferType

\* A transfer goes on to record its access, an allocation that failed to free its buffer.
LEMMA UnmapGoesOnGood ==
  ASSUME IInv, NEW t \in Thread, Unmap(t), StillMapped(call[t].handle), UNCHANGED <<table, grants>>,
         \/ call[t].op \in {"read", "write"} /\ call' = [call EXCEPT ![t].at = "record"]
         \/ call[t].op \in Allocating /\ call' = [call EXCEPT ![t].at = "free"]
  PROVE  IInv'
<1> DEFINE h == call[t].handle
<1>1. /\ call[t].at = "unmap" /\ call[t] # NoCall /\ h \in Handle /\ Active(h)
      /\ buf[h].address \in Address
      /\ buf[h].exposed = buf[h].address /\ buf' \in [Handle -> BufferType]
      /\ \A k \in Handle : /\ buf'[k].state = buf[k].state /\ buf'[k].origin = buf[k].origin
                           /\ buf'[k].address = buf[k].address /\ buf'[k].exposed = buf[k].exposed
                           /\ buf'[k].stored = buf[k].stored /\ buf'[k].contested = buf[k].contested
                           /\ buf'[k].map = buf[k].map \/ (k = h /\ buf'[k].map = {})
      /\ \A u \in Thread \ {t} : call[u].handle = h => call[u].at \notin Holding
      /\ UNCHANGED <<tick, contents, strayed>>
  BY UnmappedBuffer DEF Unmap, memory
<1>2. /\ GoesOn(t) /\ call'[t].whole = call[t].whole
      /\ \/ call[t].op \in {"read", "write"} /\ call'[t].at = "record"
         \/ call[t].op \in Allocating /\ call'[t].at = "free"
  BY DEF GoesOn, IInv, AllocatorsTypeOK, CallType
<1>3. call'[t] # NoCall /\ call'[t].at \notin Holding BY <1>2 DEF NoCall, Holding
<1>4. Contested' = Contested BY <1>1 DEF Contested
<1>5. \A k \in Handle : (InUse(k)' <=> InUse(k)) /\ (Active(k)' <=> Active(k))
  BY <1>1, <1>2 DEF InUse, GoesOn, Active
<1>6. AllocatorsTypeOK' BY <1>1, <1>2, <1>5 DEF IInv, AllocatorsTypeOK, GoesOn
<1>7. Storage' BY <1>1, <1>5 DEF IInv, Storage
<1>8. Calls' BY <1>1, <1>2 DEF IInv, Calls, GoesOn, Allocating
<1>9. CallsKeepBuffers'
  <2>1. ASSUME NEW u \in Thread \ {t}, call'[u] # NoCall
        PROVE  LET k == call'[u].handle IN
               IF call'[u].at \in Holding
               THEN /\ \/ buf'[k].state = "EXPIRED"
                       \/ buf'[k].state = "ACTIVE" /\ buf'[k].map = Flags(call'[u].op)
                    /\ \A w \in Thread \ {u} : call'[w].handle = k /\ buf'[k].state = "ACTIVE"
                                                => call'[w].at \notin Holding
               ELSE buf'[k].state = "DELETED" => buf'[k].address \in Contested'
    <3>1. call'[u] = call[u] /\ call[u].handle \in Handle BY <2>1, <1>2, CallKinds DEF GoesOn
    <3>2. CASE call[u].at \in Holding
      <4>1. call[u].handle # h BY <3>2, <1>1
      <4>2. /\ buf[call[u].handle].state = "EXPIRED" \/ (Active(call[u].handle) /\ buf[call[u].handle].map = Flags(call[u].op))
            /\ \A w \in Thread \ {u} : call[w].handle = call[u].handle /\ Active(call[u].handle)
                                                => call[w].at \notin Holding
        BY <2>1, <3>1, <3>2 DEF IInv, CallsKeepBuffers, Holding
      <4> QED BY <3>1, <3>2, <4>1, <4>2, <1>1, <1>2, <1>3 DEF Active, GoesOn
    <3>3. CASE call[u].at \notin Holding
      BY <3>1, <3>3, <2>1, <1>1, <1>4 DEF IInv, CallsKeepBuffers, Holding
    <3> QED BY <3>2, <3>3
  <2>2. buf'[call'[t].handle].state # "DELETED" BY <1>1, <1>2 DEF GoesOn, Active
  <2> QED BY <2>1, <2>2, <1>3 DEF CallsKeepBuffers, Holding, Active
<1>10. Grants' BY <1>1, <1>4, <1>5 DEF IInv, Grants, AllocatorsTypeOK
<1>11. Table' BY <1>1, <1>5 DEF IInv, Table, AllocatorsTypeOK
<1>12. Reached' BY <1>1, <1>4, <1>5 DEF IInv, Reached, AllocatorsTypeOK
<1>13. NothingOrphaned' BY <1>1, <1>4, <1>5 DEF IInv, NothingOrphaned
<1>14. Copies'
  <2>1. \A k \in Handle : ReadsStored(k) => ReadsStored(k)' BY <1>1, <1>5 DEF ReadsStored
  <2>2. \A u \in Thread : call[u].at = "copying" => call'[u] = call[u] BY <1>1, <1>2 DEF GoesOn
  <2>3. \A u \in Thread : call'[u].at = "unmap" => call'[u] = call[u] /\ call[u].handle \in Handle
    BY <1>2, <1>3, CallKinds DEF GoesOn, Holding
  <2> QED BY <2>1, <2>2, <2>3, <1>1, <1>5 DEF IInv, Copies, Active
<1>15. ReadsWhole'
  BY <1>1, <1>2 DEF IInv, ReadsWhole, Copies, GoesOn
<1> QED BY <1>6, <1>7, <1>8, <1>9, <1>10, <1>11, <1>12, <1>13, <1>14, <1>15 DEF IInv

\* The pointer that is handed out is that of the buffer just allocated; another pointer
\* to its storage, or an entry that stays in the table, means that it was contested.
LEMMA GrantedGood ==
  ASSUME IInv, NEW t \in Thread, Unmap(t), StillMapped(call[t].handle),
         call[t].op \in Allocating, Granted(t)
  PROVE  IInv'
<1> DEFINE h == call[t].handle
           a == buf[h].address
           g == [handle |-> h, address |-> a, origin |-> call[t].op]
<1>1. /\ call[t].at = "unmap" /\ call[t] # NoCall /\ h \in Handle /\ Active(h)
      /\ a \in Address
      /\ buf[h].exposed = buf[h].address /\ buf' \in [Handle -> BufferType]
      /\ \A k \in Handle : /\ buf'[k].state = buf[k].state /\ buf'[k].origin = buf[k].origin
                           /\ buf'[k].address = buf[k].address /\ buf'[k].exposed = buf[k].exposed
                           /\ buf'[k].stored = buf[k].stored /\ buf'[k].contested = buf[k].contested
                           /\ buf'[k].map = buf[k].map \/ (k = h /\ buf'[k].map = {})
      /\ UNCHANGED <<tick, contents, strayed>>
  BY UnmappedBuffer DEF Unmap, memory
<1>2. /\ grants' = grants \cup {g} /\ g.handle = h /\ g.address = a /\ g.origin = call[t].op
      /\ g \in [handle : Handle, address : Address, origin : Origins]
      /\ buf[h].origin = call[t].op /\ buf[h].state # "NEW"
  BY <1>1 DEF Granted, Origins, Allocating, IInv, Calls
<1>3. /\ table \in [Address -> Handle \cup {Nil}] /\ table' \in [Address -> Handle \cup {Nil}]
      /\ \A b \in Address : table'[b] = table[b] \/ (b = a /\ table'[b] = h /\ call[t].op = "resource" /\ table[b] = Nil)
      /\ call[t].op = "resource" => table'[a] = h \/ table[a] # Nil
  BY <1>1 DEF Granted, IInv, AllocatorsTypeOK
<1>4. /\ call' \in [Thread -> CallType] /\ call'[t] = NoCall
      /\ \A u \in Thread \ {t} : call'[u] = call[u]
      /\ \A u \in Thread \ {t} : call[u].handle # h
      /\ NoCall.handle = Nil /\ NoCall.op = "none" /\ NoCall.at = "none"
  <2>1. NoCall \in CallType BY DEF NoCall, CallType
  <2>2. \A u \in Thread \ {t} : call[u].handle # h BY DEF IInv, Calls
  <2> QED BY <2>1, <2>2 DEF Granted, IInv, AllocatorsTypeOK, NoCall
<1> HIDE DEF g
<1>5. Contested' = Contested BY <1>1 DEF Contested
<1>6. /\ \A k \in Handle : Active(k)' <=> Active(k)
      /\ \A k \in Handle \ {h} : InUse(k)' <=> InUse(k)
      /\ \A u \in Thread : call'[u].handle # h
  <2>1. \A u \in Thread : call'[u].handle # h BY <1>1, <1>4, AllocatorAssumption
  <2>2. \A u \in Thread, k \in Handle \ {h} : (call'[u].handle = k) <=> (call[u].handle = k)
    BY <1>1, <1>4, AllocatorAssumption
  <2>3. \A k \in Handle : Active(k)' <=> Active(k) BY <1>1 DEF Active
  <2> QED BY <2>1, <2>2, <2>3, <1>1 DEF InUse
\* Other pointers to the storage are from before it was allocated.
<1>7. \A o \in grants : /\ o.handle \in Handle \ {h}
                        /\ o.address = a => a \in Contested
  <2>1. \A o \in grants : o.handle \in Handle \ {h} BY DEF IInv, AllocatorsTypeOK, Grants, InUse
  <2> QED BY <2>1, <1>1 DEF IInv, Grants, Contested
<1>8. table[a] # Nil => a \in Contested
  BY <1>1, <1>7 DEF IInv, Table
<1>9. AllocatorsTypeOK' BY <1>1, <1>2, <1>3, <1>4, <1>6 DEF IInv, AllocatorsTypeOK
<1>10. Storage' BY <1>1, <1>6 DEF IInv, Storage
<1>11. Calls'
  <2>1. ASSUME NEW u \in Thread, NEW w \in Thread, call'[u].op \in Allocating, call'[w].handle = call'[u].handle
        PROVE  w = u
    <3>1. u # t /\ call[u].handle \in Handle BY <2>1, <1>4, CallKinds DEF Allocating
    <3>2. w # t BY <3>1, <2>1, <1>4, AllocatorAssumption
    <3> QED BY <3>1, <3>2, <2>1, <1>4 DEF IInv, Calls
  <2> QED BY <2>1, <1>1, <1>4 DEF IInv, Calls
<1>12. CallsKeepBuffers'
  <2>1. ASSUME NEW u \in Thread \ {t}, call'[u] # NoCall
        PROVE  LET k == call'[u].handle IN
               IF call'[u].at \in Holding
               THEN /\ \/ buf'[k].state = "EXPIRED"
                       \/ buf'[k].state = "ACTIVE" /\ buf'[k].map = Flags(call'[u].op)
                    /\ \A w \in Thread \ {u} : call'[w].handle = k /\ buf'[k].state = "ACTIVE"
                                                => call'[w].at \notin Holding
               ELSE buf'[k].state = "DELETED" => buf'[k].address \in Contested'
    <3>1. call'[u] = call[u] /\ call[u].handle \in Handle \ {h} BY <2>1, <1>4, CallKinds
    <3>2. CASE call[u].at \in Holding
      <4>1. /\ \/ buf[call[u].handle].state = "EXPIRED"
               \/ Active(call[u].handle) /\ buf[call[u].handle].map = Flags(call[u].op)
            /\ \A w \in Thread \ {u} : call[w].handle = call[u].handle /\ Active(call[u].handle)
                                                => call[w].at \notin Holding
        BY <2>1, <3>1, <3>2 DEF IInv, CallsKeepBuffers, Holding
      <4> QED BY <3>1, <3>2, <4>1, <1>1, <1>4 DEF Active, Holding
    <3>3. CASE call[u].at \notin Holding
      BY <3>1, <3>3, <2>1, <1>1, <1>5 DEF IInv, CallsKeepBuffers, Holding
    <3> QED BY <3>2, <3>3
  <2> QED BY <2>1, <1>4 DEF CallsKeepBuffers, Holding, Active
<1>13. Grants'
  <2>1. ASSUME NEW o \in grants
        PROVE  /\ o.origin \in Allocating /\ buf'[o.handle].state # "NEW"
               /\ buf'[o.handle].origin = o.origin /\ buf'[o.handle].address = o.address
               /\ ~InUse(o.handle)'
               /\ \A k \in Handle : Active(k)' /\ buf'[k].address = o.address => k = o.handle \/ buf'[k].contested
               /\ \A p \in grants' : p.address = o.address => p = o \/ o.address \in Contested'
    BY <1>1, <1>2, <1>5, <1>6, <1>7 DEF IInv, Grants
  <2>2. /\ g.origin \in Allocating /\ buf'[g.handle].state # "NEW"
        /\ buf'[g.handle].origin = g.origin /\ buf'[g.handle].address = g.address
        /\ \A u \in Thread : call'[u].handle # g.handle
        /\ \A k \in Handle : Active(k)' /\ buf'[k].address = g.address => k = g.handle \/ buf'[k].contested
        /\ \A p \in grants' : p.address = g.address => p = g \/ g.address \in Contested'
    BY <1>1, <1>2, <1>5, <1>6, <1>7 DEF IInv, Storage
  <2> QED BY <2>1, <2>2, <1>2 DEF Grants, InUse
<1>14. Table'
  <2>1. ASSUME NEW b \in Address, table'[b] # Nil
        PROVE  /\ buf'[table'[b]].state # "NEW" /\ buf'[table'[b]].origin = "resource"
               /\ buf'[table'[b]].address = b /\ \A u \in Thread : call'[u].handle # table'[b]
               /\ \E o \in grants' : o.address = b /\ o.origin = "resource"
    <3>1. CASE table'[b] = table[b]
      <4>1. table[b] \in Handle \ {h} BY <3>1, <2>1, <1>3 DEF IInv, Table, InUse
      <4> QED BY <3>1, <4>1, <2>1, <1>1, <1>2, <1>6 DEF IInv, Table, InUse
    <3>2. CASE table'[b] # table[b]
      BY <3>2, <1>1, <1>2, <1>3, <1>6 DEF InUse
    <3> QED BY <3>1, <3>2
  <2> QED BY <2>1 DEF Table, InUse
<1>15. Reached'
  <2>1. ASSUME NEW o \in grants
        PROVE  \/ buf'[o.handle].state = "EXPIRED" \/ o.address \in Contested'
               \/ /\ buf'[o.handle].state = "ACTIVE" /\ buf'[o.handle].exposed = o.address
                  /\ o.origin = "resource" => table'[o.address] = o.handle
    <3>1. CASE o.address = a BY <3>1, <1>5, <1>7
    <3>2. CASE o.address # a
      BY <3>2, <1>1, <1>3, <1>5, <1>7 DEF IInv, Reached, AllocatorsTypeOK, Active
    <3> QED BY <3>1, <3>2
  <2>2. \/ g.address \in Contested'
        \/ /\ buf'[g.handle].state = "ACTIVE" /\ buf'[g.handle].exposed = g.address
           /\ g.origin = "resource" => table'[g.address] = g.handle
    BY <1>1, <1>2, <1>3, <1>5, <1>8 DEF Active
  <2> QED BY <2>1, <2>2, <1>2 DEF Reached, Active
<1>16. NothingOrphaned'
  BY <1>1, <1>2, <1>5, <1>6 DEF IInv, NothingOrphaned
<1>17. Copies'
  <2>1. \A k \in Handle : ReadsStored(k) => ReadsStored(k)' BY <1>1, <1>6 DEF ReadsStored
  <2>2. \A u \in Thread : call[u].at = "copying" => call'[u] = call[u] BY <1>1, <1>4
  <2>3. \A u \in Thread : call'[u].at = "unmap" => call'[u] = call[u] /\ call[u].handle \in Handle
    BY <1>4, CallKinds
  <2> QED BY <2>1, <2>2, <2>3, <1>1, <1>6 DEF IInv, Copies, Active
<1>18. ReadsWhole' BY <1>4 DEF IInv, ReadsWhole
<1> QED BY <1>9, <1>10, <1>11, <1>12, <1>13, <1>14, <1>15, <1>16, <1>17, <1>18 DEF IInv

LEMMA UnmapGood == ASSUME IInv, NEW t \in Thread, Unmap(t) PROVE IInv'
<1>1. CASE ~StillMapped(call[t].handle) BY <1>1, UnmapMissesGood
<1>2. CASE StillMapped(call[t].handle)
  <2>1. \/ call[t].op \in Allocating /\ Granted(t)
        \/ /\ call[t].op \in {"read", "write"} /\ UNCHANGED <<table, grants>>
           /\ call' = [call EXCEPT ![t].at = "record"]
        \/ /\ call[t].op \in Allocating /\ UNCHANGED <<table, grants>>
           /\ call' = [call EXCEPT ![t].at = "free"]
    BY <1>2 DEF Unmap, Allocating, FailsAt
  <2> QED BY <2>1, <1>2, GrantedGood, UnmapGoesOnGood
<1> QED BY <1>1, <1>2

-----------------------------------------------------------------------------
(* The theorems.                                                             *)

LEMMA InitGood == ASSUME Init PROVE IInv
<1>1. NoCall \in CallType /\ New \in BufferType BY DEF NoCall, CallType, New, BufferType, Values
<1>2. AllocatorsTypeOK
  <2>1. tick \in 0..MaxTick BY AllocatorAssumption DEF Init
  <2>2. New.exposed = Nil BY DEF New
  <2>3. contents \in [Address -> Values] /\ table \in [Address -> Handle \cup {Nil}]
    BY DEF Init, Values
  <2> QED BY <1>1, <2>1, <2>2, <2>3 DEF Init, AllocatorsTypeOK
<1>3. Storage BY DEF Init, Storage, New, Active
<1>4. Calls BY DEF Init, Calls, NoCall, Allocating
<1>5. CallsKeepBuffers /\ ReadsWhole /\ Copies /\ NothingOrphaned
  BY DEF Init, CallsKeepBuffers, ReadsWhole, Copies, NothingOrphaned, NoCall, New, Active
<1>6. Grants /\ Table /\ Reached BY DEF Init, Grants, Table, Reached
<1> QED BY <1>2, <1>3, <1>4, <1>5, <1>6 DEF IInv

LEMMA StepGood == ASSUME IInv, [Next]_vars PROVE IInv'
<1>1. ASSUME NEW t \in Thread, Step(t) PROVE IInv'
  BY <1>1, BeginAllocationGood, BeginTransferGood, MapsGood, MapFailsGood, CopyGood, UnmapGood,
     RecordGood, FreeFailedGood DEF Step, Allocating
<1>2. ASSUME NEW h \in Handle, FreeHandle(h) \/ MarkWritten(h) \/ \E a \in Address : Alloc(h, a)
      PROVE  IInv'
  BY <1>2, FreeHandleGood, MarkWrittenGood, AllocGood
<1>3. ASSUME NEW g \in grants, FreePointer(g) \/ Deallocate(g) \/ Store(g) PROVE IInv'
  BY <1>3, FreePointerGood, DeallocateGood, StoreGood
<1>4. CASE UNCHANGED vars
  <2>1. Aging /\ UNCHANGED <<tick, call, table, grants, memory>>
    BY <1>4 DEF vars, Aging, Alike, IInv, AllocatorsTypeOK
  <2> QED BY <2>1, NobodyLeaves, AgingGood DEF IInv, AllocatorsTypeOK
<1> QED BY <1>1, <1>2, <1>3, <1>4, PollGood, RegionRefreshGood, AdvanceGood DEF Next

\* Every state of every run is one of the invariant.
THEOREM Invariance == Spec => []IInv
<1>1. Init => IInv BY InitGood
<1>2. IInv /\ [Next]_vars => IInv' BY StepGood
<1> QED BY <1>1, <1>2, PTL DEF Spec

\* Variables stay in their types, and pointers are exposed only to storage the buffer has.
THEOREM TypeCorrect == Spec => []AllocatorsTypeOK
<1>1. IInv => AllocatorsTypeOK BY DEF IInv
<1> QED BY <1>1, Invariance, PTL

\* Between its map and its unmap a buffer is the call's alone, unless it expires; and it
\* is freed under a call only by an older pointer to the same storage.
THEOREM BuffersKept == Spec => []CallsKeepBuffers
<1>1. IInv => CallsKeepBuffers BY DEF IInv
<1> QED BY <1>1, Invariance, PTL

\* A read that is answered read all of what was last written into the buffer.
THEOREM WholeReads == Spec => []ReadsWhole
<1>1. IInv => ReadsWhole BY DEF IInv
<1> QED BY <1>1, Invariance, PTL

\* A pointer frees the buffer it was handed out for, unless that one expired or the
\* storage was handed out twice.
THEOREM PointersCorrect == Spec => []PointersHold
<1>1. ASSUME IInv PROVE PointersHold
  <2>1. ASSUME NEW g \in grants, Active(g.handle), buf[g.handle].exposed = g.address
        PROVE  First(Exposed(g.address)) = g.handle
    <3>1. g.handle \in Exposed(g.address) /\ g.address \in Address
      BY <1>1, <2>1 DEF Exposed, Listed, Active, IInv, AllocatorsTypeOK
    <3> QED BY <3>1, <1>1, ExposedOnes
  <2> QED BY <2>1, <1>1 DEF IInv, Reached, PointersHold
<1> QED BY <1>1, Invariance, PTL

\* A buffer made for a pointer is still being made, or reached by a pointer that the
\* application holds, unless its storage was handed out twice.
THEOREM NothingLost == Spec => []NothingOrphaned
<1>1. IInv => NothingOrphaned BY DEF IInv
<1> QED BY <1>1, Invariance, PTL
=============================================================================
