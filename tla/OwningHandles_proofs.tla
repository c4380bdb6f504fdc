------------------------ MODULE OwningHandles_proofs ------------------------
(* The objects of the C++ API keep alive what they use, for every number of  *)
(* objects and handles and every order of their calls.                       *)
EXTENDS OwningHandles, TLAPS

\* Only what has storage is mapped.
MappedIsActive == \A h \in Buffer : mapping[h] # "none" => h \in active

\* Where there is no object nothing is held.
NothingWithoutObject == \A x \in Owner : ~owns[x].exists => owns[x].handles = {}

IInv == /\ OwnersTypeOK /\ NothingDangles /\ OwnedOnce /\ NothingLeaks
        /\ ViewsCloseTheirOwn /\ MappedIsActive /\ NothingWithoutObject

LEMMA Initially == Init => IInv
BY OwningAssumption
DEF Init, IInv, OwnersTypeOK, NothingDangles, OwnedOnce, NothingLeaks, ViewsCloseTheirOwn,
    MappedIsActive, NothingWithoutObject, NoObject, Owner, SharedVar, Shareable, Ownable

LEMMA BufferObjects ==
  ASSUME IInv, NEW b \in BufferVar
  PROVE  /\ b \in Owner /\ owns[b].handles \subseteq Buffer
         /\ owns[b].handles \subseteq live
         /\ \A h, k \in owns[b].handles : h = k
<1>1. b \in Owner /\ b \in Owner \ TraceVar /\ b \in Owner \ ResourceVar
  BY OwningAssumption DEF Owner
<1>2. \A x \in Owner \ TraceVar : owns[x].handles \subseteq Buffer
  BY Zenon DEF IInv, OwnersTypeOK
<1>3. \A x \in Owner \ ResourceVar : \A h, k \in owns[x].handles : h = k
  BY Zenon DEF IInv, OwnersTypeOK
<1>4. \A x \in Owner : owns[x].handles \subseteq live
  BY Zenon DEF IInv, NothingDangles
<1> QED BY <1>1, <1>2, <1>3, <1>4, Zenon

LEMMA HeldByBuffer ==
  ASSUME IInv, NEW b \in BufferVar, Usable(b)
  PROVE  owns[b].handles = {Held(b)} /\ Held(b) \in Buffer /\ Held(b) \in live
<1>1. PICK h \in owns[b].handles : TRUE
  BY DEF Usable
<1>2. /\ \A k, l \in owns[b].handles : k = l
      /\ owns[b].handles \subseteq Buffer /\ owns[b].handles \subseteq live
  BY BufferObjects, Zenon
<1>3. owns[b].handles = {h} /\ h \in Buffer /\ h \in live
  BY <1>1, <1>2
<1> QED BY <1>3 DEF Held

LEMMA Fresh ==
  ASSUME IInv, NEW h, h \notin made
  PROVE  /\ h \notin live /\ h \notin states /\ h \notin active
         /\ \A v \in SharedVar : h \in Shareable => shared[v] # h
         /\ \A x \in Owner : h \notin owns[x].handles /\ (h \in Shareable => owns[x].region # h)
         /\ \A k \in live : k # h
BY OwningAssumption DEF IInv, OwnersTypeOK, NothingDangles, SharedVar, Shareable

\* A view is still right when the buffer object it is on, and the mapping, are as before,
\* or the storage is gone.
LEMMA SameViews ==
  ASSUME IInv, UNCHANGED views,
         \A b \in BufferVar : Viewed(b) =>
           /\ owns'[b].handles = owns[b].handles
           /\ Held(b) \in active' => Held(b) \in active /\ mapping'[Held(b)] = mapping[Held(b)],
         \A h \in Buffer : mapping'[h] = "view" => mapping[h] = "view"
  PROVE  ViewsCloseTheirOwn'
<1>1. ASSUME NEW w \in ViewVar, views[w] \in BufferVar
      PROVE  /\ owns'[views[w]].handles = owns[views[w]].handles
             /\ Held(views[w])' = Held(views[w]) /\ Usable(views[w])'
             /\ Held(views[w]) \in active' => mapping'[Held(views[w])] = "view"
  <2>1. Viewed(views[w])
    BY <1>1 DEF Viewed
  <2>2. Usable(views[w]) /\ (Held(views[w]) \in active => mapping[Held(views[w])] = "view")
    BY <1>1 DEF IInv, ViewsCloseTheirOwn
  <2>3. owns'[views[w]].handles = owns[views[w]].handles
    BY <1>1, <2>1
  <2>4. Held(views[w])' = Held(views[w]) /\ Usable(views[w])'
    BY <2>2, <2>3 DEF Held, Usable
  <2> QED BY <1>1, <2>1, <2>2, <2>3, <2>4
<1>2. \A w \in ViewVar : views'[w] \in BufferVar =>
        LET h == Held(views[w])' IN Usable(views[w])' /\ (h \in active' => mapping'[h] = "view")
  BY <1>1
<1>3. \A h \in Buffer : mapping'[h] = "view" =>
        \E w \in ViewVar : views'[w] \in BufferVar /\ h \in owns'[views'[w]].handles
  BY <1>1 DEF IInv, ViewsCloseTheirOwn
<1>4. \A u, w \in ViewVar : u # w /\ views'[u] \in BufferVar => views'[u] # views'[w]
  BY DEF IInv, ViewsCloseTheirOwn
<1> QED BY <1>2, <1>3, <1>4 DEF ViewsCloseTheirOwn, Held, Usable

\* A region that is not deleted has its state.
LEMMA RegionsAreStates == IInv => \A k \in live : k \in Region => k \in states
BY OwningAssumption DEF IInv, OwnersTypeOK, NothingLeaks, Shareable, Ownable

LEMMA ViewedIsUsable ==
  ASSUME IInv, NEW b \in BufferVar, Viewed(b)
  PROVE  Usable(b)
BY DEF IInv, ViewsCloseTheirOwn, Viewed

-----------------------------------------------------------------------------
(* runtime and region                                                         *)

LEMMA SharedMoves ==
  ASSUME IInv, NEW v \in SharedVar, NEW w \in SharedVar, Copy(v, w) \/ Move(v, w) \/ Drop(v)
  PROVE  IInv'
<1>1. UNCHANGED <<owns, views, states, made, live, parent, active, mapping, unlisted>>
  BY DEF Copy, Move, Drop, handles
<1>2. /\ OwnedOnce' /\ NothingLeaks' /\ ViewsCloseTheirOwn' /\ MappedIsActive'
      /\ NothingWithoutObject'
  BY <1>1 DEF IInv, OwnedOnce, NothingLeaks, ViewsCloseTheirOwn, MappedIsActive, Held, Usable,
              NothingWithoutObject
<1>3. OwnersTypeOK'
  BY <1>1, OwningAssumption
  DEF IInv, OwnersTypeOK, Copy, Move, Drop, SameKind, SharedVar, Shareable
<1>4. NothingDangles'
  BY <1>1, OwningAssumption
  DEF IInv, OwnersTypeOK, NothingDangles, Copy, Move, Drop, SameKind, SharedVar, Shareable
<1> QED BY <1>2, <1>3, <1>4 DEF IInv

LEMMA RuntimeMade ==
  ASSUME IInv, NEW v \in RuntimeVar, NEW r \in Runtime, MakeRuntime(v, r)
  PROVE  IInv'
<1>1. /\ shared' = [shared EXCEPT ![v] = r] /\ states' = states \cup {r} /\ r \notin made
      /\ made' = made \cup {r} /\ live' = live \cup {r} /\ active' = active \cup {r}
      /\ UNCHANGED <<owns, views, parent, mapping, unlisted>>
  BY DEF MakeRuntime, New
<1>2. OwnersTypeOK'
  BY <1>1, OwningAssumption DEF IInv, OwnersTypeOK, SharedVar, Shareable, Ownable
<1>3. NothingDangles'
  BY <1>1, OwningAssumption DEF IInv, OwnersTypeOK, NothingDangles, SharedVar, Shareable
<1>4. OwnedOnce' /\ NothingLeaks' /\ MappedIsActive' /\ NothingWithoutObject'
  BY <1>1 DEF IInv, OwnedOnce, NothingLeaks, MappedIsActive, NothingWithoutObject
<1>5. ViewsCloseTheirOwn'
  BY <1>1, Fresh, SameViews, HeldByBuffer, ViewedIsUsable
<1> QED BY <1>2, <1>3, <1>4, <1>5 DEF IInv

LEMMA RegionMade ==
  ASSUME IInv, NEW v \in RegionVar, NEW o \in RuntimeVar, NEW g \in Region, MakeRegion(v, o, g)
  PROVE  IInv'
<1>0. shared[o] \in Runtime /\ shared[o] # Nil /\ shared[o] \in states
  BY OwningAssumption DEF MakeRegion, IInv, NothingDangles, SharedVar, Shareable
<1>1. /\ shared' = [shared EXCEPT ![v] = g] /\ states' = states \cup {g} /\ g \notin made
      /\ made' = made \cup {g} /\ live' = live \cup {g} /\ active' = active \cup {g}
      /\ parent' = [parent EXCEPT ![g] = shared[o]]
      /\ UNCHANGED <<owns, views, mapping, unlisted>>
  BY <1>0 DEF MakeRegion, New
<1>2. OwnersTypeOK'
  BY <1>0, <1>1, OwningAssumption DEF IInv, OwnersTypeOK, SharedVar, Shareable, Ownable
<1>3. NothingDangles'
  <2>1. \A h \in Buffer : parent'[h] = parent[h]
    BY <1>1, OwningAssumption DEF IInv, OwnersTypeOK, Shareable, Ownable
  <2>2. \A s \in states : s # g /\ (s \in Region => parent'[s] = parent[s])
    BY <1>1, Fresh DEF IInv, OwnersTypeOK
  <2>3. parent'[g] \in states
    BY <1>0, <1>1 DEF IInv, OwnersTypeOK
  <2>4. \A u \in SharedVar : shared'[u] \in Shareable => shared'[u] \in states'
    BY <1>1 DEF IInv, OwnersTypeOK, NothingDangles, SharedVar
  <2>5. \A s \in states' : s \in live' /\ (s \in Region => parent'[s] \in states')
    BY <1>1, <2>2, <2>3 DEF IInv, NothingDangles
  <2>6. \A x \in Owner :
       /\ owns'[x].region # Nil => owns'[x].region \in states'
       /\ \A h \in owns'[x].handles : h \in live' /\ (h \in Buffer => parent'[h] = owns'[x].region)
    BY <1>1, <2>1 DEF IInv, NothingDangles
  <2> QED BY <2>4, <2>5, <2>6 DEF NothingDangles
<1>4. OwnedOnce' /\ MappedIsActive' /\ NothingWithoutObject'
  BY <1>1 DEF IInv, OwnedOnce, MappedIsActive, NothingWithoutObject
<1>5. ViewsCloseTheirOwn'
  BY <1>1, Fresh, SameViews, HeldByBuffer, ViewedIsUsable
<1>6. NothingLeaks'
  BY <1>1, OwningAssumption DEF IInv, NothingLeaks, OwnersTypeOK, Shareable, Ownable
<1> QED BY <1>2, <1>3, <1>4, <1>5, <1>6 DEF IInv

LEMMA RuntimeDestroyed ==
  ASSUME IInv, NEW r \in Runtime, DestroyRuntime(r)
  PROVE  IInv'
<1>1. /\ r \in states /\ states' = states \ {r} /\ live' = live \ {r} /\ active' = active \ {r}
      /\ mapping' = [h \in Buffer |-> IF h \in {r} THEN "none" ELSE mapping[h]]
      /\ UNCHANGED <<shared, owns, views, made, parent, unlisted>>
  <2>1. \A k \in live : k \in Region => parent[k] # r
    BY RegionsAreStates DEF DestroyRuntime, RuntimeKept
  <2>2. Whole(r) = {r}
    BY <2>1 DEF Whole
  <2> QED BY <2>2 DEF DestroyRuntime, Deletes, objects
<1>2. r \notin Buffer /\ mapping' = mapping
  <2>1. r \notin Buffer
    BY OwningAssumption DEF Shareable, Ownable
  <2> QED BY <1>1, <2>1 DEF IInv, OwnersTypeOK
<1>3. \A v \in SharedVar : shared[v] # r
  BY OwningAssumption DEF DestroyRuntime, RuntimeKept, IInv, OwnersTypeOK, SharedVar
<1>4. \A x \in Owner : r \notin owns[x].handles /\ owns[x].region # r
  BY OwningAssumption DEF IInv, OwnersTypeOK, Shareable, Ownable
<1>5. OwnersTypeOK'
  BY <1>1, <1>2, <1>3 DEF IInv, OwnersTypeOK
<1>6. NothingDangles'
  <2>1. \A g \in states : g \in Region => parent[g] # r
    BY DEF DestroyRuntime, RuntimeKept
  <2> QED BY <1>1, <1>3, <1>4, <2>1, OwningAssumption DEF IInv, NothingDangles
<1>7. OwnedOnce' /\ MappedIsActive' /\ NothingWithoutObject'
  BY <1>1, <1>2 DEF IInv, OwnedOnce, MappedIsActive, NothingWithoutObject
<1>8. NothingLeaks'
  <2>1. \A h \in unlisted : parent[h] # r
    BY OwningAssumption DEF IInv, OwnersTypeOK, Shareable
  <2> QED BY <1>1, <2>1 DEF IInv, NothingLeaks
<1>9. ViewsCloseTheirOwn'
  BY <1>1, <1>2, SameViews
<1> QED BY <1>5, <1>6, <1>7, <1>8, <1>9 DEF IInv

LEMMA RegionDestroyed ==
  ASSUME IInv, NEW g \in Region, DestroyRegion(g)
  PROVE  IInv'
<1> DEFINE H == WithBuffers(g)
<1>1. /\ g \in states /\ states' = states \ {g} /\ live' = live \ H /\ active' = active \ H
      /\ mapping' = [h \in Buffer |-> IF h \in H THEN "none" ELSE mapping[h]]
      /\ UNCHANGED <<shared, owns, views, made, parent, unlisted>>
  BY DEF DestroyRegion, Deletes, objects
<1>2. \A v \in SharedVar : shared[v] # g
  BY OwningAssumption DEF DestroyRegion, RegionKept, IInv, OwnersTypeOK, SharedVar
<1>3. \A x \in Owner : owns[x].region # g
  BY DEF DestroyRegion, RegionKept
<1>4. \A x \in Owner : \A h \in owns[x].handles : h \notin H
  BY <1>3, OwningAssumption
  DEF IInv, OwnersTypeOK, NothingDangles, WithBuffers, Below, Shareable, Ownable
<1>5. \A s \in states : s # g => s \notin H
  BY OwningAssumption DEF IInv, OwnersTypeOK, WithBuffers, Below, Shareable, Ownable
<1>6. \A s \in states : s \in Region => parent[s] # g
  BY OwningAssumption DEF IInv, OwnersTypeOK, NothingDangles, Shareable
<1> HIDE DEF H
<1>7. OwnersTypeOK'
  BY <1>1 DEF IInv, OwnersTypeOK
<1>8. NothingDangles'
  BY <1>1, <1>2, <1>3, <1>4, <1>5, <1>6 DEF IInv, NothingDangles
<1>9. OwnedOnce' /\ MappedIsActive' /\ NothingWithoutObject'
  BY <1>1 DEF IInv, OwnedOnce, MappedIsActive, NothingWithoutObject
<1>10. NothingLeaks'
  <2>1. \A h \in live \ H : h \in Buffer => parent[h] # g
    BY DEF H, WithBuffers, Below
  <2>2. \A h \in live \ H : h # g /\ (h \in unlisted => parent[h] # g)
    BY <2>1 DEF H, WithBuffers, IInv, OwnersTypeOK
  <2> QED BY <1>1, <2>2 DEF IInv, NothingLeaks
<1>11. ViewsCloseTheirOwn'
  <2>1. \A b \in BufferVar : Viewed(b) => Held(b) \in Buffer /\ Held(b) \notin H
    BY <1>4, HeldByBuffer, ViewedIsUsable, BufferObjects
  <2> QED BY <1>1, <2>1, SameViews
<1> QED BY <1>7, <1>8, <1>9, <1>10, <1>11 DEF IInv

LEMMA StorageReleased ==
  ASSUME IInv, NEW H, Releases(H), UNCHANGED <<objects, states, unlisted>>
  PROVE  IInv'
<1>1. /\ active' = active \ H
      /\ mapping' = [h \in Buffer |-> IF h \in H THEN "none" ELSE mapping[h]]
      /\ UNCHANGED <<shared, owns, views, states, made, live, parent, unlisted>>
  BY DEF Releases, objects
<1>2. OwnersTypeOK'
  BY <1>1 DEF IInv, OwnersTypeOK
<1>3. NothingDangles' /\ OwnedOnce' /\ NothingLeaks' /\ MappedIsActive' /\ NothingWithoutObject'
  BY <1>1 DEF IInv, NothingDangles, OwnedOnce, NothingLeaks, MappedIsActive, NothingWithoutObject
<1>4. ViewsCloseTheirOwn'
  <2>1. \A b \in BufferVar : Viewed(b) => Held(b) \in Buffer
    BY HeldByBuffer, ViewedIsUsable
  <2> QED BY <1>1, <2>1, SameViews
<1> QED BY <1>2, <1>3, <1>4 DEF IInv

-----------------------------------------------------------------------------
(* buffer, trace and retention_resource                                       *)

\* What OwnersTypeOK says of the objects when only they have changed.
LEMMA OwnersTyped ==
  ASSUME IInv, UNCHANGED <<shared, states, views, unlisted>>,
         live' \subseteq made', made' \subseteq Shareable \cup Ownable, active' \subseteq live',
         parent' \in [Region \cup Buffer -> Shareable \cup {Nil}],
         \A h \in Region : parent'[h] \notin Region, \A h \in Buffer : parent'[h] \notin Runtime,
         mapping' \in [Buffer -> {"none", "view", "call", "nobody"}],
         owns' \in [Owner -> [exists : BOOLEAN, region : Region \cup {Nil}, handles : SUBSET Ownable]],
         \A x \in Owner \ TraceVar : /\ owns'[x].handles \subseteq Buffer
                                     /\ owns'[x].region = Nil => owns'[x].handles = {},
         \A x \in Owner \ ResourceVar : /\ \A h, k \in owns'[x].handles : h = k
                                        /\ owns'[x].handles = {} => owns'[x].region = Nil,
         \A x \in TraceVar : owns'[x].region = Nil /\ owns'[x].handles \subseteq Trace
  PROVE  OwnersTypeOK'
BY Zenon DEF IInv, OwnersTypeOK

LEMMA BufferMade ==
  ASSUME IInv, NEW b \in BufferVar, NEW v \in RegionVar, NEW h \in Buffer, MakeBuffer(b, v, h)
  PROVE  IInv'
<1>1. /\ shared[v] \in Region /\ shared[v] # Nil /\ shared[v] \in states
      /\ b \in Owner \ TraceVar /\ b \in Owner \ ResourceVar
  BY OwningAssumption
  DEF MakeBuffer, IInv, NothingDangles, SharedVar, Shareable, Owner
<1>2. /\ owns' = [owns EXCEPT ![b] = [exists |-> TRUE, region |-> shared[v], handles |-> {h}]]
      /\ h \notin made /\ made' = made \cup {h} /\ live' = live \cup {h}
      /\ active' = active \cup {h} /\ parent' = [parent EXCEPT ![h] = shared[v]]
      /\ UNCHANGED <<shared, views, states, mapping, unlisted>>
  BY <1>1 DEF MakeBuffer, New, Holding
<1>3. owns[b].handles = {}
  BY <1>1, Zenon DEF MakeBuffer, IInv, NothingWithoutObject
<1>4. OwnersTypeOK'
  <2> DEFINE o == [exists |-> TRUE, region |-> shared[v], handles |-> {h}]
  <2>1. /\ owns'[b] = o /\ o.handles = {h} /\ o.region = shared[v]
        /\ \A x \in Owner : x # b => owns'[x] = owns[x]
    BY <1>1, <1>2 DEF IInv, OwnersTypeOK
  <2>2. o \in [exists : BOOLEAN, region : Region \cup {Nil}, handles : SUBSET Ownable]
    BY <1>1 DEF Ownable
  <2>3. owns' \in [Owner -> [exists : BOOLEAN, region : Region \cup {Nil}, handles : SUBSET Ownable]]
    BY <1>1, <1>2, <2>2 DEF IInv, OwnersTypeOK
  <2> HIDE DEF o
  <2>4. \A x \in Owner \ TraceVar : /\ owns'[x].handles \subseteq Buffer
                                    /\ owns'[x].region = Nil => owns'[x].handles = {}
    BY <1>1, <2>1 DEF IInv, OwnersTypeOK
  <2>5. \A x \in Owner \ ResourceVar : /\ \A i, k \in owns'[x].handles : i = k
                                       /\ owns'[x].handles = {} => owns'[x].region = Nil
    BY <1>1, <2>1, SMTT(30) DEF IInv, OwnersTypeOK
  <2>6. \A x \in TraceVar : owns'[x].region = Nil /\ owns'[x].handles \subseteq Trace
    BY <1>1, <2>1 DEF IInv, OwnersTypeOK, Owner
  <2>7. /\ live' \subseteq made' /\ made' \subseteq Shareable \cup Ownable /\ active' \subseteq live'
        /\ UNCHANGED <<shared, states, views, unlisted, mapping>>
        /\ mapping' \in [Buffer -> {"none", "view", "call", "nobody"}]
    BY <1>2 DEF IInv, OwnersTypeOK, Ownable
  <2>8. /\ parent' \in [Region \cup Buffer -> Shareable \cup {Nil}]
        /\ \A k \in Region : parent'[k] \notin Region
        /\ \A k \in Buffer : parent'[k] \notin Runtime
    BY <1>1, <1>2, OwningAssumption DEF IInv, OwnersTypeOK, Shareable, Ownable
  <2> QED BY <2>3, <2>4, <2>5, <2>6, <2>7, <2>8, OwnersTyped
<1>5. NothingDangles'
  <2>1. \A s \in states : s # h /\ (s \in Region => parent'[s] = parent[s])
    BY <1>2, Fresh DEF IInv, OwnersTypeOK
  <2>2. \A s \in states' : s \in live' /\ (s \in Region => parent'[s] \in states')
    BY <1>2, <2>1 DEF IInv, NothingDangles
  <2>3. \A x \in Owner : x # b =>
          /\ owns'[x].region # Nil => owns'[x].region \in states'
          /\ \A k \in owns'[x].handles : k \in live' /\ (k \in Buffer => parent'[k] = owns'[x].region)
    BY <1>2, Fresh DEF IInv, NothingDangles, OwnersTypeOK
  <2>4. /\ owns'[b].region = shared[v] /\ owns'[b].handles = {h} /\ parent'[h] = shared[v]
    BY <1>1, <1>2 DEF IInv, OwnersTypeOK
  <2>5. \A u \in SharedVar : shared'[u] \in Shareable => shared'[u] \in states'
    BY <1>2 DEF IInv, NothingDangles
  <2> QED BY <1>1, <1>2, <2>2, <2>3, <2>4, <2>5 DEF NothingDangles
<1>6. OwnedOnce' /\ NothingWithoutObject'
  BY <1>1, <1>2, Fresh DEF IInv, OwnersTypeOK, OwnedOnce, NothingWithoutObject
<1>7. NothingLeaks'
  <2>1. \A k \in live : k # h /\ (k \in unlisted => parent'[k] = parent[k])
    BY <1>2, Fresh DEF IInv, OwnersTypeOK
  <2>2. \A x \in Owner : \A k \in owns[x].handles : k \in owns'[x].handles
    BY <1>2, <1>3 DEF IInv, OwnersTypeOK
  <2>3. h \in owns'[b].handles
    BY <1>1, <1>2 DEF IInv, OwnersTypeOK
  <2> QED BY <1>1, <1>2, <2>1, <2>2, <2>3 DEF IInv, NothingLeaks
<1>8. MappedIsActive'
  BY <1>2 DEF IInv, MappedIsActive
<1>9. ViewsCloseTheirOwn'
  <2>1. ~Viewed(b)
    BY <1>3, ViewedIsUsable DEF Usable
  <2>2. \A c \in BufferVar : Viewed(c) => owns'[c].handles = owns[c].handles /\ Held(c) # h
    BY <1>2, <2>1, Fresh, HeldByBuffer, ViewedIsUsable, OwningAssumption
    DEF IInv, OwnersTypeOK, Owner
  <2> QED BY <1>2, <2>2, SameViews
<1> QED BY <1>4, <1>5, <1>6, <1>7, <1>8, <1>9 DEF IInv

LEMMA TraceMade ==
  ASSUME IInv, NEW x \in TraceVar, NEW t \in Trace, MakeTrace(x, t)
  PROVE  IInv'
<1>1. /\ owns' = [owns EXCEPT ![x] = [exists |-> TRUE, region |-> Nil, handles |-> {t}]]
      /\ t \notin made /\ made' = made \cup {t} /\ live' = live \cup {t}
      /\ active' = active \cup {t}
      /\ UNCHANGED <<shared, views, states, parent, mapping, unlisted>>
  BY DEF MakeTrace, New, Holding
<1>2. x \in Owner /\ x \notin BufferVar /\ x \notin ResourceVar /\ t \notin Buffer /\ t \notin Shareable
  BY OwningAssumption DEF Owner, Ownable
<1>3. owns[x].handles = {}
  BY <1>2, Zenon DEF MakeTrace, IInv, NothingWithoutObject
<1>4. OwnersTypeOK'
  BY <1>1, <1>2, OwningAssumption DEF IInv, OwnersTypeOK, Owner, Shareable, Ownable
<1>5. NothingDangles'
  <2>1. owns'[x].region = Nil /\ owns'[x].handles = {t}
    BY <1>1, <1>2 DEF IInv, OwnersTypeOK
  <2>2. \A y \in Owner : y # x => owns'[y] = owns[y]
    BY <1>1 DEF IInv, OwnersTypeOK
  <2> QED BY <1>1, <1>2, <2>1, <2>2 DEF IInv, NothingDangles
<1>6. OwnedOnce' /\ NothingWithoutObject'
  BY <1>1, <1>2, Fresh DEF IInv, OwnersTypeOK, OwnedOnce, NothingWithoutObject
<1>7. NothingLeaks'
  <2>1. \A y \in Owner : \A k \in owns[y].handles : k \in owns'[y].handles
    BY <1>1, <1>3 DEF IInv, OwnersTypeOK
  <2>2. t \in owns'[x].handles
    BY <1>1, <1>2 DEF IInv, OwnersTypeOK
  <2> QED BY <1>1, <1>2, <2>1, <2>2 DEF IInv, NothingLeaks
<1>8. MappedIsActive'
  BY <1>1 DEF IInv, MappedIsActive
<1>9. ViewsCloseTheirOwn'
  <2>1. \A c \in BufferVar : Viewed(c) => owns'[c].handles = owns[c].handles /\ Held(c) # t
    BY <1>1, <1>2, HeldByBuffer, ViewedIsUsable DEF IInv, OwnersTypeOK, Owner
  <2> QED BY <1>1, <2>1, SameViews
<1> QED BY <1>4, <1>5, <1>6, <1>7, <1>8, <1>9 DEF IInv

LEMMA ResourceMade ==
  ASSUME IInv, NEW m \in ResourceVar, NEW v \in RegionVar, MakeResource(m, v)
  PROVE  IInv'
<1> DEFINE o == [exists |-> TRUE, region |-> shared[v], handles |-> {}]
<1>1. /\ m \in Owner /\ m \notin TraceVar /\ m \notin BufferVar
      /\ shared[v] \in Region /\ shared[v] \in states
  BY OwningAssumption
  DEF Owner, MakeResource, IInv, NothingDangles, SharedVar, Shareable
<1>2. /\ owns' = [owns EXCEPT ![m] = o]
      /\ UNCHANGED <<shared, views, states, made, live, active, parent, mapping, unlisted>>
  BY DEF MakeResource, handles, Holding
<1>3. /\ owns'[m] = o /\ o.handles = {} /\ o.region = shared[v] /\ o.exists
      /\ \A x \in Owner : x # m => owns'[x] = owns[x]
      /\ owns[m].handles = {}
  BY <1>1, <1>2 DEF MakeResource, IInv, OwnersTypeOK, NothingWithoutObject
<1>4. owns' \in [Owner -> [exists : BOOLEAN, region : Region \cup {Nil}, handles : SUBSET Ownable]]
  BY <1>1, <1>2 DEF IInv, OwnersTypeOK
<1> HIDE DEF o
<1>5. OwnersTypeOK'
  <2>1. \A x \in Owner \ TraceVar : /\ owns'[x].handles \subseteq Buffer
                                    /\ owns'[x].region = Nil => owns'[x].handles = {}
    BY <1>3 DEF IInv, OwnersTypeOK
  <2>2. \A x \in Owner \ ResourceVar : /\ \A i, k \in owns'[x].handles : i = k
                                       /\ owns'[x].handles = {} => owns'[x].region = Nil
    BY <1>3 DEF IInv, OwnersTypeOK
  <2>3. \A x \in TraceVar : owns'[x].region = Nil /\ owns'[x].handles \subseteq Trace
    BY <1>1, <1>3 DEF IInv, OwnersTypeOK, Owner
  <2> QED BY <1>2, <1>4, <2>1, <2>2, <2>3 DEF IInv, OwnersTypeOK
<1>6. NothingDangles' /\ OwnedOnce' /\ NothingWithoutObject' /\ MappedIsActive'
  BY <1>1, <1>2, <1>3
  DEF IInv, NothingDangles, OwnedOnce, NothingWithoutObject, MappedIsActive
<1>7. NothingLeaks'
  BY <1>2, <1>3 DEF IInv, NothingLeaks
<1>8. ViewsCloseTheirOwn'
  <2>1. \A c \in BufferVar : Viewed(c) => owns'[c].handles = owns[c].handles
    BY <1>1, <1>3 DEF Owner
  <2> QED BY <1>2, <2>1, SameViews
<1> QED BY <1>5, <1>6, <1>7, <1>8 DEF IInv

\* An object frees what only it has.
LEMMA Freed ==
  ASSUME IInv, NEW x \in Owner, NEW H \in SUBSET owns[x].handles, Deletes(H)
  PROVE  /\ live' = live \ H /\ active' = active \ H /\ made' = made /\ parent' = parent
         /\ mapping' = [h \in Buffer |-> IF h \in H THEN "none" ELSE mapping[h]]
         /\ mapping' \in [Buffer -> {"none", "view", "call", "nobody"}]
         /\ \A h \in Buffer : mapping'[h] # "none" => mapping[h] # "none" /\ h \notin H
         /\ \A s \in states : s \notin H
         /\ \A y \in Owner : y # x => \A h \in owns[y].handles : h \notin H
         /\ \A b \in BufferVar : b # x /\ Viewed(b) =>
              Held(b) \in Buffer /\ Held(b) \notin H /\ mapping'[Held(b)] = mapping[Held(b)]
<1>1. /\ live' = live \ H /\ active' = active \ H /\ made' = made /\ parent' = parent
      /\ mapping' = [h \in Buffer |-> IF h \in H THEN "none" ELSE mapping[h]]
  BY DEF Deletes
<1>2. /\ mapping' \in [Buffer -> {"none", "view", "call", "nobody"}]
      /\ \A h \in Buffer : mapping'[h] # "none" => mapping[h] # "none" /\ h \notin H
  BY <1>1 DEF IInv, OwnersTypeOK
<1>3. \A s \in states : s \notin H
  BY OwningAssumption DEF IInv, OwnersTypeOK
<1>4. \A y \in Owner : y # x => \A h \in owns[y].handles : h \notin H
  BY DEF IInv, OwnedOnce
<1>5. \A b \in BufferVar : b # x /\ Viewed(b) => Held(b) \in Buffer /\ Held(b) \notin H
  BY <1>4, HeldByBuffer, ViewedIsUsable DEF Owner
<1> QED BY <1>1, <1>2, <1>3, <1>4, <1>5

LEMMA OwnerReplaced ==
  ASSUME IInv, NEW from \in Owner, NEW to \in Owner, Unique(from, to), from # to,
         owns[from].exists, ~Viewed(from), ~Viewed(to), Deletes(owns[to].handles),
         owns' = Moved(from, to), UNCHANGED <<shared, views, states, unlisted>>
  PROVE  IInv'
<1> DEFINE H == owns[to].handles  o == Holding(Nil, {})
<1>1. /\ live' = live \ H /\ active' = active \ H /\ made' = made /\ parent' = parent
      /\ mapping' \in [Buffer -> {"none", "view", "call", "nobody"}]
      /\ \A h \in Buffer : mapping'[h] # "none" => mapping[h] # "none" /\ h \notin H
      /\ \A h \in Buffer : mapping'[h] # "none" => mapping'[h] = mapping[h]
      /\ \A s \in states : s \notin H
      /\ \A y \in Owner : y # to => \A h \in owns[y].handles : h \notin H
      /\ \A b \in BufferVar : b # to /\ Viewed(b) =>
           Held(b) \in Buffer /\ Held(b) \notin H /\ mapping'[Held(b)] = mapping[Held(b)]
  BY Freed
<1>2. /\ owns'[to] = owns[from] /\ owns'[from] = o /\ o.handles = {} /\ o.region = Nil /\ o.exists
      /\ \A x \in Owner : x # from /\ x # to => owns'[x] = owns[x]
      /\ o \in [exists : BOOLEAN, region : Region \cup {Nil}, handles : SUBSET Ownable]
  BY DEF Moved, Holding, IInv, OwnersTypeOK
<1>3. owns' \in [Owner -> [exists : BOOLEAN, region : Region \cup {Nil}, handles : SUBSET Ownable]]
  BY <1>2 DEF Moved, IInv, OwnersTypeOK
<1> HIDE DEF o, H
<1>4. OwnersTypeOK'
  <2>1. \A x \in Owner \ TraceVar : /\ owns'[x].handles \subseteq Buffer
                                    /\ owns'[x].region = Nil => owns'[x].handles = {}
    BY <1>2, OwningAssumption DEF IInv, OwnersTypeOK, Unique
  <2>2. \A x \in Owner \ ResourceVar : /\ \A i, k \in owns'[x].handles : i = k
                                       /\ owns'[x].handles = {} => owns'[x].region = Nil
    BY <1>2, OwningAssumption DEF IInv, OwnersTypeOK, Unique
  <2>3. \A x \in TraceVar : owns'[x].region = Nil /\ owns'[x].handles \subseteq Trace
    BY <1>2, OwningAssumption DEF IInv, OwnersTypeOK, Unique, Owner
  <2>4. live' \subseteq made' /\ active' \subseteq live'
    BY <1>1 DEF IInv, OwnersTypeOK
  <2> QED BY <1>1, <1>3, <2>1, <2>2, <2>3, <2>4 DEF IInv, OwnersTypeOK
<1>5. NothingDangles'
  <2>1. \A x \in Owner : \A h \in owns'[x].handles : h \notin H
    BY <1>1, <1>2
  <2>2. \A x \in Owner :
          /\ owns'[x].region # Nil => owns'[x].region \in states
          /\ \A h \in owns'[x].handles : h \in live /\ (h \in Buffer => parent[h] = owns'[x].region)
    BY <1>2 DEF IInv, NothingDangles
  <2> QED BY <1>1, <2>1, <2>2 DEF IInv, NothingDangles
<1>6. OwnedOnce' /\ NothingWithoutObject'
  <2>1. OwnedOnce'
    BY <1>2 DEF IInv, OwnedOnce
  <2>2. NothingWithoutObject'
    BY <1>2 DEF IInv, NothingWithoutObject
  <2> QED BY <2>1, <2>2
<1>7. NothingLeaks'
  <2>1. \A x \in Owner : \A h \in owns[x].handles : h \in live' => \E y \in Owner : h \in owns'[y].handles
    BY <1>1, <1>2 DEF H
  <2> QED BY <1>1, <2>1 DEF IInv, NothingLeaks
<1>8. MappedIsActive'
  BY <1>1 DEF IInv, MappedIsActive
<1>9. ViewsCloseTheirOwn'
  BY <1>1, <1>2, SameViews DEF Owner
<1> QED BY <1>4, <1>5, <1>6, <1>7, <1>8, <1>9 DEF IInv

LEMMA OwnerMoved ==
  ASSUME IInv, NEW x \in Owner, NEW y \in Owner, MoveOwner(x, y)
  PROVE  IInv'
<1>1. x # y /\ owns[y].handles = {}
  BY DEF MoveOwner, IInv, NothingWithoutObject
<1>2. ~Viewed(y)
  <2>1. Viewed(y) => y \in BufferVar
    BY OwningAssumption DEF Viewed, IInv, OwnersTypeOK
  <2> QED BY <1>1, <2>1, ViewedIsUsable DEF Usable
<1>3. Deletes(owns[y].handles)
  BY <1>1 DEF MoveOwner, Deletes, handles, IInv, OwnersTypeOK
<1> QED BY <1>1, <1>2, <1>3, OwnerReplaced DEF MoveOwner

LEMMA OwnerAssigned ==
  ASSUME IInv, NEW x \in Owner, NEW y \in Owner, AssignOwner(x, y)
  PROVE  IInv'
BY OwnerReplaced DEF AssignOwner, FreedBy

LEMMA OwnerDestroyed ==
  ASSUME IInv, NEW x \in Owner, DestroyOwner(x)
  PROVE  IInv'
<1> DEFINE H == owns[x].handles  o == NoObject
<1>0. /\ Deletes(H) /\ owns' = [owns EXCEPT ![x] = o] /\ ~Viewed(x)
      /\ UNCHANGED <<shared, views, states, unlisted>>
  BY DEF DestroyOwner, FreedBy
<1>1. /\ live' = live \ H /\ active' = active \ H /\ made' = made /\ parent' = parent
      /\ mapping' \in [Buffer -> {"none", "view", "call", "nobody"}]
      /\ \A h \in Buffer : mapping'[h] # "none" => mapping[h] # "none" /\ h \notin H
      /\ \A h \in Buffer : mapping'[h] # "none" => mapping'[h] = mapping[h]
      /\ \A s \in states : s \notin H
      /\ \A y \in Owner : y # x => \A h \in owns[y].handles : h \notin H
      /\ \A b \in BufferVar : b # x /\ Viewed(b) =>
           Held(b) \in Buffer /\ Held(b) \notin H /\ mapping'[Held(b)] = mapping[Held(b)]
  BY <1>0, Freed
<1>2. /\ owns'[x] = o /\ o.handles = {} /\ o.region = Nil
      /\ \A y \in Owner : y # x => owns'[y] = owns[y]
      /\ o \in [exists : BOOLEAN, region : Region \cup {Nil}, handles : SUBSET Ownable]
  BY <1>0 DEF NoObject, IInv, OwnersTypeOK
<1>3. owns' \in [Owner -> [exists : BOOLEAN, region : Region \cup {Nil}, handles : SUBSET Ownable]]
  BY <1>0, <1>2 DEF IInv, OwnersTypeOK
<1> HIDE DEF o, H
<1>4. OwnersTypeOK'
  <2>1. \A y \in Owner \ TraceVar : /\ owns'[y].handles \subseteq Buffer
                                    /\ owns'[y].region = Nil => owns'[y].handles = {}
    BY <1>2 DEF IInv, OwnersTypeOK
  <2>2. \A y \in Owner \ ResourceVar : /\ \A i, k \in owns'[y].handles : i = k
                                       /\ owns'[y].handles = {} => owns'[y].region = Nil
    BY <1>2 DEF IInv, OwnersTypeOK
  <2>3. \A y \in TraceVar : owns'[y].region = Nil /\ owns'[y].handles \subseteq Trace
    BY <1>2 DEF IInv, OwnersTypeOK, Owner
  <2>4. live' \subseteq made' /\ active' \subseteq live'
    BY <1>1 DEF IInv, OwnersTypeOK
  <2> QED BY <1>0, <1>1, <1>3, <2>1, <2>2, <2>3, <2>4 DEF IInv, OwnersTypeOK
<1>5. NothingDangles'
  BY <1>0, <1>1, <1>2 DEF IInv, NothingDangles
<1>6. OwnedOnce' /\ NothingWithoutObject'
  BY <1>2 DEF IInv, OwnedOnce, NothingWithoutObject
<1>7. NothingLeaks'
  <2>1. \A y \in Owner : \A h \in owns[y].handles : h \in live' => h \in owns'[y].handles
    BY <1>1, <1>2 DEF H
  <2> QED BY <1>0, <1>1, <2>1 DEF IInv, NothingLeaks
<1>8. MappedIsActive'
  BY <1>1 DEF IInv, MappedIsActive
<1>9. ViewsCloseTheirOwn'
  BY <1>0, <1>1, <1>2, SameViews DEF Owner
<1> QED BY <1>4, <1>5, <1>6, <1>7, <1>8, <1>9 DEF IInv

LEMMA MappingChanged ==
  ASSUME IInv, NEW b \in BufferVar, MapBuffer(b) \/ UnmapBuffer(b)
  PROVE  IInv'
<1>1. /\ Usable(b) /\ ~Viewed(b)
      /\ UNCHANGED <<shared, owns, views, states, unlisted, made, live, parent, active>>
  BY DEF MapBuffer, UnmapBuffer, Maps, Unmaps, objects
<1>2. /\ mapping' = [mapping EXCEPT ![Held(b)] = "call"] \/ mapping' = [mapping EXCEPT ![Held(b)] = "none"]
      /\ Held(b) \in Buffer /\ (mapping'[Held(b)] # "none" => Held(b) \in active)
  BY HeldByBuffer DEF MapBuffer, UnmapBuffer, Maps, Unmaps, IInv, OwnersTypeOK
<1>3. OwnersTypeOK'
  BY <1>1, <1>2 DEF IInv, OwnersTypeOK
<1>4. NothingDangles' /\ OwnedOnce' /\ NothingLeaks' /\ NothingWithoutObject'
  BY <1>1 DEF IInv, NothingDangles, OwnedOnce, NothingLeaks, NothingWithoutObject
<1>5. MappedIsActive'
  BY <1>1, <1>2 DEF IInv, MappedIsActive, OwnersTypeOK
<1>6. ViewsCloseTheirOwn'
  <2>1. \A c \in BufferVar : Viewed(c) => c # b /\ Held(c) \in owns[c].handles /\ Held(c) \in Buffer
    BY <1>1, HeldByBuffer, ViewedIsUsable
  <2>2. Held(b) \in owns[b].handles
    BY <1>1, HeldByBuffer
  <2>3. \A c \in BufferVar : Viewed(c) => Held(c) # Held(b)
    BY <2>1, <2>2 DEF IInv, OwnedOnce, Owner
  <2>4. \A c \in BufferVar : Viewed(c) => mapping'[Held(c)] = mapping[Held(c)]
    BY <1>2, <2>1, <2>3 DEF IInv, OwnersTypeOK
  <2>5. \A h \in Buffer : mapping'[h] = "view" => mapping[h] = "view"
    BY <1>2 DEF IInv, OwnersTypeOK
  <2> QED BY <1>1, <2>4, <2>5, SameViews
<1> QED BY <1>3, <1>4, <1>5, <1>6 DEF IInv

LEMMA Allocated ==
  ASSUME IInv, NEW m \in ResourceVar, NEW h \in Buffer, ResourceAllocate(m, h)
  PROVE  IInv'
<1> DEFINE g == owns[m].region
<1>0. m \in Owner /\ m \notin TraceVar /\ m \notin BufferVar /\ m \in Owner \ TraceVar
  BY OwningAssumption DEF Owner
<1>1. /\ g \in Region /\ g # Nil /\ g \in states
  BY <1>0, OwningAssumption DEF ResourceAllocate, IInv, OwnersTypeOK, NothingDangles, Ownable, Shareable
<1>2. /\ h \notin made /\ made' = made \cup {h} /\ live' = live \cup {h}
      /\ active' = active \cup {h} /\ parent' = [parent EXCEPT ![h] = g]
      /\ UNCHANGED <<shared, views, states, mapping>>
  BY <1>1 DEF ResourceAllocate, New
<1>3. /\ \A x \in Owner : x # m => owns'[x] = owns[x]
      /\ owns'[m].exists /\ owns'[m].region = g
      /\ \/ owns'[m].handles = owns[m].handles \cup {h} /\ unlisted' = unlisted
         \/ owns'[m].handles = owns[m].handles /\ unlisted' = unlisted \cup {h}
      /\ owns' \in [Owner -> [exists : BOOLEAN, region : Region \cup {Nil}, handles : SUBSET Ownable]]
  BY <1>0 DEF ResourceAllocate, IInv, OwnersTypeOK, Ownable
<1>4. /\ \A x \in Owner : h \notin owns[x].handles
      /\ h \notin live /\ h \notin states
      /\ \A k \in live : k # h
  BY <1>2, Fresh
<1> HIDE DEF g
<1>5. OwnersTypeOK'
  <2>1. \A x \in Owner \ TraceVar : /\ owns'[x].handles \subseteq Buffer
                                    /\ owns'[x].region = Nil => owns'[x].handles = {}
    BY <1>0, <1>1, <1>3 DEF IInv, OwnersTypeOK
  <2>2. \A x \in Owner \ ResourceVar : /\ \A i, k \in owns'[x].handles : i = k
                                       /\ owns'[x].handles = {} => owns'[x].region = Nil
    BY <1>3 DEF IInv, OwnersTypeOK
  <2>3. \A x \in TraceVar : owns'[x].region = Nil /\ owns'[x].handles \subseteq Trace
    BY <1>0, <1>3 DEF IInv, OwnersTypeOK, Owner
  <2>4. /\ live' \subseteq made' /\ made' \subseteq Shareable \cup Ownable /\ active' \subseteq live'
    BY <1>2 DEF IInv, OwnersTypeOK, Ownable
  <2>5. /\ parent' \in [Region \cup Buffer -> Shareable \cup {Nil}]
        /\ \A k \in Region : parent'[k] \notin Region
        /\ \A k \in Buffer : parent'[k] \notin Runtime
    BY <1>1, <1>2, OwningAssumption DEF IInv, OwnersTypeOK, Shareable, Ownable
  <2>6. unlisted' \subseteq Buffer
    BY <1>3 DEF IInv, OwnersTypeOK
  <2> QED BY <1>2, <1>3, <2>1, <2>2, <2>3, <2>4, <2>5, <2>6 DEF IInv, OwnersTypeOK
<1>6. /\ \A k \in live : k \in Region \cup Buffer => parent'[k] = parent[k]
      /\ parent'[h] = g
  BY <1>2, <1>4 DEF IInv, OwnersTypeOK
<1>7. NothingDangles'
  <2>1. \A s \in states' : s \in live' /\ (s \in Region => parent'[s] \in states')
    BY <1>2, <1>6 DEF IInv, NothingDangles
  <2>2. \A x \in Owner : \A k \in owns[x].handles : k \in live /\ (k \in Buffer => parent'[k] = owns[x].region)
    BY <1>6 DEF IInv, NothingDangles
  <2>3. \A x \in Owner :
          /\ owns'[x].region # Nil => owns'[x].region \in states'
          /\ \A k \in owns'[x].handles : k \in live' /\ (k \in Buffer => parent'[k] = owns'[x].region)
    BY <1>1, <1>2, <1>3, <1>6, <2>2 DEF IInv, NothingDangles, g
  <2> QED BY <1>2, <2>1, <2>3 DEF IInv, NothingDangles
<1>8. OwnedOnce' /\ NothingWithoutObject'
  BY <1>3, <1>4 DEF IInv, OwnedOnce, NothingWithoutObject
<1>9. NothingLeaks'
  BY <1>0, <1>1, <1>2, <1>3, <1>4, <1>6 DEF IInv, OwnersTypeOK, NothingLeaks
<1>10. MappedIsActive'
  BY <1>2 DEF IInv, MappedIsActive
<1>11. ViewsCloseTheirOwn'
  <2>1. \A c \in BufferVar : Viewed(c) => owns'[c].handles = owns[c].handles /\ Held(c) # h
    BY <1>0, <1>3, <1>4, HeldByBuffer, ViewedIsUsable DEF Owner
  <2> QED BY <1>2, <2>1, SameViews
<1> QED BY <1>5, <1>7, <1>8, <1>9, <1>10, <1>11 DEF IInv

LEMMA Deallocated ==
  ASSUME IInv, NEW m \in ResourceVar, NEW h \in Buffer, ResourceDeallocate(m, h)
  PROVE  IInv'
<1>0. /\ m \in Owner /\ m \notin TraceVar /\ m \notin BufferVar
      /\ {h} \in SUBSET owns[m].handles /\ Deletes({h})
      /\ UNCHANGED <<shared, views, states, unlisted>>
  BY OwningAssumption DEF Owner, ResourceDeallocate
<1>1. /\ live' = live \ {h} /\ active' = active \ {h} /\ made' = made /\ parent' = parent
      /\ mapping' \in [Buffer -> {"none", "view", "call", "nobody"}]
      /\ \A k \in Buffer : mapping'[k] # "none" => mapping[k] # "none" /\ k # h
      /\ \A k \in Buffer : mapping'[k] # "none" => mapping'[k] = mapping[k]
      /\ \A s \in states : s # h
      /\ \A y \in Owner : y # m => \A k \in owns[y].handles : k # h
      /\ \A b \in BufferVar : b # m /\ Viewed(b) =>
           Held(b) \in Buffer /\ Held(b) # h /\ mapping'[Held(b)] = mapping[Held(b)]
  BY <1>0, Freed
<1>2. /\ \A x \in Owner : x # m => owns'[x] = owns[x]
      /\ owns'[m].exists = owns[m].exists /\ owns'[m].region = owns[m].region
      /\ owns'[m].handles = owns[m].handles \ {h}
      /\ owns' \in [Owner -> [exists : BOOLEAN, region : Region \cup {Nil}, handles : SUBSET Ownable]]
  BY <1>0 DEF ResourceDeallocate, IInv, OwnersTypeOK
<1>3. OwnersTypeOK'
  <2>1. \A x \in Owner \ TraceVar : /\ owns'[x].handles \subseteq Buffer
                                    /\ owns'[x].region = Nil => owns'[x].handles = {}
    BY <1>2 DEF IInv, OwnersTypeOK
  <2>2. \A x \in Owner \ ResourceVar : /\ \A i, k \in owns'[x].handles : i = k
                                       /\ owns'[x].handles = {} => owns'[x].region = Nil
    BY <1>2 DEF IInv, OwnersTypeOK
  <2>3. \A x \in TraceVar : owns'[x].region = Nil /\ owns'[x].handles \subseteq Trace
    BY <1>0, <1>2 DEF IInv, OwnersTypeOK, Owner
  <2>4. live' \subseteq made' /\ active' \subseteq live'
    BY <1>1 DEF IInv, OwnersTypeOK
  <2> QED BY <1>0, <1>1, <1>2, <2>1, <2>2, <2>3, <2>4 DEF IInv, OwnersTypeOK
<1>4. NothingDangles'
  <2>1. \A x \in Owner :
          /\ owns'[x].region # Nil => owns'[x].region \in states'
          /\ \A k \in owns'[x].handles : k \in live' /\ (k \in Buffer => parent'[k] = owns'[x].region)
    BY <1>0, <1>1, <1>2 DEF IInv, NothingDangles
  <2> QED BY <1>0, <1>1, <2>1 DEF IInv, NothingDangles
<1>5. OwnedOnce' /\ NothingWithoutObject'
  BY <1>2 DEF IInv, OwnedOnce, NothingWithoutObject
<1>6. NothingLeaks'
  BY <1>0, <1>1, <1>2 DEF IInv, NothingLeaks
<1>7. MappedIsActive'
  BY <1>1 DEF IInv, MappedIsActive
<1>8. ViewsCloseTheirOwn'
  <2>1. \A c \in BufferVar : Viewed(c) => owns'[c].handles = owns[c].handles
    BY <1>0, <1>2 DEF Owner
  <2> QED BY <1>0, <1>1, <2>1, SameViews
<1> QED BY <1>3, <1>4, <1>5, <1>6, <1>7, <1>8 DEF IInv

-----------------------------------------------------------------------------
(* traced_view                                                                *)

\* Nothing but the views and the mappings changes.
LEMMA OnlyMappings ==
  ASSUME IInv, UNCHANGED <<shared, owns, states, made, live, parent, active, unlisted>>,
         views' \in [ViewVar -> BufferVar \cup {Nil, Absent}],
         mapping' \in [Buffer -> {"none", "view", "call", "nobody"}],
         \A h \in Buffer : mapping'[h] # "none" => h \in active,
         ViewsCloseTheirOwn'
  PROVE  IInv'
<1>1. OwnersTypeOK'
  BY DEF IInv, OwnersTypeOK
<1>2. NothingDangles' /\ OwnedOnce' /\ NothingLeaks' /\ NothingWithoutObject' /\ MappedIsActive'
  BY DEF IInv, NothingDangles, OwnedOnce, NothingLeaks, NothingWithoutObject, MappedIsActive
<1> QED BY <1>1, <1>2 DEF IInv

\* What two views are open on are different buffers.
LEMMA HeldApart ==
  ASSUME IInv, NEW b \in BufferVar, NEW c \in BufferVar, b # c, Usable(b), Usable(c)
  PROVE  Held(b) # Held(c)
BY HeldByBuffer DEF IInv, OwnedOnce, Owner

LEMMA ViewOpened ==
  ASSUME IInv, NEW w \in ViewVar, NEW b \in BufferVar, OpenView(w, b)
  PROVE  IInv'
<1> DEFINE h == Held(b)
<1>1. /\ UNCHANGED <<shared, owns, states, made, live, parent, active, unlisted>>
      /\ Usable(b) /\ h \in Buffer /\ h \in active /\ mapping[h] = "none" /\ views[w] = Absent
      /\ views' = [views EXCEPT ![w] = b] /\ mapping' = [mapping EXCEPT ![h] = "view"]
  BY HeldByBuffer DEF OpenView, Maps
<1>2. /\ views'[w] = b /\ \A u \in ViewVar : u # w => views'[u] = views[u]
      /\ mapping'[h] = "view" /\ \A k \in Buffer : k # h => mapping'[k] = mapping[k]
      /\ views' \in [ViewVar -> BufferVar \cup {Nil, Absent}]
      /\ mapping' \in [Buffer -> {"none", "view", "call", "nobody"}]
  BY <1>1 DEF IInv, OwnersTypeOK
<1>3. /\ \A c \in BufferVar : Usable(c)' = Usable(c) /\ Held(c)' = Held(c)
      /\ h \in owns[b].handles
  BY <1>1, HeldByBuffer DEF Usable, Held
<1>4. \A u \in ViewVar : views[u] # b
  BY <1>1 DEF IInv, ViewsCloseTheirOwn
<1>5. \A c \in BufferVar : c # b /\ Usable(c) => Held(c) # h /\ Held(c) \in Buffer
  BY <1>1, HeldApart, HeldByBuffer
<1> HIDE DEF h
<1>6. ViewsCloseTheirOwn'
  <2>1. \A u, v \in ViewVar : u # v /\ views'[u] \in BufferVar => views'[u] # views'[v]
    BY <1>2, <1>4 DEF IInv, ViewsCloseTheirOwn
  <2>2. \A u \in ViewVar : views'[u] \in BufferVar =>
          Usable(views'[u]) /\ (Held(views'[u]) \in active => mapping'[Held(views'[u])] = "view")
    BY <1>1, <1>2, <1>4, <1>5 DEF h, IInv, ViewsCloseTheirOwn
  <2>3. \A k \in Buffer : mapping'[k] = "view" =>
          \E u \in ViewVar : views'[u] \in BufferVar /\ k \in owns[views'[u]].handles
    BY <1>1, <1>2, <1>3, OwningAssumption DEF IInv, ViewsCloseTheirOwn, Owner
  <2>4. \A u \in ViewVar : views'[u] \in BufferVar =>
          LET k == Held(views[u])' IN Usable(views[u])' /\ (k \in active' => mapping'[k] = "view")
    BY <1>1, <1>3, <2>2 DEF Usable, Held
  <2> QED BY <1>1, <2>1, <2>3, <2>4 DEF ViewsCloseTheirOwn, Held, Usable
<1>7. \A k \in Buffer : mapping'[k] # "none" => k \in active
  BY <1>1, <1>2 DEF IInv, MappedIsActive
<1> QED BY <1>1, <1>2, <1>6, <1>7, OnlyMappings

\* The view w is closed, or has its mapping left; the view u takes what v has.
LEMMA ViewClosed ==
  ASSUME IInv, NEW w \in ViewVar,
         views[w] \in BufferVar =>
           \A h \in Buffer : h # Held(views[w]) => mapping'[h] = mapping[h],
         views[w] \in BufferVar => mapping'[Held(views[w])] \in {"none", "nobody"},
         views[w] \in BufferVar /\ mapping'[Held(views[w])] = "nobody" => mapping[Held(views[w])] # "none",
         views[w] \notin BufferVar => mapping' = mapping,
         mapping' \in [Buffer -> {"none", "view", "call", "nobody"}],
         UNCHANGED <<shared, owns, states, made, live, parent, active, unlisted>>,
         views' \in [ViewVar -> BufferVar \cup {Nil, Absent}],
         NEW from \in ViewVar,
         \A u \in ViewVar : u # w /\ u # from => views'[u] = views[u],
         from # w => views'[w] = views[from] /\ views'[from] \notin BufferVar,
         from = w => views'[w] \notin BufferVar
  PROVE  IInv'
<1>1. \A c \in BufferVar : Usable(c)' = Usable(c) /\ Held(c)' = Held(c)
  BY DEF Usable, Held
<1>2. \A u \in ViewVar : views'[u] \in BufferVar =>
        \E v \in ViewVar : v # w /\ views[v] = views'[u]
  OBVIOUS
<1>3. \A u, v \in ViewVar : u # v /\ views'[u] \in BufferVar => views'[u] # views'[v]
  BY DEF IInv, ViewsCloseTheirOwn
<1>4. \A v \in ViewVar : v # w /\ views[v] \in BufferVar =>
        /\ Usable(views[v]) /\ Held(views[v]) \in Buffer
        /\ Held(views[v]) \in active => mapping'[Held(views[v])] = "view"
  <2> TAKE v \in ViewVar
  <2> SUFFICES ASSUME v # w, views[v] \in BufferVar
               PROVE  /\ Usable(views[v]) /\ Held(views[v]) \in Buffer
                      /\ Held(views[v]) \in active => mapping'[Held(views[v])] = "view"
    OBVIOUS
  <2>1. Usable(views[v]) /\ (Held(views[v]) \in active => mapping[Held(views[v])] = "view")
    BY DEF IInv, ViewsCloseTheirOwn
  <2>2. Held(views[v]) \in Buffer
    BY <2>1, HeldByBuffer
  <2>3. mapping'[Held(views[v])] = mapping[Held(views[v])]
    <3>1. CASE views[w] \in BufferVar
      <4>1. views[w] # views[v] /\ Usable(views[w])
        BY <3>1 DEF IInv, ViewsCloseTheirOwn
      <4>2. Held(views[w]) # Held(views[v])
        BY <3>1, <4>1, <2>1, HeldApart
      <4> QED BY <3>1, <4>2, <2>2
    <3> QED BY <3>1
  <2> QED BY <2>1, <2>2, <2>3
<1>5. \A u \in ViewVar : views'[u] \in BufferVar =>
        Usable(views'[u]) /\ (Held(views'[u]) \in active => mapping'[Held(views'[u])] = "view")
  BY <1>2, <1>4
<1>6. \A k \in Buffer : mapping'[k] = "view" =>
        \E u \in ViewVar : views'[u] \in BufferVar /\ k \in owns[views'[u]].handles
  <2> TAKE k \in Buffer
  <2> SUFFICES ASSUME mapping'[k] = "view"
               PROVE  \E u \in ViewVar : views'[u] \in BufferVar /\ k \in owns[views'[u]].handles
    OBVIOUS
  <2>1. mapping[k] = "view" /\ (views[w] \in BufferVar => k # Held(views[w]))
    OBVIOUS
  <2>2. PICK v \in ViewVar : views[v] \in BufferVar /\ k \in owns[views[v]].handles
    BY <2>1 DEF IInv, ViewsCloseTheirOwn
  <2>3. v # w
    <3>1. Usable(views[v]) /\ owns[views[v]].handles = {Held(views[v])}
      BY <2>2, HeldByBuffer DEF Usable
    <3> QED BY <2>1, <2>2, <3>1
  <2> QED BY <2>2, <2>3
<1>7. ViewsCloseTheirOwn'
  <2>1. \A u \in ViewVar : views'[u] \in BufferVar =>
          LET k == Held(views[u])' IN Usable(views[u])' /\ (k \in active' => mapping'[k] = "view")
    BY <1>1, <1>5 DEF Usable, Held
  <2> QED BY <1>3, <1>6, <2>1 DEF ViewsCloseTheirOwn, Held, Usable
<1>8. \A k \in Buffer : mapping'[k] # "none" => k \in active
  BY DEF IInv, MappedIsActive
<1> QED BY <1>7, <1>8, OnlyMappings

LEMMA ViewChanged ==
  ASSUME IInv, NEW u \in ViewVar, NEW w \in ViewVar,
         MoveView(u, w) \/ AssignView(u, w) \/ DestroyView(w) \/ CloseView(w)
  PROVE  IInv'
<1>0. Nil \notin BufferVar /\ Absent \notin BufferVar
  BY OwningAssumption DEF Owner
<1>1. UNCHANGED <<shared, owns, states, made, live, parent, active, unlisted>>
  BY DEF MoveView, AssignView, DestroyView, CloseView, Closed, Unmaps, UnmapsOrGivesUp, handles
<1>2. views[w] \in BufferVar => Usable(views[w]) /\ Held(views[w]) \in Buffer
  BY HeldByBuffer DEF IInv, ViewsCloseTheirOwn
<1> DEFINE Given == /\ mapping' \in [Buffer -> {"none", "view", "call", "nobody"}]
                    /\ views[w] \in BufferVar =>
                         /\ \A h \in Buffer : h # Held(views[w]) => mapping'[h] = mapping[h]
                         /\ mapping'[Held(views[w])] \in {"none", "nobody"}
                         /\ mapping'[Held(views[w])] = "nobody" => mapping[Held(views[w])] # "none"
                    /\ views[w] \notin BufferVar => mapping' = mapping
<1>3. Given
  <2>1. CASE MoveView(u, w)
    BY <2>1, <1>0 DEF MoveView, handles, IInv, OwnersTypeOK
  <2>2. CASE CloseView(w)
    BY <2>2, <1>2 DEF CloseView, Unmaps, IInv, OwnersTypeOK
  <2>3. ASSUME Closed(w)
        PROVE  Given
    BY <2>3, <1>2 DEF Closed, UnmapsOrGivesUp, handles, IInv, OwnersTypeOK
  <2> QED BY <2>1, <2>2, <2>3 DEF AssignView, DestroyView
<1>4. views' \in [ViewVar -> BufferVar \cup {Nil, Absent}]
  BY DEF MoveView, AssignView, DestroyView, CloseView, IInv, OwnersTypeOK
<1>5. CASE MoveView(u, w) \/ AssignView(u, w)
  <2>1. /\ u # w /\ views'[w] = views[u] /\ views'[u] \notin BufferVar
        /\ \A v \in ViewVar : v # w /\ v # u => views'[v] = views[v]
    BY <1>5, <1>0 DEF MoveView, AssignView, IInv, OwnersTypeOK
  <2> QED BY <1>1, <1>3, <1>4, <2>1, ViewClosed
<1>6. CASE DestroyView(w) \/ CloseView(w)
  <2>1. /\ views'[w] \notin BufferVar /\ \A v \in ViewVar : v # w => views'[v] = views[v]
    BY <1>6, <1>0 DEF DestroyView, CloseView, IInv, OwnersTypeOK
  <2> QED BY <1>1, <1>3, <1>4, <2>1, ViewClosed
<1> QED BY <1>5, <1>6

-----------------------------------------------------------------------------

LEMMA Stutter == IInv /\ UNCHANGED vars => IInv'
<1> SUFFICES ASSUME IInv, UNCHANGED vars
             PROVE  IInv'
  OBVIOUS
<1>1. UNCHANGED <<shared, owns, views, states, made, live, parent, active, mapping, unlisted>>
  BY DEF vars, objects, handles
<1>2. ViewsCloseTheirOwn'
  BY <1>1, SameViews
<1> QED BY <1>1, <1>2, OnlyMappings DEF IInv, OwnersTypeOK, MappedIsActive

LEMMA Step == IInv /\ [Next]_vars => IInv'
<1> SUFFICES ASSUME IInv, [Next]_vars
             PROVE  IInv'
  OBVIOUS
<1>1. CASE SharedStep
  BY <1>1, RuntimeMade, RegionMade, SharedMoves, RuntimeDestroyed, RegionDestroyed, StorageReleased
  DEF SharedStep, EndRegion, Expire
<1>2. CASE OwnerStep
  BY <1>2, BufferMade, TraceMade, OwnerMoved, OwnerAssigned, OwnerDestroyed, MappingChanged
  DEF OwnerStep
<1>3. CASE ViewStep
  BY <1>3, ViewOpened, ViewChanged DEF ViewStep
<1>4. CASE ResourceStep
  BY <1>4, ResourceMade, Allocated, Deallocated DEF ResourceStep
<1>5. CASE UNCHANGED vars
  BY <1>5, Stutter
<1> QED BY <1>1, <1>2, <1>3, <1>4, <1>5 DEF Next

LEMMA Always == Spec => []IInv
BY Initially, Step, PTL DEF Spec

\* Objects stay in their types: one moved from holds nothing (rtmem_cpp.cpp:289-310).
THEOREM OwnersTypeCorrect == Spec => []OwnersTypeOK
BY Always, PTL DEF IInv

\* "C++ buffers keep their region and runtime alive automatically"
\* (docs/software_api.md:26), for any number of objects in any order of their calls.
THEOREM NothingDanglesCorrect == Spec => []NothingDangles
BY Always, PTL DEF IInv

\* A buffer or trace handle is freed once: it never has two owners.
THEOREM OwnedOnceCorrect == Spec => []OwnedOnce
BY Always, PTL DEF IInv

\* A handle that is not freed belongs to an object, or goes with its region.
THEOREM NothingLeaksCorrect == Spec => []NothingLeaks
BY Always, PTL DEF IInv

\* A view closes the mapping it opened, and no other (rtmem.hpp:212-243, 270-298).
THEOREM ViewsCorrect == Spec => []ViewsCloseTheirOwn
BY Always, PTL DEF IInv
=============================================================================
