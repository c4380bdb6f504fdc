---------------------------- MODULE OwningHandles ----------------------------
(***************************************************************************)
(* The owning objects of the C++ API over the handles of the C API: runtime *)
(* and region share a state with their copies, the last of which destroys  *)
(* the handle; a buffer and a retention_resource own buffer handles and    *)
(* share the region they are in; a trace owns a handle in no region; a      *)
(* traced_view keeps a mapping open through the buffer it was made from.    *)
(*                                                                         *)
(* A constructor that throws makes nothing.  The application calls nothing *)
(* on an object it has moved from, and leaves a buffer object alone while a *)
(* view is open on it: the view keeps its address.  What storage, time and *)
(* the runtime's errors do is any expiry, and any unmapping that fails.    *)
(***************************************************************************)
EXTENDS Naturals, FiniteSets

CONSTANTS
  RuntimeVar, RegionVar, BufferVar, TraceVar, ResourceVar, ViewVar,  \* places for objects
  Runtime, Region, Buffer, Trace,  \* handles of the C API, each created once (BOUND)
  Nil,      \* a null pointer
  Absent    \* no object there

Shareable == Runtime \cup Region
SharedVar == RuntimeVar \cup RegionVar
Ownable == Buffer \cup Trace
Owner == BufferVar \cup TraceVar \cup ResourceVar

ASSUME OwningAssumption ==
  /\ Nil \notin Shareable \cup Ownable \cup Owner /\ Absent \notin Shareable \cup Owner \cup {Nil}
  /\ Runtime \cap Region = {} /\ RuntimeVar \cap RegionVar = {}
  /\ Shareable \cap Ownable = {} /\ Buffer \cap Trace = {}
  /\ BufferVar \cap TraceVar = {} /\ (BufferVar \cup TraceVar) \cap ResourceVar = {}

VARIABLES
  shared,   \* runtime::state_, region::state_
  states,   \* the runtime_state and region_state objects there are, by their handle
  owns,     \* what buffers, traces and resources hold: region_, handle_, allocations
  views,    \* traced_view::owner_
  made,     \* handles created so far
  live,     \* handles not yet deleted
  parent,   \* the runtime of a region, the region of a buffer
  active,   \* regions not ended, buffers with storage
  mapping,  \* of each buffer, and who is to close it: "view", "call" or "nobody"
  unlisted  \* buffers do_allocate left out of the table of a resource

objects == <<shared, owns, views>>
handles == <<made, live, parent, active, mapping>>
vars == <<objects, states, handles, unlisted>>

NoObject == [exists |-> FALSE, region |-> Nil, handles |-> {}]
Holding(g, H) == [exists |-> TRUE, region |-> g, handles |-> H]

Init ==
  /\ shared = [v \in SharedVar |-> Absent] /\ states = {}
  /\ owns = [x \in Owner |-> NoObject] /\ views = [w \in ViewVar |-> Absent]
  /\ made = {} /\ live = {} /\ active = {}
  /\ parent = [h \in Region \cup Buffer |-> Nil]
  /\ mapping = [h \in Buffer |-> "none"] /\ unlisted = {}

-----------------------------------------------------------------------------
(* The C API as the objects use it.                                          *)

New(h, above) ==
  /\ h \notin made /\ made' = made \cup {h} /\ live' = live \cup {h} /\ active' = active \cup {h}
  /\ parent' = IF above = Nil THEN parent ELSE [parent EXCEPT ![h] = above]
  /\ UNCHANGED mapping

Below(h) == {k \in live : k \in Buffer /\ parent[k] = h}
WithBuffers(g) == {g} \cup Below(g)
Whole(r) == {r} \cup UNION {WithBuffers(g) : g \in {k \in live : k \in Region /\ parent[k] = r}}

\* rt_runtime_destroy and rt_region_destroy delete what is below, rt_buffer_free and
\* rt_trace_destroy one handle.
Deletes(H) ==
  /\ live' = live \ H /\ active' = active \ H
  /\ mapping' = [h \in Buffer |-> IF h \in H THEN "none" ELSE mapping[h]]
  /\ UNCHANGED <<made, parent>>

\* Storage is released: by an expiry, or by the end of the region.
Releases(H) ==
  /\ active' = active \ H
  /\ mapping' = [h \in Buffer |-> IF h \in H THEN "none" ELSE mapping[h]]
  /\ UNCHANGED <<made, live, parent>>

Maps(h, closer) ==
  /\ h \in active /\ mapping[h] = "none" /\ mapping' = [mapping EXCEPT ![h] = closer]
  /\ UNCHANGED <<made, live, parent, active>>

\* rt_buffer_unmap, which fails without a mapping or when the backend throws.
Unmaps(h) ==
  /\ mapping[h] # "none" /\ mapping' = [mapping EXCEPT ![h] = "none"]
  /\ UNCHANGED <<made, live, parent, active>>

\* A destructor ignores the failure; a mapping that is left is nobody's.
UnmapsOrGivesUp(h) ==
  /\ mapping' \in {[mapping EXCEPT ![h] = "none"],
                   [mapping EXCEPT ![h] = IF @ = "none" THEN @ ELSE "nobody"]}
  /\ UNCHANGED <<made, live, parent, active>>

-----------------------------------------------------------------------------
(* runtime and region: objects that share a state.                           *)

SameKind(v, w) == {v, w} \subseteq RuntimeVar \/ {v, w} \subseteq RegionVar

MakeRuntime(v, r) ==
  /\ shared[v] = Absent /\ New(r, Nil)
  /\ shared' = [shared EXCEPT ![v] = r] /\ states' = states \cup {r}
  /\ UNCHANGED <<owns, views, unlisted>>

MakeRegion(v, owner, g) ==
  /\ shared[v] = Absent /\ shared[owner] \in Runtime /\ New(g, shared[owner])
  /\ shared' = [shared EXCEPT ![v] = g] /\ states' = states \cup {g}
  /\ UNCHANGED <<owns, views, unlisted>>

\* Construction or assignment.
Copy(v, w) ==
  /\ SameKind(v, w) /\ v # w /\ shared[v] # Absent
  /\ shared' = [shared EXCEPT ![w] = shared[v]]
  /\ UNCHANGED <<owns, views, states, handles, unlisted>>

Move(v, w) ==
  /\ SameKind(v, w) /\ v # w /\ shared[v] # Absent
  /\ shared' = [shared EXCEPT ![w] = shared[v], ![v] = Nil]
  /\ UNCHANGED <<owns, views, states, handles, unlisted>>

Drop(v) ==
  /\ shared[v] # Absent /\ shared' = [shared EXCEPT ![v] = Absent]
  /\ UNCHANGED <<owns, views, states, handles, unlisted>>

\* Slip: a region does not keep its runtime.
KeptByObjects(r) == \E v \in RuntimeVar : shared[v] = r
RuntimeKept(r) ==
  \/ \E v \in RuntimeVar : shared[v] = r
  \/ \E g \in states : g \in Region /\ parent[g] = r
RegionKept(g) ==
  \/ \E v \in RegionVar : shared[v] = g
  \/ \E x \in Owner : owns[x].region = g

\* ~runtime_state and ~region_state, when the last reference is gone; other threads may
\* act before.
DestroyRuntime(r) ==
  /\ r \in states /\ ~RuntimeKept(r) /\ states' = states \ {r} /\ Deletes(Whole(r))
  /\ UNCHANGED <<objects, unlisted>>

DestroyRegion(g) ==
  /\ g \in states /\ ~RegionKept(g) /\ states' = states \ {g} /\ Deletes(WithBuffers(g))
  /\ UNCHANGED <<objects, unlisted>>

EndRegion(v) ==
  /\ shared[v] \in Region /\ Releases(WithBuffers(shared[v]))
  /\ UNCHANGED <<objects, states, unlisted>>

\* By any call of the runtime.
Expire(h) ==
  /\ h \in active /\ Releases({h}) /\ UNCHANGED <<objects, states, unlisted>>

-----------------------------------------------------------------------------
(* buffer and trace: objects that own a handle alone.                        *)

Held(b) == CHOOSE h \in owns[b].handles : TRUE
Usable(b) == owns[b].handles # {}
Viewed(b) == \E w \in ViewVar : views[w] = b

MakeBuffer(b, v, h) ==
  /\ ~owns[b].exists /\ shared[v] \in Region /\ shared[v] \in active /\ New(h, shared[v])
  /\ owns' = [owns EXCEPT ![b] = Holding(shared[v], {h})]
  /\ UNCHANGED <<shared, views, states, unlisted>>

MakeTrace(x, t) ==
  /\ ~owns[x].exists /\ New(t, Nil) /\ owns' = [owns EXCEPT ![x] = Holding(Nil, {t})]
  /\ UNCHANGED <<shared, views, states, unlisted>>

Unique(x, y) == {x, y} \subseteq BufferVar \/ {x, y} \subseteq TraceVar

\* Slip: the object moved from keeps its handle.
MovedHandleKept(from, to) == [owns EXCEPT ![to] = owns[from], ![from].region = Nil]
Moved(from, to) == [owns EXCEPT ![to] = owns[from], ![from] = Holding(Nil, {})]

MoveOwner(from, to) ==
  /\ Unique(from, to) /\ owns[from].exists /\ ~owns[to].exists /\ ~Viewed(from)
  /\ owns' = Moved(from, to)
  /\ UNCHANGED <<shared, views, states, handles, unlisted>>

\* Slip: what the object held before is forgotten.
ForgottenBy(x) == UNCHANGED handles
\* reset: the handle is freed, then the region let go.
FreedBy(x) == Deletes(owns[x].handles)

AssignOwner(from, to) ==
  /\ Unique(from, to) /\ from # to /\ owns[from].exists /\ owns[to].exists
  /\ ~Viewed(from) /\ ~Viewed(to)
  /\ FreedBy(to) /\ owns' = Moved(from, to)
  /\ UNCHANGED <<shared, views, states, unlisted>>

\* For a resource, ~impl frees what is in its table.
DestroyOwner(x) ==
  /\ owns[x].exists /\ ~Viewed(x) /\ FreedBy(x) /\ owns' = [owns EXCEPT ![x] = NoObject]
  /\ UNCHANGED <<shared, views, states, unlisted>>

MapBuffer(b) ==
  /\ Usable(b) /\ ~Viewed(b) /\ Maps(Held(b), "call") /\ UNCHANGED <<objects, states, unlisted>>

UnmapBuffer(b) ==
  /\ Usable(b) /\ ~Viewed(b) /\ Unmaps(Held(b)) /\ UNCHANGED <<objects, states, unlisted>>

-----------------------------------------------------------------------------
(* traced_view                                                               *)

OpenView(w, b) ==
  /\ views[w] = Absent /\ Usable(b) /\ Maps(Held(b), "view")
  /\ views' = [views EXCEPT ![w] = b] /\ UNCHANGED <<shared, owns, states, unlisted>>

\* close: a failure is thrown and leaves the view open.
CloseView(w) ==
  /\ views[w] \in BufferVar /\ Unmaps(Held(views[w]))
  /\ views' = [views EXCEPT ![w] = Nil] /\ UNCHANGED <<shared, owns, states, unlisted>>

\* Slip: the view assigned to keeps its mapping open.
LeftOpen(w) == UNCHANGED handles
\* close_noexcept
Closed(w) ==
  IF views[w] \in BufferVar THEN UnmapsOrGivesUp(Held(views[w])) ELSE UNCHANGED handles

MoveView(from, to) ==
  /\ views[from] # Absent /\ views[to] = Absent
  /\ views' = [views EXCEPT ![to] = views[from], ![from] = Nil]
  /\ UNCHANGED <<shared, owns, states, handles, unlisted>>

AssignView(from, to) ==
  /\ from # to /\ views[from] # Absent /\ views[to] # Absent /\ Closed(to)
  /\ views' = [views EXCEPT ![to] = views[from], ![from] = Nil]
  /\ UNCHANGED <<shared, owns, states, unlisted>>

DestroyView(w) ==
  /\ views[w] # Absent /\ Closed(w) /\ views' = [views EXCEPT ![w] = Absent]
  /\ UNCHANGED <<shared, owns, states, unlisted>>

-----------------------------------------------------------------------------
(* retention_resource                                                        *)

MakeResource(m, v) ==
  /\ ~owns[m].exists /\ shared[v] \in Region
  /\ owns' = [owns EXCEPT ![m] = Holding(shared[v], {})]
  /\ UNCHANGED <<shared, views, states, handles, unlisted>>

\* An entry is there already when the address was that of a buffer whose storage is gone.
ResourceAllocate(m, h) ==
  /\ owns[m].exists /\ owns[m].region \in active /\ New(h, owns[m].region)
  /\ \/ owns' = [owns EXCEPT ![m].handles = @ \cup {h}] /\ UNCHANGED unlisted
     \/ /\ \E k \in owns[m].handles : k \notin active
        /\ unlisted' = unlisted \cup {h} /\ UNCHANGED owns
  /\ UNCHANGED <<shared, views, states>>

ResourceDeallocate(m, h) ==
  /\ h \in owns[m].handles /\ Deletes({h})
  /\ owns' = [owns EXCEPT ![m].handles = @ \ {h}]
  /\ UNCHANGED <<shared, views, states, unlisted>>

-----------------------------------------------------------------------------
SharedStep ==
  \/ \E v \in RuntimeVar, r \in Runtime : MakeRuntime(v, r)
  \/ \E v \in RegionVar, o \in RuntimeVar, g \in Region : MakeRegion(v, o, g)
  \/ \E v, w \in SharedVar : Copy(v, w) \/ Move(v, w)
  \/ \E v \in SharedVar : Drop(v)
  \/ \E r \in Runtime : DestroyRuntime(r)
  \/ \E g \in Region : DestroyRegion(g)
  \/ \E v \in RegionVar : EndRegion(v)
  \/ \E h \in Buffer : Expire(h)

OwnerStep ==
  \/ \E b \in BufferVar, v \in RegionVar, h \in Buffer : MakeBuffer(b, v, h)
  \/ \E x \in TraceVar, t \in Trace : MakeTrace(x, t)
  \/ \E x, y \in Owner : MoveOwner(x, y) \/ AssignOwner(x, y)
  \/ \E x \in Owner : DestroyOwner(x)
  \/ \E b \in BufferVar : MapBuffer(b) \/ UnmapBuffer(b)

ViewStep ==
  \/ \E w \in ViewVar, b \in BufferVar : OpenView(w, b)
  \/ \E w, u \in ViewVar : MoveView(w, u) \/ AssignView(w, u)
  \/ \E w \in ViewVar : CloseView(w) \/ DestroyView(w)

ResourceStep ==
  \/ \E m \in ResourceVar, v \in RegionVar : MakeResource(m, v)
  \/ \E m \in ResourceVar, h \in Buffer : ResourceAllocate(m, h) \/ ResourceDeallocate(m, h)

Next == SharedStep \/ OwnerStep \/ ViewStep \/ ResourceStep

Spec == Init /\ [][Next]_vars

-----------------------------------------------------------------------------
(* Properties.                                                               *)

\* Objects stay in their types: one moved from holds neither a handle nor a region, a
\* buffer object at most one handle (rtmem_cpp.cpp:289-310).
OwnersTypeOK ==
  /\ shared \in [SharedVar -> Shareable \cup {Nil, Absent}] /\ states \subseteq Shareable
  /\ \A v \in RuntimeVar : shared[v] \notin Region
  /\ \A v \in RegionVar : shared[v] \notin Runtime
  /\ owns \in [Owner -> [exists : BOOLEAN, region : Region \cup {Nil}, handles : SUBSET Ownable]]
  /\ \A x \in Owner \ TraceVar :
       /\ owns[x].handles \subseteq Buffer
       /\ owns[x].region = Nil => owns[x].handles = {}
  /\ \A x \in Owner \ ResourceVar :
       /\ \A h, k \in owns[x].handles : h = k
       /\ owns[x].handles = {} => owns[x].region = Nil
  /\ \A x \in TraceVar : owns[x].region = Nil /\ owns[x].handles \subseteq Trace
  /\ views \in [ViewVar -> BufferVar \cup {Nil, Absent}]
  /\ live \subseteq made /\ made \subseteq Shareable \cup Ownable /\ active \subseteq live
  /\ parent \in [Region \cup Buffer -> Shareable \cup {Nil}]
  /\ \A h \in Region : parent[h] \notin Region
  /\ \A h \in Buffer : parent[h] \notin Runtime
  /\ mapping \in [Buffer -> {"none", "view", "call", "nobody"}] /\ unlisted \subseteq Buffer

\* "C++ buffers keep their region and runtime alive automatically"
\* (docs/software_api.md:26): in whatever order objects are copied, moved and destroyed,
\* no call is made with a handle that was deleted, by itself or with what it is in.
NothingDangles ==
  /\ \A v \in SharedVar : shared[v] \in Shareable => shared[v] \in states
  /\ \A s \in states : s \in live /\ (s \in Region => parent[s] \in states)
  /\ \A x \in Owner :
       /\ owns[x].region # Nil => owns[x].region \in states
       /\ \A h \in owns[x].handles : h \in live /\ (h \in Buffer => parent[h] = owns[x].region)

\* No buffer or trace is freed twice: it has one owner (rtmem_cpp.cpp:285-310, 403-407).
OwnedOnce ==
  \A x, y \in Owner : x # y => owns[x].handles \cap owns[y].handles = {}

\* No handle is lost: a live one is that of a state, or has an owner.  A buffer left out
\* of the table of a resource lasts as long as its region (rtmem_cpp.cpp:53-68, 304-310, 446-453).
NothingLeaks ==
  \A h \in live :
    \/ h \in states
    \/ \E x \in Owner : h \in owns[x].handles
    \/ h \in unlisted /\ parent[h] \in states

\* A mapping a view has opened is closed by the one view that has it now, whatever was
\* moved and assigned, and no view closes another's; only a failure that a destructor
\* ignores leaves one behind (rtmem.hpp:212-243, 270-298).
ViewsCloseTheirOwn ==
  /\ \A u, w \in ViewVar : u # w /\ views[u] \in BufferVar => views[u] # views[w]
  /\ \A w \in ViewVar :
       views[w] \in BufferVar =>
         LET h == Held(views[w]) IN Usable(views[w]) /\ (h \in active => mapping[h] = "view")
  /\ \A h \in Buffer :
       mapping[h] = "view" => \E w \in ViewVar : views[w] \in BufferVar /\ h \in owns[views[w]].handles
=============================================================================
