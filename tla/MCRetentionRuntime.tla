------------------------- MODULE MCRetentionRuntime -------------------------
(* Small instances of RetentionRuntime for TLC.                              *)
EXTENDS RetentionRuntime

CONSTANTS r1, r2, b1, b2, t1, t2

Rule(class, action, required, target) ==
  [class |-> class, action |-> action, required |-> required, target |-> target]

PromotePreferred == Rule(0, "PROMOTE", FALSE, 1)
RefreshEpoch == Rule(1, "REFRESH", TRUE, 2)
InvalidateEphemeral == Rule(0, "INVALIDATE", TRUE, 2)
PromoteWeaker == Rule(1, "PROMOTE", TRUE, 0)    \* refused by rt_region_create

HeapPolicies == {PromotePreferred, InvalidateEphemeral, PromoteWeaker}
RefreshPolicies == {RefreshEpoch}
InvalidatePolicies == {InvalidateEphemeral}

ReadOrWrite == {{"R"}, {"W"}}
WriteOnly == {{"W"}}

\* Ticks a class retains, weakest first.
ShortLongForever == [c \in Class |-> <<1, 2, kInfinite>>[c + 1]]
TightMiddle == [c \in Class |-> <<3, 3, 0>>[c + 1]]

OneInMiddle == [c \in Class |-> <<0, 1, 0>>[c + 1]]

Symmetry == Permutations(Buffer) \cup Permutations(Region) \cup Permutations(Trace)
=============================================================================
