-------------------------- MODULE MCPolledRuntime --------------------------
EXTENDS PolledRuntime

CONSTANTS r1, b1, b2

Rule(class, action, required, target) ==
  [class |-> class, action |-> action, required |-> required, target |-> target]
PolledPolicies == {Rule(0, "REFRESH", TRUE, 2), Rule(0, "PROMOTE", FALSE, 1), Rule(0, "ERROR", TRUE, 2)}

TwoThreeForever == [c \in Class |-> <<2, 3, kInfinite>>[c + 1]]
OneInMiddle == [c \in Class |-> <<0, 1, 0>>[c + 1]]
NoModes == {}
=============================================================================
