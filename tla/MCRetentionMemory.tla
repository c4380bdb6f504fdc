------------------------- MODULE MCRetentionMemory -------------------------
EXTENDS RetentionMemory

OneTwoOne == [c \in Class |-> <<1, 2, 1>>[c + 1]]
TwoThreeForever == [c \in Class |-> <<2, 3, kInfiniteRetention>>[c + 1]]
OneCycle == [c \in Class |-> 1]
SlowerWhenDurable == [c \in Class |-> <<1, 1, 2>>[c + 1]]
=============================================================================
