---------------------------- MODULE MCTraceReplay ----------------------------
EXTENDS TraceReplay

CONSTANTS b1, b2, s1, s2

ByClass(e, p, d) == [c \in Class |-> <<e, p, d>>[c + 1]]

NineLines == 0..8
ThreeEach == ByClass(3, 3, 3)
SixFourteen == ByClass(6, 14, kInfinite)
Reads == ByClass(1, 1, 2)
Writes == ByClass(1, 2, 3)
OneEach == ByClass(1, 1, 1)
TwoInMiddle == ByClass(1, 2, 1)

Alloc(k, buffer, size, hint) == [Event("ALLOC", k, buffer, 0) EXCEPT !.size = size, !.hint = hint]
R(k, buffer, offset, size) == [Event("ACCESS", k, buffer, 0) EXCEPT !.offset = offset, !.size = size]
W(k, buffer, offset, size) == [R(k, buffer, offset, size) EXCEPT !.write = TRUE]
At(e, tick) == [e EXCEPT !.tick = tick]
Hinted(k, buffer, c) == [Event("HINT", k, buffer, 0) EXCEPT !.hint = c]
Works(k, cycles) == [Event("COMPUTE", k, b2, 0) EXCEPT !.cycles = cycles]

\* One stream: a buffer of two lines, the second half full.
OneStream == [longest |-> 5, events |->
  {Alloc(s1, b1, 3, Ephemeral), W(s1, b1, 0, 3), W(s1, b1, 1, 1), R(s1, b1, 0, 3), R(s1, b1, 2, 1),
   Works(s1, 6), Event("FREE", s1, b1, 0)}]
\* The same with ticks and hints.
Ticked == [longest |-> 5, events |->
  {Alloc(s1, b1, 3, Ephemeral), W(s1, b1, 0, 3), At(W(s1, b1, 0, 1), 4), At(R(s1, b1, 0, 3), 11),
   Hinted(s1, b1, Epoch), At(Hinted(s1, b1, Ephemeral), 7), R(s1, b1, 0, 4)}]
\* Two streams of two threads on a bank with two channels.
TwoStreams == [longest |-> 5, events |->
  {Alloc(s1, b1, 2, Epoch), W(s1, b1, 0, 2), R(s2, b1, 0, 2), Event("BARRIER", s1, b2, 0),
   Works(s2, 3), Event("PHASE", s2, b2, 0)}]
\* Two buffers that do not fit in one bank.
Crowded == [longest |-> 5, events |->
  {Alloc(s1, b1, 4, Ephemeral), [Alloc(s1, b2, 3, Ephemeral) EXCEPT !.alignment = 2],
   W(s1, b2, 0, 3), Event("FREE", s1, b1, 0), Hinted(s1, b2, Epoch), At(R(s1, b2, 0, 3), 9)}]
\* A hint to a weaker class that one of the two lines does not live to follow.
HintedDown == [longest |-> 5, events |->
  {Alloc(s1, b1, 3, Epoch), W(s1, b1, 0, 3), At(W(s1, b1, 0, 1), 20), At(Hinted(s1, b1, Ephemeral), 20),
   At(R(s1, b1, 0, 1), 35), At(R(s1, b1, 0, 1), 50),
   Event("FREE", s1, b1, 0)}]
OnlyTicked == {Ticked}
OnlyHintedDown == {HintedDown}
AllWorkloads == {OneStream, Ticked, TwoStreams, Crowded, HintedDown}
=============================================================================
