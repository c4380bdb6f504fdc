---------------------------- MODULE RetainedLines ----------------------------
(***************************************************************************)
(* The command semantics of docs/architecture.md without banks, slots and a *)
(* directory: each line holds a value of some age in some class, or nothing. *)
(* A full class refuses a command, and only a full class does; what a       *)
(* command is answered depends on the line alone.                           *)
(***************************************************************************)
EXTENDS Naturals

CONSTANTS Line, Value, Class, CapacityLines, ReadCycles, WriteCycles, RetentionCycles,
          kInfiniteRetention

VARIABLES now, contents, reply,
          exact  \* lines decay at their retention, not at random

Lost == [value |-> 0, class |-> 0, since |-> 0, held |-> FALSE]
Held(v, c, t) == [value |-> v, class |-> c, since |-> t, held |-> TRUE]
Reply(message, v) == [message |-> message, value |-> v]

Init == now = 0 /\ contents = [l \in Line |-> Lost] /\ reply = Reply("none", 0) /\ exact \in BOOLEAN

Decays(l) == RetentionCycles[contents[l].class] # kInfiniteRetention
Decayed(l) == Decays(l) /\ now - contents[l].since >= RetentionCycles[contents[l].class]
Readable(l) == contents[l].held /\ (exact => ~Decayed(l))
LinesIn(c) == {l \in Line : contents[l].held /\ contents[l].class = c}

\* A different line for each unit of capacity.
Full(c) == \E f \in [1..CapacityLines[c] -> LinesIn(c)] :
             \A m, n \in 1..CapacityLines[c] : f[m] = f[n] => m = n

Write(l, c, v) ==
  /\ now' = now + WriteCycles[c]
  /\ contents' = [contents EXCEPT ![l] = Held(v, c, now')]
  /\ reply' = Reply("written", v)

Read(l) ==
  /\ Readable(l) /\ now' = now + ReadCycles[contents[l].class]
  /\ reply' = Reply("hit", contents[l].value)
  /\ UNCHANGED contents

\* Refresh, and migration to class c: the value gets a new age.
Renew(l, c) ==
  /\ Readable(l) /\ now' = now + ReadCycles[contents[l].class] + WriteCycles[c]
  /\ contents' = [contents EXCEPT ![l] = Held(@.value, c, now')]
  /\ reply' = Reply("renewed", contents[l].value)

Expire(l) ==
  /\ contents[l].held /\ Decays(l) /\ (exact => Decayed(l))
  /\ contents' = [contents EXCEPT ![l] = Lost] /\ reply' = Reply("expired", 0)
  /\ UNCHANGED now

Invalidate(l) ==
  /\ contents[l].held
  /\ contents' = [contents EXCEPT ![l] = Lost] /\ reply' = Reply("invalidated", 0)
  /\ UNCHANGED now

Miss(l) == ~contents[l].held /\ reply' = Reply("missing", 0) /\ UNCHANGED <<now, contents>>
Refuse(c) == Full(c) /\ reply' = Reply("full", 0) /\ UNCHANGED <<now, contents>>

Wait == now' > now /\ UNCHANGED <<contents, reply>>

Command ==
  \/ \E l \in Line, c \in Class, v \in Value : Write(l, c, v)
  \/ \E l \in Line : Read(l) \/ Expire(l) \/ Invalidate(l) \/ Miss(l)
  \/ \E l \in Line, c \in Class : Renew(l, c)
  \/ \E c \in Class : Refuse(c)
  \/ Wait

Next == Command /\ UNCHANGED exact

Spec == Init /\ [][Next]_<<now, contents, reply, exact>>
=============================================================================
