---------------------------- MODULE TraceAnalysis ----------------------------
(***************************************************************************)
(* The two passes of workload_trace.cpp over a whole trace: the ages that  *)
(* choose the oracle's classes, and the lifetimes of line versions.  Both  *)
(* imagine one serial schedule in which every line costs the slowest bank. *)
(*                                                                         *)
(* Events are records with the fields of the code's Event; the code's      *)
(* (thread, stream) pair is one value here.  A buffer's region is its own. *)
(***************************************************************************)
EXTENDS EvidenceProfile, SequencesExt

CONSTANTS
  Buffer,     \* ids a trace may name
  Stream,     \* (thread, stream) pairs
  LineBytes   \* kLineBytes

ASSUME LineAssumption == LineBytes \in Nat \ {0} /\ IsFiniteSet(Buffer)

\* What load_events lets through; fields that a kind of event lacks are left open.
TraceEvent ==
  [kind : {"ALLOC", "FREE", "HINT", "ACCESS", "COMPUTE", "PHASE", "BARRIER"},
   stream : Stream, buffer : Buffer, tick : Nat, size : Nat \ {0}, offset : Nat,
   write : BOOLEAN, hint : Class, cycles : Nat, alignment : Nat \ {0}]

(* Events as load_events leaves them; a field an event lacks has its default. *)
Event(kind, stream, buffer, tick) ==
  [kind |-> kind, stream |-> stream, buffer |-> buffer, tick |-> tick, size |-> 1,
   offset |-> 0, write |-> FALSE, hint |-> Epoch, cycles |-> 0, alignment |-> 1]

FirstLine(e) == e.offset \div LineBytes
LastLine(e) == (e.offset + e.size - 1) \div LineBytes
AlignedLines(size) == (size + LineBytes - 1) \div LineBytes
\* The event's lines, in the order they are served.
LinesOf(e) == [i \in 1..(LastLine(e) - FirstLine(e) + 1) |-> FirstLine(e) + i - 1]

Greatest(f) == Max({f[c] : c \in Class})
SlowestRead == Greatest(ReadCycles)
SlowestWrite == Greatest(WriteCycles)

InBounds(e, size) == e.offset <= size /\ e.size <= size - e.offset

\* A map with one entry set.
Put(f, key, value) == [x \in DOMAIN f \cup {key} |-> IF x = key THEN value ELSE f[x]]

-----------------------------------------------------------------------------
(* oracle_ages: the longest time from a write of a buffer's line to a read.  *)
(* size is 0 for a buffer that is not live; written dates its written lines. *)

OracleStart == [cycle |-> 0, valid |-> TRUE, size |-> [b \in Buffer |-> 0],
                written |-> [b \in Buffer |-> <<>>], age |-> [b \in Buffer |-> 0]]

OracleTouch(s, e, l) ==
  LET b == e.buffer IN
  IF e.write
  THEN [s EXCEPT !.cycle = @ + SlowestWrite,
                 !.written[b] = Put(@, l, s.cycle + SlowestWrite)]
  ELSE [s EXCEPT !.cycle = @ + SlowestRead,
                 !.age[b] = IF l \in DOMAIN s.written[b]
                            THEN Later(@, s.cycle - s.written[b][l]) ELSE @]

\* Slip: the lines keep their dates when the id is used again.
RestatedOnly(s, b, size) == [s EXCEPT !.size[b] = size]

Restated(s, b, size) == [s EXCEPT !.size[b] = size, !.written[b] = <<>>]

OracleEvent(s, e) ==
  CASE e.kind = "ALLOC" -> Restated(s, e.buffer, e.size)
    [] e.kind = "FREE" -> Restated(s, e.buffer, 0)
    [] e.kind = "COMPUTE" -> [s EXCEPT !.cycle = @ + e.cycles]
    [] e.kind = "ACCESS" ->
         IF s.size[e.buffer] = 0 \/ ~InBounds(e, s.size[e.buffer])
         THEN [s EXCEPT !.valid = FALSE]
         ELSE FoldLeft(LAMBDA t, l : OracleTouch(t, e, l), s, LinesOf(e))
    [] OTHER -> s

\* An access of no live buffer throws: valid is FALSE.
OracleAges(events) == FoldLeft(OracleEvent, OracleStart, events)

\* Slip: an age equal to the retention is taken to fit.
OracleClassLoose(age) ==
  Min({Durable} \cup {c \in {Ephemeral, Epoch} : age <= RetentionCycles[c]})

OracleClass(age) ==
  Min({Durable} \cup {c \in {Ephemeral, Epoch} : age < RetentionCycles[c]})

-----------------------------------------------------------------------------
(* analyze_lifetime_events: a sample for every version of a line, which its   *)
(* next write, its buffer's end or the end of the trace finishes.             *)

LifetimeStart ==
  [cycle |-> 0, valid |-> TRUE, size |-> [b \in Buffer |-> 0],
   version |-> [b \in Buffer |-> <<>>], samples |-> <<>>]

Sample(b, version) == [structure |-> b, required |-> version.age, bytes |-> version.bytes]

\* finish_lifetime_version
Finish(s, b, l) ==
  IF l \notin DOMAIN s.version[b] THEN s
  ELSE [s EXCEPT !.samples = Append(@, Sample(b, s.version[b][l])),
                 !.version[b] = [k \in DOMAIN @ \ {l} |-> @[k]]]

\* Every version of the buffers in B is finished.
FinishAll(s, B) ==
  LET live == SetToSeq(UNION {{b} \X DOMAIN s.version[b] : b \in B})
      sample(b, l) == Sample(b, s.version[b][l])
  IN  [s EXCEPT !.samples = @ \o [i \in DOMAIN live |-> sample(live[i][1], live[i][2])],
                !.version = [b \in Buffer |-> IF b \in B THEN <<>> ELSE @[b]]]

BytesIn(e, l) == Min({e.offset + e.size, (l + 1) * LineBytes}) - Max({e.offset, l * LineBytes})

ReadAt(f, l, cycle) ==
  [k \in DOMAIN f |-> IF k = l THEN [f[k] EXCEPT !.age = Later(@, cycle - f[k].at)] ELSE f[k]]

LifetimeTouch(s, e, l) ==
  LET b == e.buffer IN
  IF e.write
  THEN LET written == s.cycle + SlowestWrite IN
       [Finish(s, b, l) EXCEPT
          !.cycle = written,
          !.version[b] = Put(@, l, [at |-> written, age |-> 0, bytes |-> BytesIn(e, l)])]
  ELSE [s EXCEPT !.cycle = @ + SlowestRead, !.version[b] = ReadAt(@, l, s.cycle)]

LifetimeEvent(before, e) ==
  LET s == [before EXCEPT !.cycle = Later(@, e.tick)] IN
  CASE e.kind = "ALLOC" ->
         IF s.size[e.buffer] # 0 THEN [s EXCEPT !.valid = FALSE]
         ELSE [s EXCEPT !.size[e.buffer] = e.size]
    [] e.kind = "FREE" ->
         IF s.size[e.buffer] = 0 THEN [s EXCEPT !.valid = FALSE]
         ELSE [FinishAll(s, {e.buffer}) EXCEPT !.size[e.buffer] = 0]
    [] e.kind = "COMPUTE" -> [s EXCEPT !.cycle = @ + e.cycles]
    [] e.kind = "ACCESS" ->
         IF s.size[e.buffer] = 0 \/ ~InBounds(e, s.size[e.buffer])
         THEN [s EXCEPT !.valid = FALSE]
         ELSE FoldLeft(LAMBDA t, l : LifetimeTouch(t, e, l), s, LinesOf(e))
    [] OTHER -> s

\* Slip: versions still live at the end of the trace give no sample.
LifetimesOfTheDead(events) == FoldLeft(LifetimeEvent, LifetimeStart, events)

Lifetimes(events) == FinishAll(FoldLeft(LifetimeEvent, LifetimeStart, events), Buffer)

BytesOf(samples) == FoldLeft(LAMBDA sum, sample : sum + sample.bytes, 0, samples)

\* std::sort by required_cycles; no percentile depends on the order of equal ages.
Inserted(sorted, sample) ==
  LET longer == {i \in DOMAIN sorted : sample.required < sorted[i].required}
  IN  InsertAt(sorted, Min(longer \cup {Len(sorted) + 1}), sample)

Sorted(samples) == FoldLeft(Inserted, <<>>, samples)

\* Slip: the bytes are compared before the sample's own are counted.
PercentileLate(samples, percent) ==
  LET sorted == Sorted(samples)
      target == Later(1, (percent * BytesOf(samples) + 99) \div 100)
      reached == {i \in DOMAIN sorted : BytesOf(SubSeq(sorted, 1, i - 1)) >= target}
  IN  IF samples = <<>> THEN 0
      ELSE sorted[Min(reached \cup {Len(sorted)})].required

\* lifetime_percentile: the age by which that percentage of the bytes is read.
Percentile(samples, percent) ==
  LET sorted == Sorted(samples)
      target == Later(1, (percent * BytesOf(samples) + 99) \div 100)
      reached == {i \in DOMAIN sorted : BytesOf(SubSeq(sorted, 1, i)) >= target}
  IN  IF samples = <<>> THEN 0
      ELSE sorted[Min(reached \cup {Len(sorted)})].required

\* The bytes of the samples I, each a pair of its own: what percentiles are about.
Written(samples, I) == UNION {{i} \X (1..samples[i].bytes) : i \in I}
=============================================================================
