-------------------------- MODULE MetadataController --------------------------
(***************************************************************************)
(* retention_metadata_controller.sv: per line a valid bit, a class and the   *)
(* epoch of its last write, and registers for the answer to the command of   *)
(* the last clock cycle.  One action is one rising edge, by command;         *)
(* EpochMoves is the epoch input counting between two edges.  Epochs are     *)
(* EPOCH_W bits wide; age is a history variable that is not.                 *)
(***************************************************************************)
EXTENDS Naturals

CONSTANTS
  Line,                 \* 0..NUM_LINES-1
  EpochRange,           \* 2^EPOCH_W
  EPHEMERAL_RETENTION, EPOCH_RETENTION,
  Strides               \* how far the epoch may count between two edges

Epoch == 0..(EpochRange - 1)
Class == 0..3           \* two bits; 3 is no class of the runtime
CLASS_DURABLE == 2

ASSUME WidthAssumption ==
  /\ EpochRange \in Nat \ {0} /\ Strides \subseteq Epoch \ {0}
  /\ EPHEMERAL_RETENTION \in Epoch /\ EPOCH_RETENTION \in Epoch

VARIABLES
  valid,          \* valid_mem
  class,          \* class_mem
  lastWrite,      \* last_write_mem
  current_epoch,  \* the input
  rsp,            \* the registers rsp_*
  cmd,            \* history: operation and line of this edge's command, if there was one
  age             \* history: epochs since the last write, EpochRange for any more

metadata == <<valid, class, lastWrite, age>>
vars == <<metadata, current_epoch, rsp, cmd>>

Nothing == <<>>
Silent == [valid |-> FALSE, hit |-> FALSE, expired |-> FALSE, class |-> 0, age |-> 0]

\* After the first reset: the other memories hold anything.
Init ==
  /\ valid = [l \in Line |-> FALSE] /\ rsp = Silent /\ cmd = Nothing
  /\ class \in [Line -> Class] /\ lastWrite \in [Line -> Epoch] /\ current_epoch \in Epoch
  /\ age = [l \in Line |-> EpochRange]

RetentionFor(c) ==
  IF c = 0 THEN EPHEMERAL_RETENTION ELSE IF c = 1 THEN EPOCH_RETENTION ELSE EpochRange - 1

\* A subtraction of EPOCH_W bits.
ObservedAge(l) ==
  IF current_epoch >= lastWrite[l] THEN current_epoch - lastWrite[l]
  ELSE current_epoch + EpochRange - lastWrite[l]

\* Slip: a line is kept in the epoch its retention ends.
ObservedExpiredLate(l) ==
  valid[l] /\ class[l] # CLASS_DURABLE /\ ObservedAge(l) > RetentionFor(class[l])

ObservedExpired(l) ==
  valid[l] /\ class[l] # CLASS_DURABLE /\ ObservedAge(l) >= RetentionFor(class[l])

Survives(l) == valid[l] /\ ~ObservedExpired(l)

Answer(hit, expired, c, a) ==
  rsp' = [valid |-> TRUE, hit |-> hit, expired |-> expired, class |-> c, age |-> a]

-----------------------------------------------------------------------------
\* The line is written, or rewritten, in class c.
Dated(l, c) ==
  /\ class' = [class EXCEPT ![l] = c]
  /\ lastWrite' = [lastWrite EXCEPT ![l] = current_epoch]
  /\ age' = [age EXCEPT ![l] = 0]
  /\ Answer(TRUE, FALSE, c, 0)
  /\ UNCHANGED current_epoch

Write(l, c) == cmd' = <<"WRITE", l>> /\ Dated(l, c) /\ valid' = [valid EXCEPT ![l] = TRUE]

Read(l) ==
  /\ cmd' = <<"READ", l>>
  /\ valid' = [valid EXCEPT ![l] = Survives(l)]
  /\ Answer(Survives(l), ObservedExpired(l), class[l], ObservedAge(l))
  /\ UNCHANGED <<class, lastWrite, age, current_epoch>>

\* Slip: a refresh does not look whether the line has expired.
RefreshAny(l) ==
  cmd' = <<"REFRESH", l>> /\ valid[l] /\ Dated(l, class[l]) /\ UNCHANGED valid

Refresh(l) == cmd' = <<"REFRESH", l>> /\ Survives(l) /\ Dated(l, class[l]) /\ UNCHANGED valid
Migrate(l, c) == cmd' = <<"MIGRATE", l>> /\ Survives(l) /\ Dated(l, c) /\ UNCHANGED valid

\* A refresh or migration of a line that is not there, or no longer.
Refused(l) ==
  /\ cmd' \in {<<"REFRESH", l>>, <<"MIGRATE", l>>} /\ ~Survives(l)
  /\ valid' = [valid EXCEPT ![l] = FALSE]
  /\ Answer(FALSE, ObservedExpired(l), class[l], ObservedAge(l))
  /\ UNCHANGED <<class, lastWrite, age, current_epoch>>

Invalidate(l) ==
  /\ cmd' = <<"INVALIDATE", l>>
  /\ valid' = [valid EXCEPT ![l] = FALSE]
  /\ Answer(valid[l], FALSE, class[l], ObservedAge(l))
  /\ UNCHANGED <<class, lastWrite, age, current_epoch>>

\* cmd_op 5 to 7.
OtherCommand(l) ==
  /\ cmd' = <<"OTHER", l>> /\ Answer(FALSE, FALSE, class[l], ObservedAge(l))
  /\ UNCHANGED <<metadata, current_epoch>>

NoCommand ==
  /\ cmd' = Nothing /\ rsp' = [rsp EXCEPT !.valid = FALSE, !.hit = FALSE, !.expired = FALSE]
  /\ UNCHANGED <<metadata, current_epoch>>

Reset ==
  /\ cmd' = Nothing /\ valid' = [l \in Line |-> FALSE] /\ rsp' = Silent
  /\ UNCHANGED <<class, lastWrite, age, current_epoch>>

Older(a, n) == IF a + n < EpochRange THEN a + n ELSE EpochRange

EpochMoves(n) ==
  /\ current_epoch' = IF current_epoch + n < EpochRange THEN current_epoch + n
                      ELSE current_epoch + n - EpochRange
  /\ age' = [l \in Line |-> Older(age[l], n)]
  /\ cmd' = Nothing /\ UNCHANGED <<valid, class, lastWrite, rsp>>

Next ==
  \/ \E l \in Line, c \in Class : Write(l, c) \/ Migrate(l, c)
  \/ \E l \in Line : Read(l) \/ Refresh(l) \/ Refused(l) \/ Invalidate(l) \/ OtherCommand(l)
  \/ NoCommand \/ Reset
  \/ \E n \in Strides : EpochMoves(n)

Spec == Init /\ [][Next]_vars

-----------------------------------------------------------------------------
Asking == {"READ", "REFRESH", "MIGRATE"}
Operation == Asking \cup {"WRITE", "INVALIDATE", "OTHER"}

\* Every register keeps its width.
TypeOK ==
  /\ valid \in [Line -> BOOLEAN] /\ class \in [Line -> Class] /\ lastWrite \in [Line -> Epoch]
  /\ current_epoch \in Epoch /\ age \in [Line -> 0..EpochRange]
  /\ cmd = Nothing \/ cmd \in Operation \X Line
  /\ rsp \in [valid : BOOLEAN, hit : BOOLEAN, expired : BOOLEAN, class : Class, age : Epoch]

Lapsed(l) == class[l] # CLASS_DURABLE /\ age[l] >= RetentionFor(class[l])

\* Less than a whole turn of the epoch since a finite line was written: beyond it
\* EPOCH_W bits cannot tell.
Tracked(l) == valid[l] /\ class[l] # CLASS_DURABLE => age[l] < EpochRange

\* What read, refresh and migrate answer from a wrapped subtraction is right by
\* the age the line really has: a hit when it is there and in time, expired when
\* it is there and out of time, and the age of a hit (retention_metadata_controller.sv:54-123).
AnswersExact ==
  [][\A l \in Line : Tracked(l) /\ (\E op \in Asking : cmd' = <<op, l>>) =>
       /\ rsp'.hit = (valid[l] /\ ~Lapsed(l)) /\ rsp'.expired = (valid[l] /\ Lapsed(l))
       /\ rsp'.hit /\ class'[l] # CLASS_DURABLE => rsp'.age = age'[l]]_vars

\* A line whose retention is over, found or not, is not there again before a
\* write: no refresh or migration revives it (retention_metadata_controller.sv:101-123).
LossIsFinal ==
  [][\A l \in Line : Tracked(l) /\ (valid[l] => Lapsed(l)) /\ cmd' # <<"WRITE", l>>
                     => (valid'[l] => Lapsed(l)')]_vars
=============================================================================
