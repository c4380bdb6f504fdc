---------------------- MODULE MetadataController_proofs ----------------------
(***************************************************************************)
(* For every number of lines, width of the epoch and retentions: registers   *)
(* keep their widths, and the controller answers by the age a line really    *)
(* has, and never revives one, until a whole turn of the epoch has gone by.  *)
(***************************************************************************)
EXTENDS MetadataController, TLAPS

\* Until a whole turn has gone by, the wrapped difference is the age.
Agrees == \A l \in Line : age[l] < EpochRange => ObservedAge(l) = age[l]

IInv == TypeOK /\ Agrees

-----------------------------------------------------------------------------
\* What is observed fits the register, as do all retentions.
LEMMA Widths ==
  ASSUME TypeOK, NEW l \in Line
  PROVE  /\ ObservedAge(l) \in Epoch
         /\ \A c \in Class : RetentionFor(c) \in Epoch
         /\ ObservedExpired(l) \in BOOLEAN /\ Survives(l) \in BOOLEAN
<1>1. current_epoch \in Nat /\ lastWrite[l] \in Nat
      /\ current_epoch < EpochRange /\ lastWrite[l] < EpochRange /\ EpochRange \in Nat
  BY WidthAssumption DEF TypeOK, Epoch
<1>2. ObservedAge(l) \in Epoch BY <1>1 DEF ObservedAge, Epoch
<1>3. \A c \in Class : RetentionFor(c) \in Epoch BY WidthAssumption DEF RetentionFor, Epoch
<1>4. valid[l] \in BOOLEAN BY DEF TypeOK
<1>5. ObservedExpired(l) \in BOOLEAN BY DEF ObservedExpired
<1> QED BY <1>2, <1>3, <1>4, <1>5 DEF Survives

\* Writing a line keeps the invariant, when its valid bit is set or left.
LEMMA DatedKeeps ==
  ASSUME IInv, NEW l \in Line, NEW c \in Class, Dated(l, c),
         valid' \in [Line -> BOOLEAN], \A k \in Line \ {l} : valid'[k] = valid[k],
         cmd' \in Operation \X Line
  PROVE  IInv'
<1>1. 0 \in Epoch /\ 0 \in 0..EpochRange BY WidthAssumption DEF Epoch
<1>2. TypeOK' BY <1>1 DEF IInv, TypeOK, Dated, Answer
<1>3. ASSUME NEW k \in Line PROVE (age[k] < EpochRange => ObservedAge(k) = age[k])'
  <2>1. CASE k = l
    <3>1. age'[k] = 0 /\ lastWrite'[k] = current_epoch /\ current_epoch' = current_epoch
      BY <2>1 DEF IInv, TypeOK, Dated
    <3>2. current_epoch \in Nat BY DEF IInv, TypeOK, Epoch
    <3> QED BY <3>1, <3>2 DEF ObservedAge
  <2>2. CASE k # l
    BY <2>2 DEF IInv, TypeOK, Agrees, ObservedAge, Dated
  <2> QED BY <2>1, <2>2
<1> QED BY <1>2, <1>3 DEF IInv, Agrees

\* So does clearing valid bits, or touching nothing but the answer.
LEMMA ClearedKeeps ==
  ASSUME IInv, UNCHANGED <<class, lastWrite, age, current_epoch>>,
         valid' \in [Line -> BOOLEAN], \A k \in Line : valid'[k] => valid[k],
         cmd' = Nothing \/ cmd' \in Operation \X Line,
         rsp' \in [valid : BOOLEAN, hit : BOOLEAN, expired : BOOLEAN, class : Class, age : Epoch]
  PROVE  IInv'
<1>1. TypeOK' BY DEF IInv, TypeOK
<1>2. Agrees' BY DEF IInv, Agrees, ObservedAge
<1> QED BY <1>1, <1>2 DEF IInv

\* The epoch and the ages move together, also over the end of the range.
LEMMA EpochKeeps ==
  ASSUME IInv, NEW n \in Strides, EpochMoves(n)
  PROVE  IInv'
<1> USE DEF EpochMoves
<1>1. n \in Nat /\ n < EpochRange /\ EpochRange \in Nat BY WidthAssumption DEF Epoch
<1>2. current_epoch \in Nat /\ current_epoch < EpochRange BY <1>1 DEF IInv, TypeOK, Epoch
<1>3. current_epoch' \in Epoch BY <1>1, <1>2 DEF Epoch
<1>4. age' \in [Line -> 0..EpochRange] BY <1>1 DEF IInv, TypeOK, Older
<1>5. TypeOK' BY <1>3, <1>4 DEF IInv, TypeOK
<1>6. ASSUME NEW l \in Line PROVE (age[l] < EpochRange => ObservedAge(l) = age[l])'
  <2>1. lastWrite[l] \in Nat /\ lastWrite[l] < EpochRange /\ age[l] \in Nat
    BY <1>1 DEF IInv, TypeOK, Epoch
  <2>2. age'[l] = Older(age[l], n) /\ lastWrite'[l] = lastWrite[l] BY DEF IInv, TypeOK
  <2>3. age[l] < EpochRange => ObservedAge(l) = age[l] BY DEF IInv, Agrees
  <2> QED BY <1>1, <1>2, <2>1, <2>2, <2>3 DEF Older, ObservedAge
<1> QED BY <1>5, <1>6 DEF IInv, Agrees

\* Every edge and every move of the epoch keeps the invariant.
LEMMA StepIInv == IInv /\ [Next]_vars => IInv'
<1> SUFFICES ASSUME IInv, [Next]_vars PROVE IInv' OBVIOUS
<1>t. TypeOK BY DEF IInv
<1>1. ASSUME NEW l \in Line, NEW c \in Class, Write(l, c) PROVE IInv'
  <2>1. /\ valid' \in [Line -> BOOLEAN] /\ \A k \in Line \ {l} : valid'[k] = valid[k]
        /\ cmd' \in Operation \X Line
    BY <1>1 DEF Write, Operation, IInv, TypeOK
  <2> QED BY <1>1, <2>1, DatedKeeps DEF Write
<1>2. ASSUME NEW l \in Line, NEW c \in Class, Migrate(l, c) PROVE IInv'
  <2>1. /\ valid' \in [Line -> BOOLEAN] /\ \A k \in Line \ {l} : valid'[k] = valid[k]
        /\ cmd' \in Operation \X Line
    BY <1>2 DEF Migrate, Operation, Asking, IInv, TypeOK
  <2> QED BY <1>2, <2>1, DatedKeeps DEF Migrate
<1>3. ASSUME NEW l \in Line, Refresh(l) PROVE IInv'
  <2>1. /\ valid' \in [Line -> BOOLEAN] /\ \A k \in Line \ {l} : valid'[k] = valid[k]
        /\ cmd' \in Operation \X Line
    BY <1>3 DEF Refresh, Operation, Asking, IInv, TypeOK
  <2>2. class[l] \in Class BY DEF IInv, TypeOK
  <2> QED BY <1>3, <2>1, <2>2, DatedKeeps DEF Refresh
<1>4. ASSUME NEW l \in Line, Read(l) \/ Refused(l) \/ Invalidate(l) PROVE IInv'
  <2>1. class[l] \in Class /\ valid[l] \in BOOLEAN BY DEF IInv, TypeOK
  <2>2. ObservedAge(l) \in Epoch /\ ObservedExpired(l) \in BOOLEAN /\ Survives(l) \in BOOLEAN
    BY <1>t, Widths
  <2>3. UNCHANGED <<class, lastWrite, age, current_epoch>> BY <1>4 DEF Read, Refused, Invalidate
  <2>4. PICK hit \in BOOLEAN, expired \in BOOLEAN : Answer(hit, expired, class[l], ObservedAge(l))
    BY <1>4, <2>1, <2>2, Zenon DEF Read, Refused, Invalidate
  <2>7. rsp' \in [valid : BOOLEAN, hit : BOOLEAN, expired : BOOLEAN, class : Class, age : Epoch]
    BY <2>1, <2>2, <2>4 DEF Answer
  <2>5. valid' \in [Line -> BOOLEAN] BY <1>4, <2>2 DEF Read, Refused, Invalidate, IInv, TypeOK
  <2>6. \A k \in Line : valid'[k] => valid[k]
    BY <1>4 DEF Read, Refused, Invalidate, Survives, IInv, TypeOK
  <2>8. cmd' \in Operation \X Line
    <3>1. cmd' \in {<<"READ", l>>, <<"REFRESH", l>>, <<"MIGRATE", l>>, <<"INVALIDATE", l>>}
      BY <1>4, Zenon DEF Read, Refused, Invalidate
    <3> QED BY <3>1 DEF Operation, Asking
  <2> QED BY <2>3, <2>5, <2>6, <2>7, <2>8, ClearedKeeps
<1>5. ASSUME NEW l \in Line, OtherCommand(l) PROVE IInv'
  <2>1. class[l] \in Class /\ ObservedAge(l) \in Epoch BY <1>t, Widths DEF TypeOK
  <2>2. rsp' \in [valid : BOOLEAN, hit : BOOLEAN, expired : BOOLEAN, class : Class, age : Epoch]
    BY <1>5, <2>1 DEF OtherCommand, Answer
  <2> QED BY <1>5, <2>2, ClearedKeeps DEF OtherCommand, Operation, metadata, IInv, TypeOK
<1>6. ASSUME NoCommand PROVE IInv'
  <2>1. rsp' \in [valid : BOOLEAN, hit : BOOLEAN, expired : BOOLEAN, class : Class, age : Epoch]
    BY <1>6 DEF NoCommand, IInv, TypeOK
  <2> QED BY <1>6, <2>1, ClearedKeeps DEF NoCommand, metadata, IInv, TypeOK
<1>7. ASSUME Reset PROVE IInv'
  <2>1. 0 \in Class /\ 0 \in Epoch BY WidthAssumption DEF Class, Epoch
  <2>2. rsp' \in [valid : BOOLEAN, hit : BOOLEAN, expired : BOOLEAN, class : Class, age : Epoch]
    BY <1>7, <2>1 DEF Reset, Silent
  <2> QED BY <1>7, <2>2, ClearedKeeps DEF Reset
<1>8. ASSUME NEW n \in Strides, EpochMoves(n) PROVE IInv' BY <1>8, EpochKeeps
<1>9. CASE UNCHANGED vars BY <1>9, ClearedKeeps DEF vars, metadata, IInv, TypeOK
<1> QED BY <1>1, <1>2, <1>3, <1>4, <1>5, <1>6, <1>7, <1>8, <1>9 DEF Next

\* The first reset establishes it, whatever the memories hold.
LEMMA InitIInv == Init => IInv
<1> SUFFICES ASSUME Init PROVE IInv OBVIOUS
<1>1. 0 \in Class /\ 0 \in Epoch /\ EpochRange \in 0..EpochRange
  BY WidthAssumption DEF Class, Epoch
<1>2. TypeOK BY <1>1 DEF Init, TypeOK, Silent
<1>3. ~(EpochRange < EpochRange) BY WidthAssumption
<1>4. \A l \in Line : ~valid[l] /\ ~(age[l] < EpochRange) BY <1>3, Zenon DEF Init
<1> QED BY <1>2, <1>4 DEF IInv, Agrees

\* The invariant holds always.
LEMMA Invariance == Spec => []IInv
BY InitIInv, StepIInv, PTL DEF Spec

\* Every register keeps its width, however long the controller runs.
THEOREM TypeCorrect == Spec => []TypeOK
<1>1. IInv => TypeOK BY DEF IInv
<1> QED BY <1>1, Invariance, PTL

-----------------------------------------------------------------------------
\* A tracked line is seen expired exactly when its retention is over.
LEMMA SeenExpired ==
  ASSUME IInv, NEW l \in Line, Tracked(l)
  PROVE  ObservedExpired(l) = (valid[l] /\ Lapsed(l))
<1>1. valid[l] /\ class[l] # CLASS_DURABLE => ObservedAge(l) = age[l]
  BY DEF IInv, Tracked, Agrees
<1> QED BY <1>1 DEF ObservedExpired, Lapsed

\* A command that asks is one of the actions of its line.
LEMMA AskedActions ==
  ASSUME Next, NEW l \in Line, NEW op \in Asking, cmd' = <<op, l>>
  PROVE  Read(l) \/ Refused(l) \/ Refresh(l) \/ \E c \in Class : Migrate(l, c)
<1>1. op \in {"READ", "REFRESH", "MIGRATE"} /\ cmd'[1] = op /\ cmd'[2] = l BY DEF Asking
<1>2. cmd' # Nothing BY DEF Nothing
<1>3. ASSUME NEW k \in Line, NEW c \in Class, Write(k, c) PROVE FALSE BY <1>1, <1>3 DEF Write
<1>4. ASSUME NEW k \in Line, Invalidate(k) \/ OtherCommand(k) PROVE FALSE
  BY <1>1, <1>4 DEF Invalidate, OtherCommand
<1>5. ASSUME NoCommand \/ Reset \/ \E n \in Strides : EpochMoves(n) PROVE FALSE
  BY <1>2, <1>5 DEF NoCommand, Reset, EpochMoves
<1>6. ASSUME NEW k \in Line, Read(k) PROVE k = l BY <1>1, <1>6 DEF Read
<1>7. ASSUME NEW k \in Line, Refresh(k) PROVE k = l BY <1>1, <1>7 DEF Refresh
<1>8. ASSUME NEW k \in Line, Refused(k) PROVE k = l BY <1>1, <1>8 DEF Refused
<1>9. ASSUME NEW k \in Line, NEW c \in Class, Migrate(k, c) PROVE k = l
  BY <1>1, <1>9 DEF Migrate
<1> QED BY <1>3, <1>4, <1>5, <1>6, <1>7, <1>8, <1>9 DEF Next

\* One step answers by the true ages.
LEMMA StepAnswers ==
  ASSUME IInv, Next, NEW l \in Line, Tracked(l), NEW op \in Asking, cmd' = <<op, l>>
  PROVE  /\ rsp'.hit = (valid[l] /\ ~Lapsed(l)) /\ rsp'.expired = (valid[l] /\ Lapsed(l))
         /\ rsp'.hit /\ class'[l] # CLASS_DURABLE => rsp'.age = age'[l]
<1>1. ObservedExpired(l) = (valid[l] /\ Lapsed(l)) BY SeenExpired
<1>2. valid[l] \in BOOLEAN BY DEF IInv, TypeOK
<1>3. Survives(l) = (valid[l] /\ ~Lapsed(l)) BY <1>1, <1>2 DEF Survives
<1>4. CASE Read(l)
  <2>1. rsp'.hit = Survives(l) /\ rsp'.expired = ObservedExpired(l) /\ rsp'.age = ObservedAge(l)
        /\ class' = class /\ age' = age
    BY <1>4 DEF Read, Answer
  <2>2. valid[l] /\ class[l] # CLASS_DURABLE => ObservedAge(l) = age[l]
    BY DEF IInv, Tracked, Agrees
  <2> QED BY <1>1, <1>3, <2>1, <2>2
<1>5. CASE Refused(l)
  <2>1. rsp'.hit = FALSE /\ rsp'.expired = ObservedExpired(l) /\ ~Survives(l)
    BY <1>5 DEF Refused, Answer
  <2> QED BY <1>1, <1>3, <2>1
<1>6. CASE Refresh(l) \/ \E c \in Class : Migrate(l, c)
  <2>1. PICK c : Dated(l, c) /\ Survives(l) BY <1>6 DEF Refresh, Migrate
  <2>2. rsp'.hit = TRUE /\ rsp'.expired = FALSE /\ rsp'.age = 0 BY <2>1 DEF Dated, Answer
  <2>3. age'[l] = 0 BY <2>1 DEF Dated, IInv, TypeOK
  <2> QED BY <1>1, <1>3, <2>1, <2>2, <2>3
<1> QED BY <1>4, <1>5, <1>6, AskedActions

\* Read, refresh and migrate answer by the age the line really has, until a whole
\* turn of the epoch has gone by.
THEOREM AnswersCorrect == Spec => AnswersExact
<1>1. IInv /\ [Next]_vars =>
        [\A l \in Line : Tracked(l) /\ (\E op \in Asking : cmd' = <<op, l>>) =>
           /\ rsp'.hit = (valid[l] /\ ~Lapsed(l)) /\ rsp'.expired = (valid[l] /\ Lapsed(l))
           /\ rsp'.hit /\ class'[l] # CLASS_DURABLE => rsp'.age = age'[l]]_vars
  BY StepAnswers
<1> QED BY <1>1, Invariance, PTL DEF Spec, AnswersExact

\* One step brings no line back that was lost, unless it writes it.
LEMMA StepLoss ==
  ASSUME IInv, [Next]_vars, NEW l \in Line, Tracked(l),
         valid[l] => Lapsed(l), cmd' # <<"WRITE", l>>
  PROVE  valid'[l] => Lapsed(l)'
<1>1. ObservedExpired(l) = (valid[l] /\ Lapsed(l)) BY SeenExpired
<1>2. valid[l] \in BOOLEAN BY DEF IInv, TypeOK
<1>3. ~Survives(l) BY <1>1, <1>2 DEF Survives
<1>4. ASSUME NEW k \in Line, NEW c, Dated(k, c), k # l, valid'[l] = valid[l]
      PROVE  valid'[l] => Lapsed(l)'
  BY <1>4 DEF Dated, Lapsed, IInv, TypeOK
<1>5. ASSUME NEW k \in Line, NEW c \in Class, Write(k, c) \/ Migrate(k, c)
      PROVE  valid'[l] => Lapsed(l)'
  <2>1. k # l BY <1>3, <1>5, Zenon DEF Write, Migrate
  <2>2. valid'[l] = valid[l] BY <1>5, <2>1 DEF Write, Migrate, IInv, TypeOK
  <2> QED BY <1>4, <1>5, <2>1, <2>2 DEF Write, Migrate
<1>6. ASSUME NEW k \in Line, Refresh(k) PROVE valid'[l] => Lapsed(l)'
  <2>1. k # l /\ valid' = valid BY <1>3, <1>6 DEF Refresh
  <2> QED BY <1>4, <1>6, <2>1 DEF Refresh
<1>7. ASSUME class' = class, age' = age, valid'[l] => valid[l] PROVE valid'[l] => Lapsed(l)'
  BY <1>7 DEF Lapsed
<1>8. ASSUME NEW k \in Line, Read(k) \/ Refused(k) \/ Invalidate(k) PROVE valid'[l] => Lapsed(l)'
  <2>1. valid'[l] => valid[l]
    BY <1>8 DEF Read, Refused, Invalidate, Survives, IInv, TypeOK
  <2> QED BY <1>7, <1>8, <2>1 DEF Read, Refused, Invalidate
<1>9. ASSUME (\E k \in Line : OtherCommand(k)) \/ NoCommand \/ Reset \/ UNCHANGED vars
      PROVE  valid'[l] => Lapsed(l)'
  BY <1>7, <1>9 DEF OtherCommand, NoCommand, Reset, metadata, vars
<1>10. ASSUME NEW n \in Strides, EpochMoves(n) PROVE valid'[l] => Lapsed(l)'
  <2>1. n \in Nat /\ EpochRange \in Nat /\ age[l] \in Nat
    BY WidthAssumption DEF Epoch, IInv, TypeOK
  <2>2. age'[l] = Older(age[l], n) /\ class' = class /\ valid' = valid
    BY <1>10 DEF EpochMoves, IInv, TypeOK
  <2>3. RetentionFor(class[l]) \in Epoch BY Widths DEF IInv, TypeOK
  <2>4. age[l] >= RetentionFor(class[l]) => age'[l] >= RetentionFor(class[l])
    BY <2>1, <2>2, <2>3 DEF Older, Epoch
  <2> QED BY <2>2, <2>4 DEF Lapsed
<1> QED BY <1>5, <1>6, <1>8, <1>9, <1>10 DEF Next

\* A line whose retention is over is not there again before it is written.
THEOREM LossCorrect == Spec => LossIsFinal
<1>1. IInv /\ [Next]_vars =>
        [\A l \in Line : Tracked(l) /\ (valid[l] => Lapsed(l)) /\ cmd' # <<"WRITE", l>>
                         => (valid'[l] => Lapsed(l)')]_vars
  BY StepLoss
<1> QED BY <1>1, Invariance, PTL DEF Spec, LossIsFinal
=============================================================================
