SPECIFICATION Spec
CONSTANTS
  Line = {l1, l2}
  EpochRange = 4
  EPHEMERAL_RETENTION = 1
  EPOCH_RETENTION = 2
  Strides = {1, 2}
SYMMETRY LineSymmetry
PROPERTIES
  AnswersExact
  LossIsFinal
