--------------------------- MODULE EvidenceProfile ---------------------------
(* DeviceProfile: what a bank of each retention class offers.  Profiles are  *)
(* read from a file, so every value that passes the loader's checks is open. *)
EXTENDS Integers, FiniteSets

CONSTANTS
  Line,             \* logical lines, byte addresses divided by kLineBytes
  CapacityLines,    \* BankConfig.capacity_lines, by class
  RetentionCycles,  \* BankConfig.retention_cycles, by class
  ReadCycles,       \* BankConfig.read_cycles, by class
  WriteCycles,      \* BankConfig.write_cycles, by class
  Channels,         \* DeviceProfile.channels, by class
  MigrationSetup,   \* DeviceProfile.migration_setup_cycles
  kInfinite         \* retention that never ends

Ephemeral == 0
Epoch == 1
Durable == 2
Class == {Ephemeral, Epoch, Durable}

ASSUME ProfileAssumption ==
  /\ Line \subseteq Nat /\ IsFiniteSet(Line)
  /\ CapacityLines \in [Class -> Nat \ {0}] /\ RetentionCycles \in [Class -> Nat \ {0}]
  /\ ReadCycles \in [Class -> Nat \ {0}] /\ WriteCycles \in [Class -> Nat \ {0}]
  /\ Channels \in [Class -> Nat \ {0}]
  /\ MigrationSetup \in Nat /\ kInfinite \in Nat

Later(s, t) == IF s >= t THEN s ELSE t
=============================================================================
