SPECIFICATION Spec
CONSTANTS
  Validators <- MCValidators
  MaxStake = 2
  Nodes = {"n1", "n2"}
  Blocks = {"A", "B"}
  StakeOf <- MCStakeOf
  HashOf <- MCHashOf
  Height = 1
  AtStart <- MCAtStart
  Careless <- MCCareless
  Ballots <- MCBallots
  Faked <- MCFaked
  Forged <- MCForged
  MaxEvidence = 2
INVARIANTS
  TypeOK
  ForkIsSlashable
  CanonicalIsFinal
  SlashedForCause
  GenuineEvidenceConvicts
CHECK_DEADLOCK FALSE
