SPECIFICATION Spec
CONSTANTS
  Validators <- MCValidators
  MaxStake = 2
  Blocks = {A, B}
  Stake <- MCStake
  Byzantine = {"v3"}
  Roster <- MCRoster
  Height = 2
  FirstRound = 1
  MaxRound = 3
  Messages <- MCMessages
  MaxDelay = 2
  MaxSends = 3
  MaxCrashes = 2
  Peers = {"a", "b"}
  startScore = 3
  minScore = 0
  banScore = 1
  maxMessagesPerWindow = 2
  duplicatePenalty = 1
  invalidPenalty = 2
  stalePenalty = 1
  spamPenalty = 1
  goodMessageReward = 1
  MaxSockets = 2
  MaxMessages = 2
  Processes = {"p1", "p2", "p3"}
  NoPeer = "none"
  MaxHeard = 3
  TOTAL_BRANCHES = 3
  MaxValidators = 2
  MaxValidatorStake = 2
  Datasets = {"d1", "d2"}
  Contents = {"c1", "c2"}
  Origins = {"o1", "o2"}
  Submitters = {"s1", "s2"}
  MaxObjects = 3
SYMMETRY MCSymmetry
INVARIANTS
  Agreement
  LogIsOrdered
  CrashLosesOneEntry
  AcceptedAtMostOnce
  GossipAtMostOnce
  LotteryIsProportional
  SlashedForTimeouts
  DatasetsNeverChange
CHECK_DEADLOCK FALSE
