SPECIFICATION FairSpec
CONSTANTS
  Cell = cell
  Cells = {cell}
  Actors = {a1, a2, a3}
  WaitSets <- MCWaitSets
  Targets <- MCTargets
INVARIANTS NoLostWakeup NoSpuriousWakeup NoLeakedSubscriber
PROPERTIES SafeChangeIsAnswered ReachedStateReleases
CHECK_DEADLOCK FALSE
