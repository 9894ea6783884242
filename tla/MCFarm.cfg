SPECIFICATION FairSpec
CONSTANTS
  kNumCPUs = 3
  MaxNumbers = 4
  MaxKills = 2
INVARIANT TypeOK
INVARIANT OneNumberPerWorker
INVARIANT NumbersConserved
INVARIANT NoZombieLeft
INVARIANT NoContinueLost
INVARIANT ClosedWhenAnswered
PROPERTY ImplementsTaskFarm
PROPERTY NumbersAreAnswered
PROPERTY FarmEnds
CHECK_DEADLOCK FALSE
