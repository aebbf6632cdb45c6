CONSTANTS
  Requests = {r1, r2, r3}
  MaxNo = 6
SPECIFICATION Spec
INVARIANT NumbersAreConsecutive
INVARIANT NoLiveNumberClaimed
PROPERTY CreatedUnderLiveContract
PROPERTY DeletionBlocksForGood
PROPERTY EveryCreationEnds
CHECK_DEADLOCK FALSE
