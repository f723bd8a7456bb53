\* Two streams and three writes, the fewest commits whose timestamps give the comparator
\* of a batch a cycle: own and foreign commits with timestamps that may go back, events
\* that match and that do not, deletions, reads that throw in a wake and elsewhere.
CONSTANTS
  Stream = {1, 2}
  MaxWrites = 3
  MaxTime = 1
  Match = {TRUE, FALSE}
  MaxFaults = 1
  None = None
SPECIFICATION FairSpec
INVARIANTS
  TypeOK
  NothingSkipped
  InOrderOnce
PROPERTIES
  LaterDrainsFollow
  GrowingInOrder
  EventuallyDelivered
