SPECIFICATION DevSpec
CONSTANTS
  MaxEdits = 3
  ChanCap = 1
  QueueCap = 2
INVARIANT ChildrenHeld
PROPERTIES LatestIsServed StopsWhenCancelled
CHECK_DEADLOCK FALSE
