\* The client that creates the thread and two others; all of them set its wait set,
\* delete, wait for and detach it in any order and beside each other. When the record is gone nothing follows:
\* a state without a successor is the end.
CONSTANTS
  Client = {owner, c1, c2}
  Owner = owner
SPECIFICATION FairSpec
INVARIANTS TypeOK RecordOutlivesThread FreedHandleDestroyed 
PROPERTIES DeleteNoticed WaitReturns
CHECK_DEADLOCK FALSE
