CONSTANTS
  TestNumber = 4
  MaxInRoom = 2
SPECIFICATION FairSpec
INVARIANTS OneGender Counted JoinedAll
PROPERTIES EveryoneServed
