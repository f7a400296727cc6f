CONSTANTS
  Last = 4
  underId = 2
  Exits = 1
  Forks = 1
  AllocErrors = 1
  InfoErrors = 1
SPECIFICATION FairSpec
INVARIANTS TypeOK Sound FoundOnce Complete
PROPERTIES Ends
