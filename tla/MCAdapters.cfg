SPECIFICATION Spec
CONSTANTS
  Operations <- MCOperations
  Questions <- MCQuestions
  Calls = {"c1", "c2"}
  Branches = {"main", "dev", "work"}
  Commits = {"k1", "k2"}
  InitialHeads <- MCHeads
  MaxPushes = 2
INVARIANTS
  TypeOK
  BranchStartsOnBase
  ResultTellsWhatHappened
  RestRequestIsExact
CHECK_DEADLOCK FALSE
