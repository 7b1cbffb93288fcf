SPECIFICATION FairSpec
CONSTANTS
  s1 = s1
  p1 = p1
  p2 = p2
  Searches = {s1}
  Pollers = {p1, p2}
  Requests <- RequestKinds
  AsyncQueriesLimit = 1
  OtherResults = {0, 1}
INVARIANTS TypeOK ClientsAgree ErrorIsNeverMasked
PROPERTIES EvictsOnlyOldResults ImplementsPromise AsyncRequestAnswered WorkersEnd StorageDrains
