CONSTANTS
  Var <- OneVar
  Offset <- MCOffset
  NoOffset = "none"
  OffsetOf <- OneOffsetOf
  Span <- MCSpan
  MaxValue = 1
  NoValue = NoValue
  Subscriber = {s1}
  MaxSubs = 3
  FsuipcMayFail = TRUE
  MaxUp = 2
  MaxBurst = 2
  MaxPosted = 2
  MaxRequests = 3
SPECIFICATION FairSpec
INVARIANTS
  TypeOK
  MapperMatchesDelegate
  SessionTakesAll
  NothingLostOnTheWay
PROPERTIES
  EventuallySeen
  ClosedSessionEnds
  UpdatesOnlyWhenGranted
