CONSTANTS
  Var <- MCVar
  Offset <- MCOffset
  NoOffset = "none"
  OffsetOf <- MCOffsetOf
  Span <- MCSpan
  MaxValue = 2
  NoValue = NoValue
  Subscriber = {s1}
  MaxSubs = 3
  FsuipcMayFail = TRUE
SPECIFICATION FairDelegate
INVARIANTS
  TypeOKDelegate
  ObservedAsSubscribed
  CachedWhenCompared
  NoStaleSubscriber
PROPERTIES
  EventuallyTold
