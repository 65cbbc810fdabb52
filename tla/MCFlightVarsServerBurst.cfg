CONSTANTS
  Var <- OneVar
  Offset <- MCOffset
  NoOffset = "none"
  OffsetOf <- OneOffsetOf
  Span <- MCSpan
  MaxValue = 1
  NoValue = NoValue
  Subscriber = {s1}
  MaxSubs = 2
  FsuipcMayFail = FALSE
  MaxUp = 2
  MaxBurst = 2
  MaxPosted = 2
  MaxRequests = 2
SPECIFICATION FairSpec
PROPERTIES
  RequestsAreHandled
