CONSTANTS
  ToServer <- Requests
  ToClient <- Replies
  OutCapacity = 20
  InCapacity <- MCIn
  MaxMessages = 2
SPECIFICATION Spec
INVARIANTS
  DecodedAsSent
CHECK_DEADLOCK FALSE
