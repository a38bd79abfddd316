SPECIFICATION FairSpec
CONSTANTS
  q1 = q1  q2 = q2  u1 = u1  u2 = u2
  Nil = Nil
  NoUser = NoUser
  Requests <- TwoRequests
  Users <- TwoUsers
  Known <- OneKnown
  Routes <- AllRoutes
  MaxRetry = 1
  MaxFault = 2
CHECK_DEADLOCK FALSE
INVARIANT TypeOK
INVARIANT Barred
INVARIANT Signed
INVARIANT TokenGiven
PROPERTY Answered
