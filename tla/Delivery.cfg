SPECIFICATION DeliverySpec
CONSTANTS
  s1 = s1  s2 = s2  s3 = s3  u1 = u1  u2 = u2  u3 = u3  k1 = k1  k2 = k2
  Nil = Nil
  Sessions <- ThreeSessions
  Server <- TwoServers
  Users <- ThreeUsers
  BucketOf <- TwoBuckets
  RoomIds <- SomeRooms
  Traffic <- Traffics
  MaxJoin = 2
  MaxRetry = 1
  MaxPush = 2
CHECK_DEADLOCK FALSE
INVARIANT DeliveryTypeOK
INVARIANT PersonsCounted
INVARIANT ListedWhileIn
INVARIANT NobodyLeft
INVARIANT Routable
INVARIANT ReachesOrLeft
PROPERTY LeaverAbsent
