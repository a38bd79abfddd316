SPECIFICATION Spec
CONSTANTS
  s1 = s1  s2 = s2  u1 = u1  k1 = k1  k2 = k2
  Nil = Nil
  Sessions <- TwoSessions
  Server <- TwoServers
  Users <- OneUser
  RoomIds <- OneRoom
  Traffic <- TwoTabs
  MaxJoin = 1
  MaxRetry = 0
CHECK_DEADLOCK FALSE
INVARIANT PersonCount
