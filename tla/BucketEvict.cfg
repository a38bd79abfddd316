SPECIFICATION Spec
CONSTANTS
  s1 = s1  s2 = s2  s3 = s3  u1 = u1  u2 = u2  u3 = u3  r1 = r1  w1 = w1
  Nil = Nil
  NoRoom = NoRoom
  Sessions <- ThreeSessions
  Tcp <- TcpSessions
  Users <- ThreeUsers
  RoomIds <- OneRoom
  Request <- OwnThree
  Routines <- NoRoutines
  MaxJoin = 1
  MaxExit = 1
  MaxRoom = 3
CHECK_DEADLOCK FALSE
PROPERTY EvictedOnlyIfEmpty
