SPECIFICATION FairSpec
CONSTANTS
  s1 = s1  s2 = s2  s3 = s3  u1 = u1  u2 = u2  u3 = u3  r1 = r1  w1 = w1
  Nil = Nil
  NoRoom = NoRoom
  Sessions <- TwoSessions
  Tcp <- TcpSessions
  Users <- TwoUsers
  RoomIds <- OneRoom
  Request <- Shared
  Routines <- OneRoutine
  MaxJoin = 2
  MaxExit = 1
  MaxRoom = 2
CHECK_DEADLOCK FALSE
INVARIANT TypeOK
PROPERTY DropFinal
PROPERTY RefusalCloses
PROPERTY JoinSettles
