SPECIFICATION FairSpec
CONSTANTS
  k1 = k1  k2 = k2
  Nil = Nil
  Servers <- TwoServers
  Registered <- TwoServers
  Value <- Metered
  Content <- BusyContent
  PushChan = 2
  PushChanSize = 1
  BusSize = 2
  Attempts = 2
  MaxMsg = 3
  MaxFault = 2
CHECK_DEADLOCK FALSE
INVARIANT TypeOK
INVARIANT KnownNeverKills
INVARIANT RoomStream
PROPERTY MessagesArrive
