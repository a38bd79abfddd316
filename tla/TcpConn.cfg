SPECIFICATION FairSpec
CONSTANTS
  Streams <- MCStreams
  HeaderLength = 4
  Half = 8
  MaxToken = 16
  CpuNum = 1
CHECK_DEADLOCK FALSE
INVARIANT TypeOK
INVARIANT InOrder
PROPERTY Handled
PROPERTY BothEnd
