CONSTANTS
  HeaderSize = 2
  Cap = 4
  Sizes = {0, 1, 2, 3}
  Garbage = {0, 1, 3}
  MaxFrames = 2
SPECIFICATION FairSpec
INVARIANTS TypeOK InOrder BufferContiguous
PROPERTIES ChannelSpec EventuallyDelivered
CHECK_DEADLOCK FALSE
