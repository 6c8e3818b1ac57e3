SPECIFICATION FairSpec
CONSTANTS
  Sockets <- MCSockets
  Slots <- MCSlots
  Own = 3
  DeviceBuffers = 2
  RxBufferSize = 2
  MaxInbox = 1
  MaxCalls = 3
CHECK_DEADLOCK FALSE
INVARIANT ConnectionsHaveOneOwner
PROPERTIES
  ImplementsAccount
  SendGetsBuffer
