SPECIFICATION MCSpec
CONSTANTS
  Byte = {3, 15, 119, 129, 131}
  NAxes = 2
  ByteSize = 3
  TimeoutLoad = 2
  PayloadByte = {3, 129}
INVARIANTS
  RxTypeOK
  StoresInBounds
  ReadyFrameIsWhole
  ReceiverLoadsNoTorso
PROPERTIES
  FrameReaderHolds
  ReceiverResyncs
