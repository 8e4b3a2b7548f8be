SPECIFICATION SendsSpec
CONSTANTS
  MaxFrame = 2
  HeaderSize = 1
  Threshold = 3
  SizeWord = 1024
  Payloads = {1, 3}
  MaxCalls = 6
  Environments <- FullOrShort
  MaxWsInmem = 20
  Replies = {1, 2}
  MaxWsCalls = 4
  DataSizes = {1, 2}
  ControlSizes = {0, 1}
  MaxWsFrames = 1
  MaxWsControls = 1
  Liberties <- Slow
INVARIANT SendSound
PROPERTIES ImplementsStream WebImplementsStream Drains
