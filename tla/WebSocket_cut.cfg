SPECIFICATION WsSpec
CONSTANTS
  Threshold = 100
  MaxWsInmem = 20
  Replies = {1}
  MaxWsCalls = 6
  DataSizes = {1, 2}
  ControlSizes = {0, 1}
  MaxWsFrames = 1
  MaxWsControls = 0
  Liberties <- Cut
PROPERTIES GoneIsClosed
