SPECIFICATION ReadsSpec
CONSTANTS
  MaxFrame = 2
  MaxInmem = 5
  Payloads = {2, 5}
  MaxFrames = 3
  MaxControls = 2
  Word = 16
  Announced = {15}
  Nothing = Nothing
  Environments <- PeaceOrDisorder
  Threshold = 100
  MaxWsInmem = 4
  Replies = {1}
  MaxWsCalls = 5
  DataSizes = {1, 2}
  ControlSizes = {0, 1}
  MaxWsFrames = 2
  MaxWsControls = 1
  Liberties <- Wrong
INVARIANTS ReceiveSound MessagesSound
PROPERTY AllServed
