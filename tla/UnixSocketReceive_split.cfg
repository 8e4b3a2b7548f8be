SPECIFICATION Spec
CONSTANTS
  MaxFrame = 2
  MaxInmem = 5
  Payloads = {2, 3}
  MaxFrames = 3
  MaxControls = 1
  Word = 16
  Announced = {15}
  Nothing = Nothing
  Environments <- Split
INVARIANT GotPacketIsSent
