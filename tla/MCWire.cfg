SPECIFICATION WSpec
CONSTANTS
  MaxString = 2
  MaxVector = 3
  MaxPayload = 176
  Chunks = {17, 200}
  Losses = {0, 20}
  Fills = {0, 5}
  Lengths = {2, 4}
  Small = {"QUERY"}
  MaxFrames = 2
CHECK_DEADLOCK FALSE
INVARIANTS
  HandledAsSent
  WholeOrNothing
  OneReadingPerType
PROPERTIES
  FramesArrive
