SPECIFICATION FairSpec
CONSTANTS
  Frames <- AllFrames
  MaxFrames = 2
  BufSize = 3
  MaxRequest = 5
  MaxResponse = 5
  Modes = {FALSE, TRUE}
  ResultSizes = {3, 5}
  ErrorSize = 3
INVARIANTS TypeOK OneReplyEach EffectsAsked FrameExact KeptBounded
PROPERTIES AllAnswered
