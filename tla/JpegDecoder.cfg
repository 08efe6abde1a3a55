CONSTANTS
  SLOTS = {0, 1}
  BITMAP_HEIGHT = 2
  MAX_Y = 4
  MAX_SOURCES = 2
  Streams <- MCStreams
  Settings <- MCSettings
  Feeds <- MCFeeds
SPECIFICATION MCSpec
INVARIANTS
  LinesInOrder
  StoppingCanFinish
  InSyncPassIsFinal
  BitmapIsOnePicture
  OneRenderThread
  DrawsOnASurface
PROPERTIES
  OutputKeepsBehindInput
  FirstTableKept
  CallsReturn
  PictureReturns
  StopReturns
CHECK_DEADLOCK FALSE
