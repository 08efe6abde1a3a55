CONSTANTS
  SLOTS = {0, 1}
  BITMAP_HEIGHT = 2
  MAX_Y = 4
  MAX_SOURCES = 2
  Streams <- TallStreams
  Settings <- TallSettings
  Feeds <- NoFeeds
SPECIFICATION MCSpec
INVARIANTS
  StopsAtTheBottom
CHECK_DEADLOCK FALSE
