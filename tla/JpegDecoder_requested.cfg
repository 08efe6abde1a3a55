CONSTANTS
  SLOTS = {0, 1}
  BITMAP_HEIGHT = 2
  MAX_Y = 4
  MAX_SOURCES = 2
  Streams <- ColorsLaterStreams
  Settings <- ColorsLaterSettings
  Feeds <- NoFeeds
SPECIFICATION MCSpec
INVARIANTS
  RequestedPassIsFinal
CHECK_DEADLOCK FALSE
