CONSTANTS
  PAGE_SIZE = 2
  MemMaps <- MCMemMaps
  NoAddr = NoAddr
SPECIFICATION Spec
INVARIANTS EveryFrameAccounted FramesAreUsable BitmapInBounds
PROPERTIES FailsOnlyWhenEmpty
