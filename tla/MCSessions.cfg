\* Two pages; two bytes of output through a ring of one, or two batches of keys with one failed
\* post; a stream of three lines.
SPECIFICATION FairSpec
CONSTANTS
  Parts = {"terminal", "gateway"}
  a = a
  b = b
  Pages = {a, b}
  RingBytes = 1
  MaxBacklog = 1
  Bounds <- PrintsOrTypes
  MaxTyped = 3
  MaxSessionEvents = 2
  MaxRewrites = 2
\* The session ends and its pages with it: the behaviour really stops.
CHECK_DEADLOCK FALSE
INVARIANTS TypeOK ScreenWhole TypedInOrder
PROPERTIES NothingOutlives
