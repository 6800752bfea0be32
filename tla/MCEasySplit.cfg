\* A window too small for the borders, one with room for little more, and a large one; the
\* mouse on, near and beyond the borders.
SPECIFICATION Spec
CONSTANTS
  Heights = {0, 5, 12, 16}
  MousePos <- MCMousePos
  Border = 3
  Magnet = 2
  Half = 1
  MaxInputs = 6
INVARIANTS
  SplitTypeOK
  LayoutFollows
  DockedOrFree
  CaptureIsDrag
PROPERTIES
  ArrowsMove
  SizesSettle
CHECK_DEADLOCK FALSE
