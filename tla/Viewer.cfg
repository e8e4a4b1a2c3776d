SPECIFICATION Spec
CONSTANTS
  Areas <- OneAndTwoPoints
  FirstArea <- TwoPoints
  FirstScreen <- HalfWhite
  Colors <- BlackAndWhite
  Black = 0
  Cursor = Cursor
  Nowhere = Nowhere
  Formats = {rgb8, rgb32}
  FirstFormat = rgb32
  MaxChanges = 1
  MaxSettings = 2
INVARIANT TypeOK
INVARIANT OneRequestAtATime
INVARIANT UpdatesFit
INVARIANT ViewerKeepsUp
INVARIANT WindowKeepsUp
PROPERTY WindowConverges
CHECK_DEADLOCK FALSE
