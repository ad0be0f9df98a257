CONSTANTS
  w1 = w1
  w2 = w2
  Parts = {"delimited", "calls"}
  Mark = Mark
  Frame = {w1, w2}
  MaxPath = 3
  MaxFull = 1
  MaxSegments = 1
  Returns = "level"
  Threads = {"t1", "t2"}
  StackWords = 6
  Signals = FALSE
  Vals <- SomeVals
  Names = {"a", "b"}
  Nesting = 2
  Expressions <- SomeExpressions
  Small <- SmallVals
SPECIFICATION ControlSpec
CHECK_DEADLOCK FALSE
INVARIANTS
  ListsMatchControl
  MeaningKept
  OverflowIsReal
