CONSTANTS
  Parts = {"strings", "vectors", "lists", "symbols", "literals"}
  Lowermap <- SmallLowermap
  Uppermap <- SmallUppermap
  Fold1 <- SmallFold1
  Fold2 <- SmallFold2
  Codes <- SomeCodes
  Others <- SomeTexts
  MaxText = 3
  RawBytes = {65, 128, 143, 160, 191, 194, 224, 237, 240, 244}
  MaxRaw = 4
  Oddities = {65}
  ByteBits = 2
  Floating = Floating
  Bytes <- NineBytes
  Numbers <- EdgeNumbers
  Addresses = {100, 200}
  MaxWrites = 1
  Nil = Nil
  F1 = F1
  F2 = F2
  P1 = P1
  P2 = P2
  P3 = P3
  Keyword = F1
  Flonums = {F1, F2}
  Pairs = {P1, P2, P3}
  Names = {"a", "b"}
  Hash <- OneChain
  Unbound = Unbound
  Value = Value
  Props = {"p"}
  MaxSymbols = 2
  Base = 2
  WordsPerFlonum = 2
  Atoms <- SmallAtoms
  Sizes = {0, 1, 2, 7, 8}
  Fillers <- SmallFillers
  MaxObjects = 3
SPECIFICATION DataSpec
SYMMETRY Symmetry
CHECK_DEADLOCK FALSE
INVARIANT SymbolsPersist
PROPERTIES
  StringsHoldText
  TextIsUnderstood
  VectorsAreExact
  ListsAreKnown
  ConstantsSurvive
  GarbageSymbolsGo
