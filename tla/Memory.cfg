SPECIFICATION Spec
CONSTANTS
    StackSize = 10
    MinScratch = 8
    MinHeap = 16
    MaxHeap = 64
    MinFree = 2
    Growth = 200
    Shrinkage = 50
    ShrinkageUsed = 50
    ShrinkCounts = 1
    MaxPending = 1
    Half = 10
    Digits = {3, 20}
    HeapFixed = {FALSE}
    MaxObjects = 4
    MaxSteps = 6
INVARIANT HeapInOrder
PROPERTIES
    MovesUnseen
    GarbageExact
VIEW View
CHECK_DEADLOCK FALSE
