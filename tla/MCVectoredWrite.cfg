CONSTANTS
    MaxSlices = 5
    MaxLen = 2
    Layouts <- SliceLists
SPECIFICATION Spec
INVARIANTS TypeOK Cursor OkMeansAll NoFalseWriteZero
PROPERTY EveryStepCounts
