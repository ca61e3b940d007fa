SPECIFICATION Spec
CONSTANTS
    Sizes = {1, 2, 3}
    Seeded = 2
    MaxUsers = 8
    MaxPage = 7
INVARIANTS TypeOK NextWalkInOrder WalkIsComplete
PROPERTIES WalkEnds
CHECK_DEADLOCK FALSE
