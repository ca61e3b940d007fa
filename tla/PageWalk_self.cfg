SPECIFICATION Spec
CONSTANTS
    Sizes = {1, 2, 3}
    Seeded = 2
    MaxUsers = 8
    MaxPage = 7
INVARIANTS SelfLeadsToUser
CHECK_DEADLOCK FALSE
