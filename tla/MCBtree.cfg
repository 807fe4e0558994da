SPECIFICATION Spec
CONSTANTS
    T = 2
    Keys = {1, 2, 3, 4, 5, 6, 7, 8, 9}
    MaxAllocs = 5
    Null = Null
INVARIANTS
    SearchTree
PROPERTIES
    IsMap
