SPECIFICATION Spec
CONSTANT Key = {1, 2, 3, 4, 5, 6}
INVARIANT InsertedIsFound
CHECK_DEADLOCK FALSE
