SPECIFICATION Spec
CONSTANT NoName = NoName
INVARIANTS ScriptsLoad ScopesMatch  ValuesComputed
PROPERTY FollowsNesting
CHECK_DEADLOCK FALSE
