CONSTANT Items <- MCItems
SPECIFICATION Spec
INVARIANT LinesAreLiteral
CHECK_DEADLOCK FALSE
