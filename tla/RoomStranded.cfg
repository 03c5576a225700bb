SPECIFICATION Spec
CONSTANT MaxGeneration = 8
CHECK_DEADLOCK FALSE
INVARIANT OnlyRefusalStrands
