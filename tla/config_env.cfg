\* Load() returns once.
SPECIFICATION Spec
INVARIANTS
    UsedVariablesTakeEffect
CHECK_DEADLOCK FALSE
