SPECIFICATION Spec
INVARIANTS InterruptionCleansUp
CHECK_DEADLOCK FALSE
