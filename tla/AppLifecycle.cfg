SPECIFICATION Spec
INVARIANTS TypeOK CleanedUpOnce SetupErrorsReturned TelemetryOutlivesDatabase NoSenderIsStuck
    CauseIsReturned ServesMigratedDatabase
PROPERTIES FailureEndsProcess
CHECK_DEADLOCK FALSE
