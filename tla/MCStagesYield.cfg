SPECIFICATION StagesSpec
CONSTANT Jobs <- OneJob
INVARIANT YieldIsNoFailure
CHECK_DEADLOCK FALSE
