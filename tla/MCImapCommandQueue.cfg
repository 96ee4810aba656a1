CONSTANT MaxLog = 5
SPECIFICATION QueueSpec
INVARIANT HoldsWhatIsWaiting
CHECK_DEADLOCK FALSE
