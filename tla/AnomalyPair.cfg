SPECIFICATION AnSpec
CONSTANTS
    Trainers = {"scheduler", "manual"}
    MaxClock = 3
    MaxMishaps = 0
INVARIANT ReadersSeeAPair
CHECK_DEADLOCK FALSE
