SPECIFICATION LifeSpec
CONSTANTS
    MaxStarts = 1
PROPERTY WaitReturns
CHECK_DEADLOCK FALSE
