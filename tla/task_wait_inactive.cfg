SPECIFICATION Spec
CONSTANTS
    NoTimeout = NoTimeout
    Intervals = {1}
    Timeouts = {NoTimeout, 4}
    ExitCodes = {1}
    Horizon = 5
INVARIANT SuccessInTime
