SPECIFICATION Spec
CONSTANTS
    NoTimeout = NoTimeout
    Intervals = {1, 2, 3}
    Timeouts = {NoTimeout, 0, 1, 2, 4}
    ExitCodes = {0, 1, 50}
    Horizon = 7
INVARIANTS TypeOK EndNotMissed NotTimedOutEarly OvershootBounded
PROPERTIES WaitEnds NoticesEnd
