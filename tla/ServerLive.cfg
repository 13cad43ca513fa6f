SPECIFICATION LiveSpec
CONSTANTS
    r1 = r1
    r2 = r2
    r3 = r3
    Idle = Idle
    Conn = {c1, c2}
    Req = {r1, r2, r3}
PROPERTIES
    EveryRequestEnds SignalEndsProcess
