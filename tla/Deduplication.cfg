SPECIFICATION FairSpec
CONSTANTS
    r1 = r1
    r2 = r2
    r3 = r3
    f1 = f1
    f2 = f2
    Rx <- MCRx
    Frames <- MCFrames
    frameOf <- MCFrameOf
    Delay = 3
    MinTTL = 7
    MaxLag = 1
    MaxArrival = 8
INVARIANTS TypeOK OneCollector CallsAreApart OwnFrameCollected WindowComplete
PROPERTY EventuallyHandled
CHECK_DEADLOCK FALSE
