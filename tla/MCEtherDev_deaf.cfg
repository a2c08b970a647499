SPECIFICATION FairSpec
CONSTANTS
    b0 = b0
    b1 = b1
    b2 = b2
    f0 = f0
    f1 = f1
    Buf = {b0, b1, b2}
    Frame = {f0, f1}
PROPERTY EveryFrameTaken
