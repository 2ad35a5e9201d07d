SPECIFICATION Spec
CONSTANTS
    Body = 20
    FrameSizes <- MCFrameSizes
    PartLen = 7
    CrcLen = 2
    CodeLen = 6
    QueueLen = 2
    None = None
INVARIANTS
    AnswerIsOwn
    TouchIsForThisCommand
    FrameReadWhole
PROPERTY EveryCommandAnswered
