CONSTANTS
    msg_size = 3
    BUFF_SIZE = 7
    MaxBytes = 20
SPECIFICATION FairSpec
INVARIANTS DelimTypeOK NoCaseTwo Bounded AfterRelease
PROPERTIES InOrder Delivered
