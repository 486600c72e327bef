CONSTANTS
    KeyName <- McKeyName
    SdlName <- McSdlName
    Unmapped = {99}
    KEY_QUEUE_LEN = 3
    MaxHost = 1
SPECIFICATION InputFairSpec
INVARIANTS KeysSettle
PROPERTIES IsFifo WaitEventReturns
\* NEMU ends when the key queue overflows.
CHECK_DEADLOCK FALSE
