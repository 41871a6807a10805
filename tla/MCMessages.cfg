\* Documents of up to two values, and every message cut at every byte.
SPECIFICATION Spec
CONSTANTS
    maxInt = 2047
    maxLargestInt = 32767
    Bytes <- MCBytes
    serverIP <- MCserverIP
    Names <- MCNames
    Scalars <- MCScalars
    Paddings <- MCPaddings
    AndroidMessages <- MCAndroidMessages
    MaxItems = 2
INVARIANTS
    ReadsWhatIsWritten
    TruncationRejected
    WritesReadBack
    WellTypedHandled
    SentReadable
    FieldsAgree
CHECK_DEADLOCK FALSE
