SPECIFICATION Spec
CONSTANTS
    Byte = {"a", "nl"}
    NL = "nl"
    BUFSIZ = 2
    SLOP = 1
    Modes = {"full"}
    MaxFile = 3
    MaxCount = 3
    Careless = TRUE
    Failures = {"write"}
INVARIANT BufferHasWriteData
