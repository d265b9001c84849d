SPECIFICATION Spec
CONSTANTS
    Byte = {"a", "nl"}
    NL = "nl"
    BUFSIZ = 2
    SLOP = 1
    Modes = {"full", "line"}
    MaxFile = 3
    MaxCount = 3
    Careless = FALSE
    Failures = {"write", "lseek", "read"}
INVARIANTS
    TypeOK
    LinesAreFlushed
    FilePosition
    OutputErrorKept
PROPERTY ImplementsFile
