SPECIFICATION FairSpec
CONSTANTS
    FileSystems <- MCFileSystems
    Ramfs = {"rootfs"}
    Filenames <- MCFilenames
    Regular <- MCRegular
    DaemonFiles <- MCDaemonFiles
    MaxDaemon = 2
    Contents <- MCContents
    Args <- MCArgs
    Roots <- MCRoots
    Layouts <- MCLayouts
    DefaultInits <- MCInits
    Tokens <- MCTokens
INVARIANTS ForeignFilesKept WipedOnlyToSwitch AllFilesDeleted InitInRealRoot ResumedFirst InitrdReleased
 
CHECK_DEADLOCK FALSE
