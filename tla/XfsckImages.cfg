\* xfsck on a good xv6 image and on one corruption of each rule its
\* comments state.  main() ends, so the final states have no successor.
CONSTANTS
    BSIZE = 512
    NDIRECT = 12
    NINDIRECT = 128
    IPB = 8
    BPB = 4096
    DIRSIZ = 14
    ROOTINO = 1
    Images <- MCImages
SPECIFICATION Spec
INVARIANT ErrorIsJustified AcceptedImageSound
CHECK_DEADLOCK FALSE
