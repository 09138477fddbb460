SPECIFICATION Spec
CONSTANTS
    NPROC = 2
    NTHREAD = 2
    NFRAMES = 17
    IMAGES = {1, 2}
    STARTS = {5}
    MAPLEN = 2
    PGSIZE = 2
    FAR = 6
    MAX_CALLS = 7
INVARIANT FramesTrue SpacesWhole
PROPERTY NoRemap
CHECK_DEADLOCK FALSE
