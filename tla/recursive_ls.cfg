SPECIFICATION Spec
CONSTANTS
    home = home
    data = data
    File = File
    Root = home
    Dirs <- MCDirs
    MaxEntries = 2
    Depths = {0, 1, 2, 3}
INVARIANTS TypeOK ListsInOrder QueueOnSpine
