\* One request at a time: three POSTs of files in one directory.
CONSTANTS
    d = d
    f1 = f1
    f2 = f2
    c1 = c1
    c2 = c2
    h1 = h1
    h2 = h2
    NoRef = NoRef
    Names <- MCNames
    Contents <- MCContents
    PostPaths <- MCPostPaths
    Handlers <- MCOneHandler
    MaxPosts = 3
    BlobErrors = FALSE
    KvErrors = FALSE
SPECIFICATION Spec
PROPERTY FsRefinement
CHECK_DEADLOCK FALSE
