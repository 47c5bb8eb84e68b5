SPECIFICATION Spec
CONSTANTS
    t1 = t1
    t2 = t2
    Threads <- MCThreads
    Commits <- MCCommits
    SystemRows <- MCSystemRows
    Catalog <- MCCatalog
    Layer <- MCLayer
    Missing = {"indexes"}
    BytesOf <- MCBytesOf
    MaxEntries = 2
    MaxBytes = 3
    MaxCalls <- TwoReaders
SYMMETRY Symmetry
INVARIANT OffsetsAreOfTheFile
