SPECIFICATION Spec
CONSTANTS
    Tables <- MCTables
    BitsPerByte = 2
    PrefixBytes = 2
    BatchBytes = 6
    Depths = {1, 2}
INVARIANTS
    WrittenRowsReadBack
    ScansAgreeWithReads
    NonzeroMeansAll
    RowsComeInOrder
