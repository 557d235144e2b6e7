SPECIFICATION FairSpec
CONSTANTS
    a1 = a1  a2 = a2  b1 = b1  a = a  b = b
    Nodes <- MCNodes
    Dirs <- MCDirs
    Short <- MCShort
    None = None
INVARIANTS
    TypeOK SeriesAgreeWithStatus NodesAreConserved FailuresAreConfirmedOnce
PROPERTIES
    ConfirmationEnds
