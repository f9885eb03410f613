\* graphs of three strings, arrays of up to five line ends, sorted or not,
\* 16 small integers
SPECIFICATION HeapFairSpec
CONSTANTS
    Word = 16
    MaxSize = 5
    Position <- SomePositions
    LineOffset <- SomeOffsets
    Nodes = {a, b, c}
INVARIANTS
    TypeOK
    FindsLine
    ProbesAreFew
    AlwaysAnnotates
    StringsInOrder
    FewStringsRead
PROPERTIES
    AnnotationEnds
CHECK_DEADLOCK FALSE
