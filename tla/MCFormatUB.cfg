\* Every valuesmap string of up to five characters over a key letter,
\* a digit and the two separators, and the single entries over the keys
\* k, j and kj and the values 1 and 20.
CONSTANTS
    Chars = {"k", "1", ":", ";"}
    MaxLen = 5
    Keys <- MCKeys
    Values <- MCValues
    MaxEntries = 1
SPECIFICATION Spec
\* read_valuesmap() is called once; the parsed state is final.
CHECK_DEADLOCK FALSE

INVARIANT ValuesmapDefined
