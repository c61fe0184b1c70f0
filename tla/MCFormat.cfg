\* Every valuesmap string of up to five characters over a key letter,
\* a digit and the two separators, and every list of one to three
\* entries over the keys k, j and kj and the values 1 and 20.
CONSTANTS
    Chars = {"k", "1", ":", ";"}
    MaxLen = 5
    Keys <- MCKeys
    Values <- MCValues
    MaxEntries = 3
SPECIFICATION Spec
\* read_valuesmap() is called once; the parsed state is final.
CHECK_DEADLOCK FALSE
INVARIANT ParsesDocumentedFormat
INVARIANT UuidFormat
