\* Four internal keys on two levels, each inserted at any height and
\* overwritten at will, and one iterator that makes any calls.
CONSTANTS
    Keys <- FourKeys
    Values <- TwoEntries
    MaxHeight = 2
    Readers = {r1}
SPECIFICATION Spec
INVARIANT ChainsNested
PROPERTY Implements
