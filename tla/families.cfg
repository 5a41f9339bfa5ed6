\* Two names besides the default one, two numbers, one write, two
\* crashes, three openings.
SPECIFICATION Spec
CONSTANTS
    default = default
    a = a
    b = b
    w = w
    Nothing = Nothing
    Names <- DefaultAndTwo
    Writes <- OneWrite
    MaxId = 2
    MaxRecords = 4
    MaxOpens = 3
    MaxCrashes = 2
SYMMETRY Symmetry
CHECK_DEADLOCK FALSE
INVARIANT TypeOK
INVARIANT ManifestTells
INVARIANT OwedSurvives
INVARIANT OwnData
INVARIANT CleanIsTrue
