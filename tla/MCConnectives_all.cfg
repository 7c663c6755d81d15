\* Scopes of up to three restrictions in up to three blocks.
CONSTANTS
    fa = fa
    fb = fb
    x = x
    None = None
    Fields <- TwoFields
    Values <- OneValue
    Tests <- EveryTest
    MaxParts = 3
    MaxBlocks = 3
SPECIFICATION Spec
INVARIANTS
    PhraseMeans
SYMMETRY FieldSymmetry
CHECK_DEADLOCK FALSE
