\* Five old rows; crashes between any two statements of the boots.
SPECIFICATION Spec
CONSTANTS
    i1 = i1
    i2 = i2
    i3 = i3
    None = None
    Ids <- OldRows
    Issue <- About
    Issues <- KnownIssues
    MaxId = 7
INVARIANTS
    TypeOK
    NothingDestroyed
    BackfillResumes
    IntactUnlessTorn
    OwnRowOrNone
