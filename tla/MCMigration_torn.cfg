\* A crash inside the rebuild of the sessions table.
SPECIFICATION Spec
CONSTANTS
    i1 = i1
    i2 = i2
    i3 = i3
    None = None
    Ids <- OldRows
    Issue <- About
    Issues <- KnownIssues
    MaxId = 7
INVARIANT
    BootKeepsHistory
