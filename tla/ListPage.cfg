SPECIFICATION Spec
CONSTANTS
    c1 = c1
    c2 = c2
    None = None
    Courses <- MCCourses
    PageSize = 2
    MaxRequests = 5
    MaxLost = 1
SYMMETRY MCSymmetry
INVARIANTS
    IInv
    NewestIsShown
    CreatedIsListedOnce
CHECK_DEADLOCK FALSE
