CONSTANTS
    Names = {a, b}
    Name = a
    Dirs = {parent, d1, d2, d3}
    Files = {f1, f2}
    Parent = parent
    None = None
    MaxDepth = 1
    Handles = 2
    Disturbances = 2
SPECIFICATION Spec
INVARIANTS SuccessIsGone QuietRemovalSucceeds KeptWhileHeld
PROPERTY OnlyInside
SYMMETRY Symmetry
\* The directory is removed once.
CHECK_DEADLOCK FALSE
