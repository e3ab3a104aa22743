CONSTANTS
    Processes = {p1, p2}
    Settings = {s1, s2}
    Last = 2
    Absent = Absent
    None = None
SPECIFICATION Spec
INVARIANTS FailureRestores AllOrNothing EachOldOrWanted
