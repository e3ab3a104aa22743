SPECIFICATION MountSpec
CONSTANTS
    Processes = {p1, p2}
    Points = {data, home}
    Options = {nodev, exec}
    data = data
    home = home
    nodev = nodev
    exec = exec
    Zero = Zero
    Comment = Comment
    Indented = Indented
    Unended = Unended
    Texts <- MCIndented
    Mounts <- MCMounts
    Fstab = Fstab
    Tmp = Tmp
    Requests <- MCRequests
    Inodes = {1, 2, 3, 4, 5, 6}
    LastSecond = 1
    MaxEdits = 1
    Absent = Absent
    None = None
SYMMETRY Symmetry
INVARIANT KeepsOtherLines
CHECK_DEADLOCK FALSE
