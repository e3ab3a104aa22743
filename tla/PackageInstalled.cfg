SPECIFICATION PackageSpec
CONSTANTS
    Processes = {p1, p2}
    Packages = {sudo}
    sudo = sudo
    old = old
    new = new
    Available = {old, new}
    Parts <- MCParts
    Installable <- MCInstallable
    Hosts <- MCHosts
    Requests <- MCRequests
    Fresh = 0
    Stale = 1
    LastTime = 2
    MaxChanges = 1
    MaxPowerFailures = 1
    None = None
SYMMETRY Symmetry
PROPERTY VerdictIsRecent
CHECK_DEADLOCK FALSE
