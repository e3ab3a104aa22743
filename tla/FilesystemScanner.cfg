SPECIFICATION FairSpec
CONSTANTS
    Clients = {c1}
    Scanners = {s1, s2}
    Files = {1, 2, 3}
    ReadsAs <- MCReadsAs
    SoftTimeout = 1
    HardTimeout = 2
    WaitTimeout = 1
    NoFile = NoFile
    NoOne = NoOne
INVARIANTS TypeOK LoadedComplete DiskNewest ServedUnexpired
PROPERTY CallReturns
