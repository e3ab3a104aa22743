CONSTANTS
    Processes = {p1, p2}
    Inodes = {i1, i2, i3}
    Target = "target"
    Temps = {t1, t2}
    Metas = {"x", "y"}
    Values = {"v"}
    Looks <- MCLooks
    None = None
    Foreign = Foreign
    Partial = Partial
SPECIFICATION Spec
INVARIANTS TypeOK NeverTorn NoLeftovers
PROPERTIES CreateNeverReplaces ReplacePreserves ImplementsConfigFile
SYMMETRY Symmetry
VIEW View
