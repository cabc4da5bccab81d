SPECIFICATION Spec
CONSTANTS
    Writers = {w1, w2}
    w1 = w1
    w2 = w2
    Targets = {t}
    t = t
    Names = {near, far}
    near = near
    far = far
    CrossNames = {far}
    Inodes = {i1, i2, i3}
    i1 = i1
    i2 = i2
    i3 = i3
    NoName = NoName
    NoFile = NoFile
    Fails = {"fsync", "fchmod", "rename", "copy", "close", "remove"}
SYMMETRY Symmetry
INVARIANTS TargetWhole OwnTmp NoStale
PROPERTY ReplacedWhole
