CONSTANTS
    Threads = {t1, t2}
    Files = {f1}
    Inodes = {i1}
    Names = {n1}
    NFds = 1
    First = t1
    PathUsers = {t1}
    MaySpawn = TRUE
    Nil = Nil

SPECIFICATION Spec
INVARIANT FRefsExact
