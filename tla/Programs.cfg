SPECIFICATION PartSpec
CONSTANTS
    Threads = {t1, t2, t3}
    Files = {f1, f2}
    Inodes = {i1, i2}
    Names = {n1, n2}
    NFds = 2
    First = t1
    PathUsers = {t1}
    MaySpawn = FALSE
    Nil = Nil
INVARIANTS
    FilesExact ConsoleTrue ShellTrue EditorTrue KcTrue
PROPERTIES
    ScreenTrue FtpTrue
CHECK_DEADLOCK FALSE
