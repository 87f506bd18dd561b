SPECIFICATION Spec
CONSTANTS
    Null = Null
    NoItem = NoItem
    NULL <- Null
    Unset <- NoItem
    Name <- Names
    NotName <- bad
    Elem <- Elems
    HOME <- home
    OLDPWD <- oldpwd
    PWD <- pwd
    SHLVL <- shlvl
    One <- one
    Dir <- Dirs
    Link <- Links
    Envps <- Starts
    Argvs <- Arguments
    CdArgs <- CdTargets
    MaxCommands = 3
INVARIANTS
    TypeOK
    UniqueNames
    ExportSorted
    EnvironComplete
PROPERTIES
    PwdFollows
    ReportedDone
    KeepsMap
CHECK_DEADLOCK FALSE
