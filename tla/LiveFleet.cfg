SPECIFICATION FairSpec
CONSTANTS
    Device = {d1}
    Connection = {c1, c2}
    Page = {p1}
    Driver = {v1}
    Migrations = 2
    None = None
INVARIANTS
    TypeOK
    FlagIsTrue
    SchemaIsWhole
    NamesResolve
    FleetInv
PROPERTIES
    PagesCatchUp
    ServerComesUp
CHECK_DEADLOCK FALSE
