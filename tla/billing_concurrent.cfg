\* Two requests of any kind at a time, three profiles: the database-backed guarantees.
SPECIFICATION FairSpec
CONSTANTS
    Profiles <- MCProfiles3
    TaxIds = {t1, t2}
    NoRow = NoRow
    Unwritten = Unwritten
    Sessions = {s1, s2}
    Kinds = {"create", "update", "delete", "set_default"}
    InitialCounts = {0, 2}
INVARIANTS
    TypeOK
    TaxIdUnique
PROPERTIES
    DeletedStaysDeleted
    RequestsFinish
