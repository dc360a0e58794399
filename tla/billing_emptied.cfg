\* Two deletes: the client ends without profiles.
SPECIFICATION FairSpec
CONSTANTS
    Profiles <- MCProfiles2
    TaxIds = {t1, t2}
    NoRow = NoRow
    Unwritten = Unwritten
    Sessions = {s1, s2}
    Kinds = {"delete"}
    InitialCounts = {2}
PROPERTIES
    NeverEmptied
