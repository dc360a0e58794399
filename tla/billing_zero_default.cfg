\* Two promotions: the client ends without a default profile.
SPECIFICATION FairSpec
CONSTANTS
    Profiles <- MCProfiles2
    TaxIds = {t1, t2}
    NoRow = NoRow
    Unwritten = Unwritten
    Sessions = {s1, s2}
    Kinds = {"set_default"}
    InitialCounts = {2}
INVARIANTS
    DefaultNeverLost
