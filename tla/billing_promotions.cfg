\* Edits and promotions of three profiles by three requests at a time.
SPECIFICATION Spec
CONSTANTS
    Profiles <- MCProfiles3
    TaxIds = {t1, t2, t3}
    NoRow = NoRow
    Unwritten = Unwritten
    Sessions = {s1, s2, s3}
    Kinds = {"update", "set_default"}
    InitialCounts = {3}
SYMMETRY SessionSymmetry
INVARIANTS
    AtMostOneDefault
