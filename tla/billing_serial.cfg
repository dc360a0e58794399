\* One request at a time implements the abstract service.
SPECIFICATION Spec
CONSTANTS
    Profiles <- MCProfiles3
    TaxIds = {t1, t2, t3}
    NoRow = NoRow
    Unwritten = Unwritten
    Sessions = {s1}
    Kinds = {"create", "update", "delete", "set_default"}
    InitialCounts = {0, 1, 3}
INVARIANTS
    ExactlyOneDefault
PROPERTIES
    NeverEmptied
    ImplementsAtomic
