\* One request at a time on two leads implements the abstract life cycle.
SPECIFICATION Spec
CONSTANTS
    ana = ana
    bea = bea
    caro = caro
    Leads = {l1, l2}
    ClientIds = {c1, c2, c3}
    Users = {ana, bea, caro}
    Role <- MCRole3
    None = None
    Sessions = {s1}
INVARIANTS
    LinkExact
PROPERTIES
    ImplementsLifecycle
