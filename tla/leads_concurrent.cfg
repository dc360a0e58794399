\* Two requests at a time on one lead; room for one client more than they may create.
SPECIFICATION FairSpec
CONSTANTS
    ana = ana
    bea = bea
    caro = caro
    Leads = {l1}
    ClientIds = {c1, c2, c3}
    Users = {ana, bea}
    Role <- MCRole2
    None = None
    Sessions = {s1, s2}
INVARIANTS
    TypeOK
    ClientsComplete
    LinkToOwnClient
    DuplicatesOverlap
PROPERTIES
    LinkKept
    
    RequestsFinish
