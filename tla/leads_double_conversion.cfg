\* Two conversions of the same qualified lead.
SPECIFICATION Spec
CONSTANTS
    ana = ana
    bea = bea
    caro = caro
    Leads = {l1}
    ClientIds = {c1, c2}
    Users = {ana, bea}
    Role <- MCRole2
    None = None
    Sessions = {s1, s2}
INVARIANTS
    OneClientPerLead
