\* Two requests at a time on a client, a service, two milestones with one number, a ticket.
SPECIFICATION Spec
CONSTANTS
    v1 = v1
    m1 = m1
    m2 = m2
    Client = client
    Services = {v1}
    Milestones = {m1, m2}
    Tickets = {t1}
    Slot <- MCSlot
    NewStages = {"proposal_sent"}
    None = None
    Sessions = {s1, s2}
    MaxTrail = 3
    MaxMarks = 1
SYMMETRY Symmetry
INVARIANTS
    TypeOK
    TrailExplains
    DoneIsLogged
    SlotUnique
PROPERTIES
    DeletedStaysDeleted
