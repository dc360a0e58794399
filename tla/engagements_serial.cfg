\* One request at a time implements the rules.
SPECIFICATION Spec
CONSTANTS
    v1 = v1
    m1 = m1
    m2 = m2
    Client = client
    Services = {v1}
    Milestones = {m1, m2}
    Tickets = {t1}
    Slot <- MCSlot
    NewStages = {"lead", "active"}
    None = None
    Sessions = {s1}
    MaxTrail = 4
    MaxMarks = 2
PROPERTIES
    MarksAreFlips
    ImplementsRules
