--------------------------------- MODULE Leads ---------------------------------
(***************************************************************************)
(* Leads under concurrent HTTP requests: api/services/lead_service.py, the *)
(* conversion of api/services/client_service.py and api/routes/leads.py.   *)
(* Each session is a request with its own transaction (READ COMMITTED): it *)
(* loads the lead, decides on what it loaded, and writes later; a write    *)
(* locks the lead's row until the route commits.  Reads take no lock.      *)
(***************************************************************************)
EXTENDS LeadTable, Naturals, FiniteSets

CONSTANT Sessions    \* requests that may run at the same time

ASSUME SessionsAssumption == IsFiniteSet(Sessions)

VARIABLES lead,    \* the committed rows of table leads
          client,  \* the committed rows that conversions inserted
          pc,      \* the next statement of each session
          loc      \* its request and its uncommitted rows

vars == <<lead, client, pc, loc>>

Lifecycle == INSTANCE LeadLifecycle

\* The caller and the lead; what is to be written: a column's value, the new client and its
\* parts; and the version of the lead's row that is written but not committed.
NoRequest == [kind |-> "none", user |-> None, lead |-> None, to |-> None, client |-> None,
              parts |-> {}, write |-> None]

RowFree(s) == \A u \in Sessions \ {s} : loc[u].lead = loc[s].lead => loc[u].write = None

Goto(s, step) == pc' = [pc EXCEPT ![s] = step]

Start(s, step, request) == /\ pc[s] = "idle"
                           /\ Goto(s, step)
                           /\ loc' = [loc EXCEPT ![s] = request]
                           /\ UNCHANGED <<lead, client>>

\* Mutant: the session goes back to the pool with its transaction open.
EndKeepsLock(s) == Goto(s, "idle") /\ UNCHANGED loc

End(s) == Goto(s, "idle") /\ loc' = [loc EXCEPT ![s] = NoRequest]

\* Mutant: the new client is committed on its own, before the rest of the conversion.
RollbackKeepsClient(s) ==
    /\ End(s)
    /\ client' = IF loc[s].parts = {} THEN client
                 ELSE [client EXCEPT ![loc[s].client] = [lead  |-> loc[s].lead,
                                                         parts |-> loc[s].parts]]
    /\ UNCHANGED lead

\* get_async_session, on any exception before COMMIT
Rollback(s) == End(s) /\ UNCHANGED <<lead, client>>

-----------------------------------------------------------------------------
(* Submit, edit, status and assign: one statement after the load.          *)

BeginSubmit(s) ==
    \E l \in Leads :
        /\ lead[l] = None
        /\ \A u \in Sessions : loc[u].lead # l
        /\ Start(s, "commit", [NoRequest EXCEPT !.kind = "submit", !.lead = l,
                                                !.write = NewLead])

\* PATCH /leads/{id}: name, phone, company, notes, role.  None of them is modelled.
BeginEdit(s) ==
    \E u \in Users, l \in Leads :
        /\ lead[l] # None
        /\ Visible(u, lead[l])
        /\ Start(s, "save", [NoRequest EXCEPT !.kind = "edit", !.user = u, !.lead = l])

\* Mutant: no state machine for status changes.
BeginAnyStatus(s) ==
    \E u \in Users, l \in Leads, to \in Statuses :
        /\ lead[l] # None
        /\ Visible(u, lead[l])
        /\ lead[l].status # to
        /\ Start(s, "save", [NoRequest EXCEPT !.kind = "status", !.user = u, !.lead = l,
                                              !.to = to])

BeginStatus(s) ==
    \E u \in Users, l \in Leads, to \in Statuses :
        /\ lead[l] # None
        /\ Visible(u, lead[l])
        /\ to \in valid_transitions[lead[l].status]
        /\ Start(s, "save", [NoRequest EXCEPT !.kind = "status", !.user = u, !.lead = l,
                                              !.to = to])

\* Assigning the owner a lead already has changes no attribute, so nothing is flushed.
BeginAssign(s) ==
    \E u \in Users, l \in Leads, owner \in Users :
        /\ Role[u] = "admin"
        /\ lead[l] # None
        /\ lead[l].owner # owner
        /\ Start(s, "save", [NoRequest EXCEPT !.kind = "assign", !.user = u, !.lead = l,
                                              !.to = owner])

-----------------------------------------------------------------------------
(* convert_from_lead: client, contact, profile if the body has one, activity *)
(* entry, and last the lead's own row.                                       *)

\* Mutant: only the status is looked at, as if a linked lead were always "converted".
BeginConvertByStatus(s) ==
    \E u \in Users, l \in Leads, c \in ClientIds :
        /\ MayConvert(u)
        /\ lead[l] # None
        /\ lead[l].status = "qualified"
        /\ client[c] = None
        /\ \A v \in Sessions : loc[v].client # c
        /\ Start(s, "client", [NoRequest EXCEPT !.kind = "convert", !.user = u, !.lead = l,
                                                !.client = c])

BeginConvert(s) ==
    \E u \in Users, l \in Leads, c \in ClientIds :
        /\ MayConvert(u)
        /\ lead[l] # None
        /\ Convertible(lead[l])
        /\ client[c] = None
        /\ \A v \in Sessions : loc[v].client # c
        /\ Start(s, "client", [NoRequest EXCEPT !.kind = "convert", !.user = u, !.lead = l,
                                                !.client = c])

Insert(s, from, part, to) == /\ pc[s] = from
                             /\ Goto(s, to)
                             /\ loc' = [loc EXCEPT ![s].parts = @ \cup {part}]
                             /\ UNCHANGED <<lead, client>>

\* Mutant: no activity entry.
InsertContactLast(s) == Insert(s, "contact", "contact", "save")

InsertClient(s)  == Insert(s, "client", "client", "contact")
InsertContact(s) == \E to \in {"profile", "activity"} : Insert(s, "contact", "contact", to)
InsertProfile(s) == Insert(s, "profile", "profile", "activity")
append_activity(s) == Insert(s, "activity", "activity", "save")

-----------------------------------------------------------------------------
\* Mutants: a status change writes the link back as it knew it; it writes the owner back under
\* whom the caller saw the lead; the owner goes into status.
ChangedWhole(s, row) ==
    CASE loc[s].kind = "status"  -> [row EXCEPT !.status = loc[s].to, !.client = None]
      [] loc[s].kind = "assign"  -> [row EXCEPT !.owner = loc[s].to]
      [] loc[s].kind = "convert" -> [row EXCEPT !.status = "converted", !.client = loc[s].client]
      [] OTHER -> row

ChangedOwner(s, row) ==
    CASE loc[s].kind = "status"  -> [row EXCEPT !.status = loc[s].to, !.owner =
                                        IF Role[loc[s].user] = "admin" THEN @ ELSE loc[s].user]
      [] loc[s].kind = "assign"  -> [row EXCEPT !.owner = loc[s].to]
      [] loc[s].kind = "convert" -> [row EXCEPT !.status = "converted", !.client = loc[s].client]
      [] OTHER -> row

ChangedStatus(s, row) ==
    IF loc[s].kind \in {"status", "assign"} THEN [row EXCEPT !.status = loc[s].to]
    ELSE IF loc[s].kind = "convert"
         THEN [row EXCEPT !.status = "converted", !.client = loc[s].client] ELSE row

\* A flush writes only the attributes that the request changed.
Changed(s, row) ==
    CASE loc[s].kind = "status"  -> [row EXCEPT !.status = loc[s].to]
      [] loc[s].kind = "assign"  -> [row EXCEPT !.owner = loc[s].to]
      [] loc[s].kind = "convert" -> [row EXCEPT !.status = "converted", !.client = loc[s].client]
      [] OTHER -> row

SaveLead(s) == /\ pc[s] = "save"
               /\ RowFree(s)
               /\ Goto(s, "commit")
               /\ loc' = [loc EXCEPT ![s].write = Changed(s, lead[loc[s].lead])]
               /\ UNCHANGED <<lead, client>>

\* Mutant: the lead is committed without the rows inserted before.
CommitLeadOnly(s) == /\ pc[s] = "commit"
                     /\ lead' = [lead EXCEPT ![loc[s].lead] = loc[s].write]
                     /\ UNCHANGED client
                     /\ End(s)

Commit(s) ==
    /\ pc[s] = "commit"
    /\ lead' = [lead EXCEPT ![loc[s].lead] = loc[s].write]
    /\ client' = IF loc[s].client = None THEN client
                 ELSE [client EXCEPT ![loc[s].client] = [lead  |-> loc[s].lead,
                                                         parts |-> loc[s].parts]]
    /\ End(s)

\* The connection is lost, or an INSERT breaks a constraint on a value of the body.
Abort(s) == pc[s] # "idle" /\ Rollback(s)

-----------------------------------------------------------------------------
Init == /\ lead = [l \in Leads |-> None]
        /\ client = [c \in ClientIds |-> None]
        /\ pc = [s \in Sessions |-> "idle"]
        /\ loc = [s \in Sessions |-> NoRequest]

Begin(s) == BeginSubmit(s) \/ BeginEdit(s) \/ BeginStatus(s) \/ BeginAssign(s) \/ BeginConvert(s)

Proceed(s) == \/ InsertClient(s) \/ InsertContact(s) \/ InsertProfile(s) \/ append_activity(s)
              \/ SaveLead(s) \/ Commit(s)

Next == \E s \in Sessions : Begin(s) \/ Proceed(s) \/ Abort(s)

Spec == Init /\ [][Next]_vars

\* Row locks are granted in the order of the waits.
FairSpec == Spec /\ \A s \in Sessions : SF_vars(Proceed(s))

-----------------------------------------------------------------------------
Requests == [kind : {"none", "submit", "edit", "status", "assign", "convert"},
             user : Users \cup {None}, lead : Leads \cup {None},
             to : Statuses \cup Users \cup {None}, client : ClientIds \cup {None},
             parts : SUBSET Parts, write : LeadRow \cup {None}]

TypeOK ==
    /\ lead \in [Leads -> LeadRow \cup {None}]
    /\ client \in [ClientIds -> ClientRow \cup {None}]
    /\ pc \in [Sessions -> {"idle", "client", "contact", "profile", "activity", "save", "commit"}]
    /\ loc \in [Sessions -> Requests]

ClientsOf(l) == {c \in ClientIds : client[c] # None /\ client[c].lead = l}

\* A conversion that fails at any statement leaves nothing behind: a client made from a lead
\* always has its contact and its activity entry.
ClientsComplete == \A c \in ClientIds : client[c] # None => Needed \subseteq client[c].parts

\* A lead is linked to a client that was made from it, and not from another lead.
LinkToOwnClient == \A l \in Leads : lead[l] # None /\ lead[l].client # None
                                       => lead[l].client \in ClientsOf(l)

\* No status change, edit or assignment that loaded the lead before its conversion takes
\* the link away when it is written after.
LinkKept == [][\A l \in Leads : lead[l] # None /\ lead[l].client # None
                  => lead'[l] # None /\ lead'[l].client # None]_vars

\* A request that loaded the lead before another one committed takes nothing of that back: the
\* late edit, status change or conversion of a former owner leaves the lead with its new owner,
\* and a late assignment leaves it with its new status.  The late write itself goes through,
\* since the owner and the role are looked at only at the load.
LateWritesMerge ==
    [][\A l \in Leads : lead[l] # None /\ lead'[l] # lead[l] =>
          \E s \in Sessions :
             /\ pc[s] = "commit" /\ loc[s].lead = l
             /\ lead'[l].owner # lead[l].owner
                   => loc[s].kind = "assign" /\ loc[s].to = lead'[l].owner
             /\ lead'[l].status # lead[l].status => loc[s].kind \in {"status", "convert"}]_vars

\* A conversion that starts after a link never succeeds, so duplicate clients of a lead come
\* only from conversions that overlap.
DuplicatesOverlap == \A l \in Leads : Cardinality(ClientsOf(l)) <= Cardinality(Sessions)

\* Every request ends.
RequestsFinish == \A s \in Sessions : pc[s] # "idle" ~> pc[s] = "idle"

\* convert_lead: "409 if lead already converted (returns existing client_id)"
OneClientPerLead == \A l \in Leads : Cardinality(ClientsOf(l)) <= 1

\* One request at a time, clients and links match exactly: no client without its lead, and
\* a linked lead is "converted" for good.
LinkExact == \A l \in Leads : lead[l] # None =>
                /\ ClientsOf(l) = {lead[l].client} \ {None}
                /\ lead[l].client # None => lead[l].status = "converted"

\* One request at a time, the endpoints do what LeadLifecycle says.
ImplementsLifecycle == Lifecycle!Spec
=============================================================================
