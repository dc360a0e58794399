------------------------------- MODULE LeadTable -------------------------------
(***************************************************************************)
(* The tables leads and clients as lead handling sees them, and the rules  *)
(* of api/domain/status_machine.py and of the roles that every             *)
(* specification of leads shares.                                          *)
(***************************************************************************)

CONSTANTS Leads,       \* lead ids
          ClientIds,   \* ids for clients made from leads
          Users,       \* users of the admin panel
          Role,        \* the role of each user
          None         \* NULL, or no row

Staff == {"admin", "consultor", "comercial"}
ASSUME RoleAssumption == Role \in [Users -> Staff]

Statuses == {"new", "contacted", "qualified", "converted", "disqualified"}

valid_transitions == [new          |-> {"contacted", "disqualified"},
                      contacted    |-> {"qualified", "disqualified"},
                      qualified    |-> {"converted", "disqualified"},
                      disqualified |-> {},
                      converted    |-> {}]

LeadRow == [status : Statuses, owner : Users \cup {None}, client : ClientIds \cup {None}]
NewLead == [status |-> "new", owner |-> None, client |-> None]

\* The rows that one conversion inserts; the contact copies the name of its lead.
Parts     == {"client", "contact", "profile", "activity"}
ClientRow == [lead : Leads, parts : SUBSET Parts]
Needed    == {"client", "contact", "activity"}

ASSUME NoneAssumption == None \notin ClientIds /\ None \notin LeadRow /\ None \notin ClientRow

\* get_for_user: consultor and comercial see only the leads they own.
Visible(u, row) == Role[u] \in {"consultor", "comercial"} => row.owner = u

MayConvert(u) == Role[u] \in {"admin", "comercial"}
Convertible(row) == row.client = None /\ row.status = "qualified"
=============================================================================
