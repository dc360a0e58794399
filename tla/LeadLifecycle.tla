----------------------------- MODULE LeadLifecycle -----------------------------
(***************************************************************************)
(* What the lead endpoints promise: every request takes effect at once.    *)
(* A conversion makes the client with all its parts and links the lead to  *)
(* it in one step.  Leads refines this when requests run one at a time.    *)
(***************************************************************************)
EXTENDS LeadTable

VARIABLES lead,    \* the row of each lead, None before it is submitted
          client   \* the rows of each client made from a lead

vars == <<lead, client>>

Init == /\ lead = [l \in Leads |-> None]
        /\ client = [c \in ClientIds |-> None]

Submit(l) == /\ lead[l] = None
             /\ lead' = [lead EXCEPT ![l] = NewLead]
             /\ UNCHANGED client

PatchStatus(u, l, to) == /\ lead[l] # None
                         /\ Visible(u, lead[l])
                         /\ to \in valid_transitions[lead[l].status]
                         /\ lead' = [lead EXCEPT ![l].status = to]
                         /\ UNCHANGED client

Assign(l, owner) == /\ lead[l] # None
                    /\ \E u \in Users : Role[u] = "admin"
                    /\ lead' = [lead EXCEPT ![l].owner = owner]
                    /\ UNCHANGED client

Convert(l, c, parts) ==
    /\ lead[l] # None
    /\ \E u \in Users : MayConvert(u)
    /\ Convertible(lead[l])
    /\ client[c] = None
    /\ Needed \subseteq parts
    /\ client' = [client EXCEPT ![c] = [lead |-> l, parts |-> parts]]
    /\ lead' = [lead EXCEPT ![l].status = "converted", ![l].client = c]

Next == \E l \in Leads :
            \/ Submit(l)
            \/ \E u \in Users, to \in Statuses : PatchStatus(u, l, to)
            \/ \E owner \in Users : Assign(l, owner)
            \/ \E c \in ClientIds, parts \in SUBSET Parts : Convert(l, c, parts)

Spec == Init /\ [][Next]_vars
=============================================================================
