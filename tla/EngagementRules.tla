---------------------------- MODULE EngagementRules ----------------------------
(***************************************************************************)
(* What the client, service, milestone and ticket endpoints promise: every *)
(* request takes effect at once, on what the table then holds.             *)
(* Engagements refines this when requests run one at a time.               *)
(***************************************************************************)
EXTENDS EngagementTable

VARIABLE row    \* the value of each row

Init == row = [i \in Rows |-> None]

Create(i, v) == /\ row[i] = None
                /\ v \in First(i)
                /\ MayInsert(row, i)
                /\ i \in Milestones => ~SlotTaken(row, i)
                /\ row' = [row EXCEPT ![i] = v]

Change(i, v) == /\ Live(row, i)
                /\ v \in Allowed(i, row[i])
                /\ row' = [row EXCEPT ![i] = v]

Delete(m) == /\ m \in Milestones
             /\ Live(row, m)
             /\ row' = [row EXCEPT ![m] = "deleted"]

Next == \E i \in Rows : (\E v \in AllValues : Create(i, v) \/ Change(i, v)) \/ Delete(i)

Spec == Init /\ [][Next]_row
=============================================================================
