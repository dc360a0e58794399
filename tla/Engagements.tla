------------------------------ MODULE Engagements ------------------------------
(***************************************************************************)
(* Clients, services, milestones and tickets under concurrent requests,    *)
(* with the activity log they write: client_service.py, service_service.py,*)
(* milestone_service.py, ticket_service.py and activity_log_service.py.    *)
(* As in Leads a session is a request with its own READ COMMITTED          *)
(* transaction: it loads a row, decides on what it loaded, writes and locks*)
(* the row, appends to the log, and commits both.                          *)
(***************************************************************************)
EXTENDS EngagementTable, FiniteSets

CONSTANTS Sessions,
          MaxTrail,    \* bound: logged changes of client and services
          MaxMarks     \* bound: logged completions of one row

VARIABLES row,     \* the committed value of each row
          born,    \* history: the value that each client and service was created with
          trail,   \* activity log: the old and new values logged for a client or service
          marks,   \* activity log: how many milestone_completed or ticket_closed a row has
          pc,      \* the next statement of each session
          loc      \* its request, its lock and its uncommitted log entry

vars == <<row, born, trail, marks, pc, loc>>

Rules == INSTANCE EngagementRules

\* The row, the value it was loaded with, the value to set (None: another column) and whether
\* the log entry names that; the row locked by a write, and the log entry.
NoRequest == [id |-> None, was |-> None, to |-> None, named |-> FALSE, lock |-> None,
              entry |-> None]

RowFree(s)  == \A u \in Sessions \ {s} : loc[u].lock # loc[s].id
SlotFree(s) == \A u \in Sessions \ {s} : loc[u].lock \in Milestones
                                            => Slot[loc[u].lock] # Slot[loc[s].id]

Room(i) == /\ i \in Tracked => Cardinality(UNION {trail[j] \X {j} : j \in Tracked}) < MaxTrail
           /\ i \in Flagged => marks[i] < MaxMarks

Goto(s, step) == pc' = [pc EXCEPT ![s] = step]

Start(s, step, i, was, to, named) ==
    /\ pc[s] = "idle"
    /\ Goto(s, step)
    /\ loc' = [loc EXCEPT ![s] = [id |-> i, was |-> was, to |-> to, named |-> named,
                                  lock |-> None, entry |-> None]]
    /\ UNCHANGED <<row, born, trail, marks>>

End(s) == Goto(s, "idle") /\ loc' = [loc EXCEPT ![s] = NoRequest]

\* get_async_session, on any exception before COMMIT
Rollback(s) == End(s) /\ UNCHANGED <<row, born, trail, marks>>

-----------------------------------------------------------------------------
(* The load and the checks that each endpoint makes on it.                 *)

LoadNew(s, i, named) == \E v \in First(i) : /\ row[i] = None
                                            /\ \A u \in Sessions : loc[u].id # i
                                            /\ MayInsert(row, i)
                                            /\ Room(i)
                                            /\ Start(s, "insert", i, None, v, named)

\* "Client created at stage: ..." names the stage.  "Lead ... converted to client" does not,
\* whatever stage the body asked for; nor does "Service ... started" name a state.
create_client(s)        == LoadNew(s, Client, TRUE)
convert_from_lead(s)    == LoadNew(s, Client, FALSE)
create_service(s)       == \E i \in Services : LoadNew(s, i, FALSE)
create_under_service(s) == \E i \in Milestones : LoadNew(s, i, FALSE)
create_ticket(s)        == \E i \in Tickets : LoadNew(s, i, FALSE)

\* Mutant: no state machine.
SetAnyValue(s, i) == /\ Live(row, i)
                     /\ Room(i)
                     /\ \E v \in Values(i) : Start(s, "write", i, row[i], v, TRUE)

\* An attribute that is set to the value it has is not flushed (a new completed_at is).
SetValue(s, i) ==
    /\ Live(row, i)
    /\ Room(i)
    /\ \E v \in Allowed(i, row[i]) :
          Start(s, IF i \in Tickets /\ v = row[i] THEN "commit" ELSE "write", i, row[i], v, TRUE)

\* Titles, prices, owners, due dates ...
EditRow(s, i) == Live(row, i) /\ Start(s, "write", i, row[i], None, TRUE)

change_stage(s)     == SetValue(s, Client)
update_client(s)    == EditRow(s, Client)
change_state(s)     == \E i \in Services : SetValue(s, i)
update_service(s)   == \E i \in Services : EditRow(s, i)
update_milestone(s) == \E i \in Milestones : SetValue(s, i) \/ EditRow(s, i)
update_ticket(s)    == \E i \in Tickets : EditRow(s, i)
update_ticket_internal(s) == \E i \in Tickets : SetValue(s, i)

delete_milestone(s) == \E m \in Milestones :
                          Live(row, m) /\ Start(s, "remove", m, row[m], "deleted", TRUE)

-----------------------------------------------------------------------------
\* The new value as a log entry has it.
Said(r) == IF r.named THEN r.to ELSE None

\* Mutants of the log entry: the old value is read after the assignment; completed_at is
\* looked at only after it; a completion is logged though it was complete before.
EntryAfterAssignment(r) ==
    IF \/ r.id \in Tracked /\ r.to # None
       \/ r.id \in Flagged /\ r.to \in Final /\ r.was # r.to
    THEN <<IF r.was = None THEN None ELSE r.to, Said(r)>> ELSE None
EntryWasCompleted(r) == IF r.id \in Tracked /\ r.to # None THEN <<r.was, Said(r)>> ELSE None
EntryEachTime(r) ==
    IF r.to # None /\ (r.id \in Tracked \/ r.to \in Final) THEN <<r.was, Said(r)>> ELSE None

\* The entry of a request: "Stage: old -> new", "Service ... state: old -> new", the creation
\* of a client or service, milestone_completed, ticket_closed.  Other kinds are not modelled.
Entry(r) ==
    IF \/ r.id \in Tracked /\ r.to # None
       \/ r.id \in Flagged /\ r.to \in Final /\ r.was # r.to
    THEN <<r.was, Said(r)>> ELSE None

AfterWrite(s) == IF Entry(loc[s]) = None THEN "commit" ELSE "log"

TakeLock(s, step) == /\ loc' = [loc EXCEPT ![s].lock = loc[s].id]
                     /\ Goto(s, step)
                     /\ UNCHANGED <<row, born, trail, marks>>

\* Mutant: (service_id, n) is not unique.
InsertAnySlot(s) == pc[s] = "insert" /\ TakeLock(s, AfterWrite(s))

\* A second milestone n of a service breaks uq_milestone_service_n; an INSERT of the same key
\* by an open transaction is waited for.
InsertRow(s) == /\ pc[s] = "insert"
                /\ IF loc[s].id \notin Milestones THEN TakeLock(s, AfterWrite(s))
                   ELSE /\ SlotFree(s)
                        /\ IF SlotTaken(row, loc[s].id) THEN Rollback(s)
                                                        ELSE TakeLock(s, AfterWrite(s))

\* Mutant: a row that is gone is written as if it were there.
WriteMissing(s) == pc[s] = "write" /\ RowFree(s) /\ TakeLock(s, AfterWrite(s))

\* The flush waits for the row's lock; an UPDATE that finds no row is a StaleDataError.
WriteRow(s) == /\ pc[s] = "write"
               /\ RowFree(s)
               /\ IF Live(row, loc[s].id) THEN TakeLock(s, AfterWrite(s)) ELSE Rollback(s)

\* A DELETE that finds no row only warns.
RemoveRow(s) == /\ pc[s] = "remove"
                /\ RowFree(s)
                /\ IF Live(row, loc[s].id) THEN TakeLock(s, "commit")
                   ELSE Goto(s, "commit") /\ UNCHANGED <<row, born, trail, marks, loc>>

append_activity(s) == /\ pc[s] = "log"
                      /\ loc' = [loc EXCEPT ![s].entry = Entry(loc[s])]
                      /\ Goto(s, "commit")
                      /\ UNCHANGED <<row, born, trail, marks>>

\* await session.commit() in the route: the written column and the log entry together.
Commit(s) ==
    LET r == loc[s]
    IN  /\ pc[s] = "commit"
        /\ row' = IF r.lock = None \/ r.to = None THEN row ELSE [row EXCEPT ![r.id] = r.to]
        /\ born' = IF r.lock \in Tracked /\ r.was = None THEN [born EXCEPT ![r.id] = r.to]
                                                       ELSE born
        /\ trail' = IF r.entry # None /\ r.id \in Tracked
                    THEN [trail EXCEPT ![r.id] = @ \cup {r.entry}] ELSE trail
        /\ marks' = IF r.entry # None /\ r.id \in Flagged
                    THEN [marks EXCEPT ![r.id] = @ + 1] ELSE marks
        /\ End(s)

\* The connection is lost, or a value of the body breaks a constraint.
Abort(s) == pc[s] # "idle" /\ Rollback(s)

-----------------------------------------------------------------------------
Init == /\ row = [i \in Rows |-> None]
        /\ born = [i \in Tracked |-> None]
        /\ trail = [i \in Tracked |-> {}]
        /\ marks = [i \in Flagged |-> 0]
        /\ pc = [s \in Sessions |-> "idle"]
        /\ loc = [s \in Sessions |-> NoRequest]

Begin(s) == \/ create_client(s) \/ convert_from_lead(s) \/ change_stage(s) \/ update_client(s)
            \/ create_service(s) \/ change_state(s) \/ update_service(s)
            \/ create_under_service(s) \/ update_milestone(s) \/ delete_milestone(s)
            \/ create_ticket(s) \/ update_ticket(s) \/ update_ticket_internal(s)

Proceed(s) == \/ InsertRow(s) \/ WriteRow(s) \/ RemoveRow(s) \/ append_activity(s)
              \/ Commit(s)

Next == \E s \in Sessions : Begin(s) \/ Proceed(s) \/ Abort(s)

Spec == Init /\ [][Next]_vars

-----------------------------------------------------------------------------
Steps == {"idle", "insert", "write", "remove", "log", "commit"}

Entries == (AllValues \cup {None}) \X (AllValues \cup {None})

Requests == [id : Rows \cup {None}, was : AllValues \cup {None},
             to : AllValues \cup {None, "deleted"}, named : BOOLEAN, lock : Rows \cup {None},
             entry : Entries \cup {None}]

TypeOK == /\ row \in [Rows -> AllValues \cup {None, "deleted"}]
          /\ \A i \in Rows : row[i] \in Values(i) \cup {None}
                                \cup (IF i \in Milestones THEN {"deleted"} ELSE {})
          /\ born \in [Tracked -> AllValues \cup {None}]
          /\ trail \in [Tracked -> SUBSET Entries]
          /\ marks \in [Flagged -> Nat]
          /\ pc \in [Sessions -> Steps]
          /\ loc \in [Sessions -> Requests]

\* Following the changes of i that are in log from value u, one gets to v.
Explains(log, i, u, v) == \A S \in SUBSET Values(i) :
                             u \in S /\ (\A e \in log : e[1] \in S => e[2] \in S) => v \in S

\* The activity log explains every stage and state: from the value that a client or service
\* was created with, the logged changes always contain a way to its current one, even when
\* overlapping requests overwrote each other.  Its creation is logged too: with that first
\* value, or, of a service and of a client made from a lead, without naming any.
TrailExplains == \A i \in Tracked : row[i] # None =>
                    /\ {<<None, born[i]>>, <<None, None>>} \cap trail[i] # {}
                    /\ Explains(trail[i], i, born[i], row[i])

\* No milestone is complete, and no ticket closed, without an entry that says so: also when
\* a request that saw it complete sets completed_at again after another cleared it.
DoneIsLogged == \A i \in Flagged : row[i] \in Final => marks[i] > 0

\* uq_milestone_service_n: a service never has two milestones with one number.
SlotUnique == \A m, k \in Milestones :
                 Live(row, m) /\ Live(row, k) /\ Slot[m] = Slot[k] => m = k

\* No late edit or completion brings back a milestone that was deleted.
DeletedStaysDeleted == [][\A m \in Milestones : row[m] = "deleted" => row'[m] = "deleted"]_vars

\* One request at a time, a completion is logged when and only when the row becomes final:
\* "Writes 'milestone_completed' activity log only when completed_at flips".
MarksAreFlips == [][\A i \in Flagged : marks'[i] # marks[i]
                       <=> row'[i] \in Final /\ row[i] # row'[i]]_vars

\* One request at a time, the endpoints do what EngagementRules says: stages and states move
\* along their machines, and a lost client gets no service.
ImplementsRules == Rules!Spec
=============================================================================
