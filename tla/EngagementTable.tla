---------------------------- MODULE EngagementTable ----------------------------
(***************************************************************************)
(* The rows that hang on one client: its own stage, its services, their    *)
(* milestones and its tickets.  Of each row only the column is kept that a *)
(* rule looks at: stage, state, whether completed_at is set, status.       *)
(***************************************************************************)
EXTENDS Naturals

CONSTANTS Client,      \* the client
          Services,    \* service ids
          Milestones,  \* milestone ids
          Tickets,     \* ticket ids
          Slot,        \* service_id and n of each milestone
          NewStages,   \* the stages that clients are created with
          None         \* no row, no value

ASSUME IdsAssumption == /\ Client \notin Services \cup Milestones \cup Tickets
                        /\ Services \cap Milestones = {}
                        /\ (Services \cup Milestones) \cap Tickets = {}
ASSUME SlotAssumption == Slot \in [Milestones -> Services \X Nat]

Tracked == {Client} \cup Services      \* each change of these is logged with its old value
Flagged == Milestones \cup Tickets     \* these are logged when they become Final
Rows    == Tracked \cup Flagged

ClientStageMachine == [lead                |-> {"discovery_scheduled", "lost"},
                       discovery_scheduled |-> {"discovery_done", "lost"},
                       discovery_done      |-> {"proposal_sent", "lost"},
                       proposal_sent       |-> {"active", "lost"},
                       active              |-> {"lost"},
                       lost                |-> {}]

\* Mutant: a state that ck_service_state does not know.
ServiceStateMachineHalted == [scoping     |-> {"running", "halted"},
                              running     |-> {"review", "paused"},
                              review      |-> {"completed", "paused"},
                              completed   |-> {"maintenance"},
                              maintenance |-> {},
                              paused      |-> {"scoping", "running", "review"}]

ServiceStateMachine == [scoping     |-> {"running", "paused"},
                        running     |-> {"review", "paused"},
                        review      |-> {"completed", "paused"},
                        completed   |-> {"maintenance"},
                        maintenance |-> {},
                        paused      |-> {"scoping", "running", "review"}]

Stages   == {"lead", "discovery_scheduled", "discovery_done", "proposal_sent", "active", "lost"}
States   == {"scoping", "running", "review", "completed", "maintenance", "paused"}
Progress == {"open", "done"}
TicketStatus == {"pending", "in_progress", "closed"}
Final    == {"done", "closed"}

ASSUME NewStagesAssumption == NewStages \subseteq Stages

Values(i) == IF i = Client THEN Stages
             ELSE IF i \in Services THEN States
             ELSE IF i \in Milestones THEN Progress ELSE TicketStatus

AllValues == Stages \cup States \cup Progress \cup TicketStatus
ASSUME NoneAssumption == /\ None \notin AllValues \cup {"deleted"} \cup Rows
                         /\ None \notin (AllValues \cup {None}) \X (AllValues \cup {None})

\* What a new row may hold.
First(i) == IF i = Client THEN NewStages
            ELSE IF i \in Services THEN {"scoping"}
            ELSE IF i \in Milestones THEN {"open"} ELSE {"pending"}

\* What a request may set, on a row that it loaded with value v: completed_at is set, set
\* anew or cleared, and any status follows any other.
Allowed(i, v) == IF i = Client THEN ClientStageMachine[v]
                 ELSE IF i \in Services THEN ServiceStateMachine[v]
                 ELSE IF i \in Milestones THEN IF v = "open" THEN {"done"} ELSE Progress
                 ELSE TicketStatus

Live(t, i) == t[i] \notin {None, "deleted"}
SlotTaken(t, m) == \E k \in Milestones : Live(t, k) /\ Slot[k] = Slot[m]
\* The check a request makes on other rows before it inserts row i.
MayInsert(t, i) == /\ i \in Services => Live(t, Client) /\ t[Client] # "lost"
                   /\ i \in Milestones => Live(t, Slot[i][1])
                   /\ i \in Tickets => Live(t, Client)
=============================================================================
