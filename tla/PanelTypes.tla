------------------------------ MODULE PanelTypes ------------------------------
(***************************************************************************)
(* What the pages of the admin panel share: the unions and the transition  *)
(* maps of admin-panel/src/lib/types.ts, and the backend's own machines,   *)
(* which those maps are said to mirror.                                    *)
(***************************************************************************)

CONSTANTS None,      \* null, undefined: no value, no request
          Sent,      \* a request in flight that the API has not answered
          Failed     \* the answer of a request that was refused or lost

ASSUME MarksAssumption == None # Sent /\ None # Failed /\ Sent # Failed

UserRole == {"admin", "consultor", "comercial", "client_user"}

LeadStatus == {"new", "contacted", "qualified", "disqualified", "converted"}
VALID_TRANSITIONS == [new          |-> {"contacted", "disqualified"},
                      contacted    |-> {"qualified", "disqualified"},
                      qualified    |-> {"converted", "disqualified"},
                      disqualified |-> {},
                      converted    |-> {}]

ClientStage == {"lead", "discovery_scheduled", "discovery_done", "proposal_sent", "active", "lost"}
VALID_CLIENT_STAGE_TRANSITIONS ==
    [lead                |-> {"discovery_scheduled", "lost"},
     discovery_scheduled |-> {"discovery_done", "lost"},
     discovery_done      |-> {"proposal_sent", "lost"},
     proposal_sent       |-> {"active", "lost"},
     active              |-> {"lost"},
     lost                |-> {}]

ServiceState == {"scoping", "running", "review", "completed", "maintenance", "paused"}
VALID_SERVICE_STATE_TRANSITIONS ==
    [scoping     |-> {"running", "paused"},
     running     |-> {"review", "paused"},
     review      |-> {"running", "completed", "paused"},
     completed   |-> {"maintenance"},
     maintenance |-> {"paused"},
     paused      |-> {"scoping", "running", "review"}]

\* The machines of the backend; they depend on none of the constants of their modules.
Engagement == INSTANCE EngagementTable
                  WITH Client <- "client", Services <- {}, Milestones <- {}, Tickets <- {},
                       Slot <- <<>>, NewStages <- {}, None <- "none"
Lead == INSTANCE LeadTable
            WITH Leads <- {}, ClientIds <- {}, Users <- {}, Role <- <<>>, None <- "none"
=============================================================================
