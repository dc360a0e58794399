------------------------------- MODULE LoadPages -------------------------------
(***************************************************************************)
(* The pages that only load: the dashboard, which waits for all of its     *)
(* requests whatever becomes of them, and the pages of the client portal,  *)
(* which give up at the first failure. The user may leave while a page     *)
(* loads: a GET in flight is shared with the next page that asks for the   *)
(* same, and what the page left behind goes on asking.                     *)
(***************************************************************************)
EXTENDS PanelTypes, Integers

CONSTANT Screens   \* the pages that are visited

VARIABLES at,        \* the page
          loadingAt, \* isLoading
          waits,     \* for each source the page asked: Sent, what it answered, or None
          wire,      \* the sources with a GET in flight
          errors,    \* the dashboard: clientsError, activityError
          data,      \* the sources whose answers the page has taken into its state
          behind     \* a diagnostic page that was left still waits for the services

loadVars == <<at, loadingAt, waits, wire, errors, data, behind>>

\* What each page asks for at once: fetchAll and fetchData. The diagnostic asks for one service
\* after the list; the team's list of users is a stub without users, and without requests.
DashboardAsks  == {"clients", "services", "activity"}
HomeAsks       == {"my client", "my services", "my activity"}
ProjectsAsks   == {"my services"}
DiagnosticAsks == {"my services"}
ServiceAsks    == {"my service", "my activity"}
TeamAsks       == {}
Asks == [dashboard |-> DashboardAsks, home |-> HomeAsks, projects |-> ProjectsAsks,
         diagnostic |-> DiagnosticAsks, service |-> ServiceAsks, team |-> TeamAsks]
Sources == UNION {Asks[p] : p \in DOMAIN Asks}
ASSUME LoadAssumption == /\ Screens \subseteq DOMAIN Asks
                         /\ None # Sent /\ None # Failed /\ Sent # Failed
                         /\ {None, Sent, Failed} \cap {"some", "none"} = {}

\* A page that opens.
Open(p) == /\ at' = p
           /\ loadingAt' = (Asks[p] # {})
           /\ waits' = [s \in Sources |-> IF s \in Asks[p] THEN Sent ELSE None]
           /\ errors' = {} /\ data' = {}

LoadInit == /\ at \in Screens
            /\ loadingAt = (Asks[at] # {})
            /\ waits = [s \in Sources |-> IF s \in Asks[at] THEN Sent ELSE None]
            /\ wire = Asks[at]
            /\ errors = {} /\ data = {} /\ behind = FALSE

Leave(p) == /\ p \in Screens \ {at}
            /\ Open(p)
            /\ wire' = wire \cup Asks[p]
            /\ behind' = (behind \/ (at = "diagnostic" /\ waits["my services"] = Sent))

-----------------------------------------------------------------------------
(* What an answer does to the page that is open.                           *)
Asked(ws)    == {s \in Sources : ws[s] # None}
Settles(ws)  == \A s \in Sources : ws[s] # Sent
Failures(ws) == {s \in Sources : ws[s] = Failed}
Fulfilled(ws) == Asked(ws) \ Failures(ws)

\* Mutant: without services the figures count as complete.
DashboardTakesPartial(ws) ==
    IF Settles(ws)
    THEN /\ loadingAt' = FALSE
         /\ data' = Fulfilled(ws)
         /\ errors' = Failures(ws) \cap {"clients", "activity"}
    ELSE UNCHANGED <<loadingAt, data, errors>>

\* Promise.allSettled, then one source after the other.
DashboardTakes(ws) ==
    IF Settles(ws)
    THEN /\ loadingAt' = FALSE
         /\ data' = Fulfilled(ws)
         /\ errors' = (IF Failures(ws) \cap {"clients", "services"} # {} THEN {"clients"} ELSE {})
                      \cup (Failures(ws) \cap {"activity"})
    ELSE UNCHANGED <<loadingAt, data, errors>>

\* Mutant: the page takes each answer as it comes.
PortalTakesEach(ws) ==
    /\ loadingAt' = (loadingAt /\ Failures(ws) = {} /\ ~Settles(ws))
    /\ data' = IF loadingAt THEN Fulfilled(ws) \ {s \in Sources : ws[s] = Sent} ELSE data
    /\ UNCHANGED errors

\* Mutant: the loading flag is cleared at the end of the try block.
PortalTakesNoFinally(ws) ==
    IF loadingAt /\ Settles(ws) /\ Failures(ws) = {}
    THEN loadingAt' = FALSE /\ data' = Asked(ws) /\ UNCHANGED errors
    ELSE UNCHANGED <<loadingAt, data, errors>>

\* Promise.all: the first failure ends it, and later answers go nowhere.
PortalTakes(ws) ==
    IF loadingAt /\ (Failures(ws) # {} \/ Settles(ws))
    THEN /\ loadingAt' = FALSE
         /\ data' = IF Failures(ws) = {} THEN Asked(ws) ELSE {}
         /\ UNCHANGED errors
    ELSE UNCHANGED <<loadingAt, data, errors>>

Respond(s, a) ==
    /\ s \in wire
    /\ LET ws    == [waits EXCEPT ![s] = IF @ = Sent THEN a ELSE @]
           goesOn == a = "some" /\ s = "my services"
           more  == goesOn /\ at = "diagnostic" /\ waits[s] = Sent
       IN  /\ waits' = IF more THEN [ws EXCEPT !["my service"] = Sent] ELSE ws
           /\ wire'  = (wire \ {s}) \cup (IF goesOn /\ (more \/ behind) THEN {"my service"} ELSE {})
           /\ behind' = (behind /\ s # "my services")
           /\ IF at = "dashboard" THEN DashboardTakes(waits') ELSE PortalTakes(waits')
    /\ UNCHANGED at

Response(s) == \E a \in {"some", "none", Failed} : Respond(s, a)

LoadNext == (\E p \in Screens : Leave(p)) \/ (\E s \in Sources : Response(s))

\* Every request is answered or fails.
LoadFairness == \A s \in Sources : WF_loadVars(Response(s))
LoadSpec == LoadInit /\ [][LoadNext]_loadVars /\ LoadFairness

-----------------------------------------------------------------------------
(* What the pages show.                                                    *)

\* The figures and the funnel of the dashboard, and its feed of activity.
Figures == CASE loadingAt -> "skeleton"
             [] ~loadingAt /\ "clients" \in errors -> "degraded"
             [] OTHER -> "figures"
Feed    == CASE loadingAt -> "skeleton"
             [] ~loadingAt /\ "activity" \in errors -> "error"
             [] OTHER -> IF "activity" \in data /\ waits["activity"] = "some" THEN "rows" ELSE "empty"

\* The pages of the portal have no place for an error: each shows what it has.
Has(s)           == s \in data /\ waits[s] = "some"
HomeScreen       == IF loadingAt THEN {"spinner"} ELSE {s \in HomeAsks : Has(s)}
ProjectsScreen   == IF loadingAt THEN {"spinner"} ELSE {s \in ProjectsAsks : Has(s)}
DiagnosticScreen == IF loadingAt THEN {"spinner"}
                    ELSE IF Has("my service") THEN {"my service"} ELSE {"no diagnostic"}
ServiceScreen    == IF loadingAt THEN {"spinner"}
                    ELSE IF "my service" \in data THEN {s \in ServiceAsks : Has(s)} ELSE {}
TeamScreen       == {"nobody"}
PortalScreen     == CASE at = "home" -> HomeScreen [] at = "projects" -> ProjectsScreen
                      [] at = "diagnostic" -> DiagnosticScreen [] at = "service" -> ServiceScreen
                      [] OTHER -> TeamScreen

LoadTypeOK == /\ at \in Screens /\ loadingAt \in BOOLEAN
              /\ waits \in [Sources -> {None, Sent, Failed, "some", "none"}]
              /\ wire \subseteq Sources /\ errors \subseteq {"clients", "activity"}
              /\ data \subseteq Sources /\ behind \in BOOLEAN

\* The dashboard shows figures only when both lists they are computed from have arrived, and an
\* empty feed only when the API said that there is no activity (dashboard/page.tsx:131-182,
\* 188-335): whatever else failed, and whichever page had asked for the same before.
DashboardHonest == at = "dashboard" =>
    /\ Figures = "figures" => {waits["clients"], waits["services"]} \subseteq {"some", "none"}
    /\ Feed = "empty" => waits["activity"] = "none"

\* A page of the portal shows all of what it asked for or none of it: never the services of one
\* answer beside nothing for another that failed (client/page.tsx:88-108).
PortalAllOrNothing == at # "dashboard" /\ PortalScreen \cap Sources # {} =>
    \A s \in Sources : waits[s] # None => waits[s] \in {"some", "none"} /\ s \in data

\* Loading ends, unless the user leaves again and again (dashboard/page.tsx:131-182, client/page.tsx:88-108,
\* client/diagnostic/page.tsx:53-79).
LoadingEnds == []<><<\E p \in Screens : Leave(p)>>_loadVars \/ []<>~loadingAt
=============================================================================
