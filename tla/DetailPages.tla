------------------------------ MODULE DetailPages ------------------------------
(***************************************************************************)
(* The pages of one lead, one service and one client. The row has a main   *)
(* status, moved by a PATCH under a machine of the backend, and parts that *)
(* other requests complete: the role of a lead, a milestone of a service,  *)
(* the children of a client. A lead's page takes whole rows from the       *)
(* answers; the others merge what they changed, or fetch the row again,    *)
(* and while they fetch, a skeleton unmounts their dialogs.                *)
(***************************************************************************)
EXTENDS PanelTypes, Integers, FiniteSets

CONSTANTS Kinds0,     \* the pages that are opened
          FirstMain,  \* the main status of the row of each at first
          Attempts,   \* the user asks for as many moves
          MaxPatch,   \* as many of them are in flight at a time
          MaxParts    \* as many parts are completed

VARIABLES kind,       \* the page: "lead", "service" or "client"
          row,        \* the row in the database
          copy,       \* the page's copy, None before the first answer
          skeleton,   \* isLoading
          get,        \* the GET in flight: None, Sent, or its answer
          patches,    \* the PATCHes of the main status in flight
          edits,      \* the request in flight for each part
          dialog,     \* the transition dialog: open, target, allowed (serverAllowed)
          asked,      \* the moves asked for so far
          upset       \* history: since the last fetch on its own, requests overlapped or were lost

detailVars == <<kind, row, copy, skeleton, get, patches, edits, dialog, asked, upset>>

\* What each page completes; of a service, "added" is a milestone that a dialog adds.
PartsOf  == [lead |-> {"role"}, service |-> {"done", "added"}, client |-> {"contact", "service", "profile"}]
Part     == UNION {PartsOf[k] : k \in DOMAIN PartsOf}
\* Part "added", and every part of a client, is followed by a fetch.
Refetched(p) == kind = "client" \/ p = "added"

\* Mutant: the map of the stages lets a proposal be skipped.
PanelMachineDrifted == CASE kind = "lead" -> VALID_TRANSITIONS
                  [] kind = "service" -> VALID_SERVICE_STATE_TRANSITIONS
                  [] kind = "client" ->
                       [VALID_CLIENT_STAGE_TRANSITIONS EXCEPT !["discovery_done"] = @ \cup {"active"}]

\* The machine the page offers moves from, and the one the backend holds them to.
PanelMachine == CASE kind = "lead" -> VALID_TRANSITIONS
           [] kind = "service" -> VALID_SERVICE_STATE_TRANSITIONS
           [] kind = "client" -> VALID_CLIENT_STAGE_TRANSITIONS
BackendMachine  == CASE kind = "lead" -> Lead!valid_transitions
           [] kind = "service" -> Engagement!ServiceStateMachine
           [] kind = "client" -> Engagement!ClientStageMachine
MainOf  == [lead |-> LeadStatus, service |-> ServiceState, client |-> ClientStage]
States  == LeadStatus \cup ServiceState \cup ClientStage
Row     == [main : States, parts : SUBSET Part]
Patches == 1..MaxPatch
Patch   == [from : States, to : States, live : BOOLEAN, answer : {Sent, Failed, "moved", "refused"},
            updated : Row \cup {None}, allowed : SUBSET States]
Closed  == [open |-> FALSE, target |-> None, allowed |-> None]
ASSUME DetailAssumption == /\ Kinds0 \subseteq DOMAIN PartsOf
                           /\ \A k \in Kinds0 : FirstMain[k] \in MainOf[k]
                           /\ Attempts \in Nat /\ MaxPatch \in Nat /\ MaxParts \in Nat
                           /\ {None, Sent, Failed} \cap Row = {} /\ None \notin Patch
                           /\ {Sent, Failed} \cap {"moved", "refused"} = {}

DetailInit == /\ kind \in Kinds0
              /\ row = [main |-> FirstMain[kind], parts |-> {}]
              /\ copy = None /\ skeleton = TRUE /\ get = Sent
              /\ patches = [m \in Patches |-> None]
              /\ edits = [p \in Part |-> None]
              /\ dialog = Closed
              /\ asked = 0 /\ upset = FALSE

\* Of a row in an answer, what the page takes: a lead's all, the others what they asked about.
Taken(r, ps) == IF kind = "lead" THEN r ELSE [main |-> IF ps = {} THEN r.main ELSE FirstMain[kind],
                                              parts |-> r.parts \cap ps]

\* isTransitioning, or the isSaving of the dialog that is mounted.
Saving   == \E m \in Patches : patches[m] # None /\ patches[m].live
AnyPatch == \E m \in Patches : patches[m] # None
AnyEdit  == \E p \in Part : edits[p] # None
Shown    == ~skeleton /\ copy # None

\* What the pages show: that they load, that there is nothing, or what the copy holds.
Facts(r)            == {r.main} \cup r.parts
Page(loads, absent) == IF skeleton THEN loads ELSE IF copy = None THEN absent ELSE Facts(copy)
LeadPage            == Page({"spinner"}, {"not found"})
ServicePage         == Page({"skeleton"}, {})
ClientPage          == Page({"skeleton"}, {})
DetailScreen        == CASE kind = "lead" -> LeadPage [] kind = "service" -> ServicePage
                         [] kind = "client" -> ClientPage

-----------------------------------------------------------------------------
(* Fetching: fetchLead, fetchService, fetchClient.                         *)

\* The skeleton replaces the page; a lead's page has no dialog to lose.
FetchRow == /\ skeleton' = TRUE
            /\ get' = IF get = None THEN Sent ELSE get
            /\ dialog' = Closed

Orphaned(ps) == IF kind = "lead" THEN ps
                ELSE [m \in Patches |-> IF ps[m] = None THEN None ELSE [ps[m] EXCEPT !.live = FALSE]]

AnswerRow == /\ get = Sent
             /\ get' \in {row, Failed}
             /\ UNCHANGED <<kind, row, copy, skeleton, patches, edits, dialog, asked, upset>>

TakeRow == /\ get \in Row
           /\ copy' = get /\ get' = None /\ skeleton' = FALSE
           /\ UNCHANGED <<kind, row, patches, edits, dialog, asked, upset>>

\* The old copy stays; without one the page shows that there is nothing.
TakeNoRow == /\ get = Failed
             /\ get' = None /\ skeleton' = FALSE
             /\ upset' = TRUE
             /\ UNCHANGED <<kind, row, copy, patches, edits, dialog, asked>>

-----------------------------------------------------------------------------
(* Moving the main status: handleTransition and the transition dialogs.    *)

\* The options on the screen: a lead's are buttons of the page, the others a dialog's.
LeadOffers   == PanelMachine[copy.main]
DialogOffers == IF dialog.allowed # None THEN dialog.allowed ELSE PanelMachine[copy.main]

OpenMove == /\ kind # "lead" /\ Shown /\ ~dialog.open
            /\ dialog' = [dialog EXCEPT !.open = TRUE]
            /\ UNCHANGED <<kind, row, copy, skeleton, get, patches, edits, asked, upset>>

Choose(to) == /\ dialog.open /\ to \in DialogOffers
              /\ dialog' = [dialog EXCEPT !.target = to]
              /\ UNCHANGED <<kind, row, copy, skeleton, get, patches, edits, asked, upset>>

\* Escape resets what was chosen and what the server allowed; Cancel does not.
EscapeMove == /\ dialog.open
              /\ dialog' = Closed
              /\ UNCHANGED <<kind, row, copy, skeleton, get, patches, edits, asked, upset>>
CancelMove == /\ dialog.open /\ ~Saving
              /\ dialog' = [dialog EXCEPT !.open = FALSE]
              /\ UNCHANGED <<kind, row, copy, skeleton, get, patches, edits, asked, upset>>

\* A lead's button, or the dialog's confirmation of what is chosen, on the screen or not.
Ask(m, to) == /\ asked < Attempts /\ asked' = asked + 1
              /\ Shown /\ ~Saving /\ patches[m] = None
              /\ IF kind = "lead" THEN to \in LeadOffers ELSE dialog.open /\ to = dialog.target
              /\ patches' = [patches EXCEPT ![m] = [from |-> copy.main, to |-> to, live |-> TRUE,
                                                    answer |-> Sent, updated |-> None, allowed |-> {}]]
              /\ upset' = (upset \/ AnyPatch \/ (kind = "lead" /\ AnyEdit))
              /\ UNCHANGED <<kind, row, copy, skeleton, get, edits, dialog>>

\* The PATCH is applied, refused with what is allowed, or fails; its answer may be lost.
ServeMove(m) ==
    /\ patches[m] # None /\ patches[m].answer = Sent
    /\ LET to == patches[m].to IN
       \/ /\ to \in BackendMachine[row.main]
          /\ row' = [row EXCEPT !.main = to]
          /\ \/ patches' = [patches EXCEPT ![m].answer = "moved", ![m].updated = Taken(row', {})] /\ UNCHANGED upset
             \/ patches' = [patches EXCEPT ![m].answer = Failed] /\ upset' = TRUE
       \/ /\ to \notin BackendMachine[row.main]
          /\ patches' = [patches EXCEPT ![m].answer = "refused", ![m].allowed = BackendMachine[row.main]]
          /\ UNCHANGED <<row, upset>>
       \/ patches' = [patches EXCEPT ![m].answer = Failed] /\ UNCHANGED <<row, upset>>
    /\ UNCHANGED <<kind, copy, skeleton, get, edits, dialog, asked>>

Refused(m) == patches[m] # None /\ patches[m].answer = "refused"

\* setLead(updated); handleStateSuccess and handleStageSuccess merge the status.
Moved(m) ==
    /\ patches[m] # None /\ patches[m].answer = "moved"
    /\ patches' = [patches EXCEPT ![m] = None]
    /\ copy' = IF kind = "lead" THEN patches[m].updated
               ELSE IF copy = None THEN None ELSE [copy EXCEPT !.main = patches[m].updated.main]
    /\ dialog' = IF patches[m].live THEN [dialog EXCEPT !.open = FALSE] ELSE dialog
    /\ UNCHANGED <<kind, row, skeleton, get, edits, asked, upset>>

\* A dialog offers what the server allowed from now on. If the target it sent is not in that,
\* it drops the choice, a newer one of the user's as well.
NotMoved(m) ==
    /\ patches[m] # None /\ (patches[m].answer = Failed \/ Refused(m))
    /\ patches' = [patches EXCEPT ![m] = None]
    /\ dialog' = IF kind # "lead" /\ patches[m].live /\ Refused(m)
                 THEN [dialog EXCEPT !.allowed = patches[m].allowed,
                                     !.target = IF patches[m].to \in patches[m].allowed THEN @ ELSE None]
                 ELSE dialog
    /\ UNCHANGED <<kind, row, copy, skeleton, get, edits, asked, upset>>

-----------------------------------------------------------------------------
(* The other requests: saveRole; handleMilestoneToggle and NewMilestone;   *)
(* NewContact, NewService, the billing profiles.                           *)

Edit(p) == /\ p \in PartsOf[kind] /\ Shown /\ p \notin copy.parts
           /\ edits[p] = None
           /\ Cardinality(row.parts \cup {q \in Part : edits[q] # None}) < MaxParts
           /\ edits' = [edits EXCEPT ![p] = Sent]
           /\ upset' = (upset \/ (kind = "lead" /\ AnyPatch))
           /\ UNCHANGED <<kind, row, copy, skeleton, get, patches, dialog, asked>>

SaveRole        == Edit("role")
ToggleMilestone == Edit("done")
AddMilestone    == Edit("added")
AddContact      == Edit("contact")
AddService      == Edit("service")
SaveProfile     == Edit("profile")

ServeEdit(p) == /\ edits[p] = Sent
                /\ \/ /\ row' = [row EXCEPT !.parts = @ \cup {p}]
                      /\ \/ edits' = [edits EXCEPT ![p] = Taken(row', {p})] /\ UNCHANGED upset
                         \/ edits' = [edits EXCEPT ![p] = Failed] /\ upset' = TRUE
                   \/ edits' = [edits EXCEPT ![p] = Failed] /\ UNCHANGED <<row, upset>>
                /\ UNCHANGED <<kind, copy, skeleton, get, patches, dialog, asked>>

\* Mutant: the answer is not merged.
MergedNothing(p) == /\ edits[p] \in Row /\ ~Refetched(p)
                    /\ edits' = [edits EXCEPT ![p] = None]
                    /\ UNCHANGED <<kind, row, copy, skeleton, get, patches, dialog, asked, upset>>

\* setLead(updated), or the milestone of the answer in place of its old one.
Merged(p) == /\ edits[p] \in Row /\ ~Refetched(p)
             /\ edits' = [edits EXCEPT ![p] = None]
             /\ copy' = IF kind = "lead" THEN edits[p]
                        ELSE IF copy = None THEN None ELSE [copy EXCEPT !.parts = @ \cup {p}]
             /\ UNCHANGED <<kind, row, skeleton, get, patches, dialog, asked, upset>>

\* onSuccess and onMutate fetch the row; one in flight is taken for theirs.
Fetched(p) == /\ edits[p] \in Row /\ Refetched(p)
              /\ edits' = [edits EXCEPT ![p] = None]
              /\ FetchRow
              /\ patches' = Orphaned(patches)
              /\ upset' = (get # None \/ AnyPatch \/ \E q \in Part \ {p} : edits[q] # None)
              /\ UNCHANGED <<kind, row, copy, asked>>

NotEdited(p) == /\ edits[p] = Failed
                /\ edits' = [edits EXCEPT ![p] = None]
                /\ UNCHANGED <<kind, row, copy, skeleton, get, patches, dialog, asked, upset>>

DetailNext == \/ AnswerRow \/ TakeRow \/ TakeNoRow
              \/ OpenMove \/ EscapeMove \/ CancelMove
              \/ \E to \in States : Choose(to) \/ \E m \in Patches : Ask(m, to)
              \/ \E m \in Patches : ServeMove(m) \/ Moved(m) \/ NotMoved(m)
              \/ SaveRole \/ ToggleMilestone \/ AddMilestone \/ AddContact \/ AddService \/ SaveProfile
              \/ \E p \in Part : ServeEdit(p) \/ Merged(p) \/ Fetched(p) \/ NotEdited(p)

DetailSpec == DetailInit /\ [][DetailNext]_detailVars

-----------------------------------------------------------------------------
DetailTypeOK == /\ kind \in Kinds0 /\ row \in Row /\ row.main \in MainOf[kind]
                /\ copy \in Row \cup {None}
                /\ skeleton \in BOOLEAN /\ get \in Row \cup {None, Sent, Failed}
                /\ patches \in [Patches -> Patch \cup {None}]
                /\ edits \in [Part -> Row \cup {None, Sent, Failed}]
                /\ dialog \in [open : BOOLEAN, target : States \cup {None},
                               allowed : {None} \cup SUBSET States]
                /\ asked \in 0..Attempts /\ upset \in BOOLEAN

\* When nothing is in flight the page shows the row (leads/[id]/page.tsx:201-275,
\* services/[id]/page.tsx:34-98, clients/[id]/page.tsx:34-62). Moves and milestones of a service
\* may overlap, because each answer is merged; of a lead they may not, because each replaces the
\* row. Nothing is said after an answer that was lost, a fetch that overlapped another request,
\* or two moves that overlapped, until the next fetch on its own.
DetailAgrees == Shown /\ get = None /\ ~AnyPatch /\ ~AnyEdit /\ ~upset => DetailScreen = Facts(row)

\* The moves of lib/types.ts that the backend does not allow.
Differ == {<<"review", "running">>, <<"maintenance", "paused">>}

\* A move that the page's own map offers is refused only where that map and the backend's
\* differ (lib/types.ts:87-93, 409-425), whatever was asked before; unless requests overlapped
\* or an answer was lost. A dialog that was cancelled or has just succeeded may still hold an
\* older choice, which is not in the map for the status it shows.
RefusalsExplained == \A m \in Patches :
    Refused(m) /\ ~upset /\ patches[m].to \in PanelMachine[patches[m].from]
    => <<patches[m].from, patches[m].to>> \in Differ
=============================================================================
