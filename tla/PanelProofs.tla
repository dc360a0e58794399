------------------------------- MODULE PanelProofs -------------------------------
(***************************************************************************)
(* What is proved of a part alone holds of the panel: every behaviour of   *)
(* the panel is one of each part, which moves as the part does or not at   *)
(* all.                                                                    *)
(***************************************************************************)
EXTENDS Panel, BoardProofs, PageProofs, SessionProofs, ChatProofs

LEMMA PartSteps ==
    ASSUME [PanelNext]_panelVars
    PROVE  /\ [BoardNext]_boardVars /\ [ListNext]_listVars
           /\ [LoadNext]_loadVars /\ [ConvertNext]_convertVars
           /\ [SessionNext]_sessionVars /\ [ChatNext]_chatVars
           /\ [DetailNext]_detailVars
<1>1. CASE PanelNext BY <1>1 DEF PanelNext
<1>2. CASE UNCHANGED panelVars BY <1>2 DEF panelVars
<1> QED BY <1>1, <1>2

LEMMA PartInits ==
    PanelInit => /\ BoardInit /\ ListInit /\ LoadInit /\ ConvertInit
                 /\ SessionInit /\ ChatInit /\ DetailInit
BY DEF PanelInit

LEMMA PanelBoard == PanelSpec => BoardSpec
BY PartInits, PartSteps, PTL DEF PanelSpec, BoardSpec

LEMMA PanelList == PanelSpec => ListSpec
BY PartInits, PartSteps, PTL DEF PanelSpec, ListSpec

LEMMA PanelConvert == PanelSpec => ConvertSpec
BY PartInits, PartSteps, PTL DEF PanelSpec, ConvertSpec

LEMMA PanelDetail == PanelSpec => DetailSpec
BY PartInits, PartSteps, PTL DEF PanelSpec, DetailSpec

\* The invariants of the parts whose specifications state fairness need none of it.
LEMMA PanelLoad == PanelSpec => [](LoadInv /\ LoadTypeOK)
<1>1. LoadInv /\ [LoadNext]_loadVars => LoadInv' BY StepLoad
<1>2. LoadInv /\ LoadTypeOK /\ [LoadNext]_loadVars => LoadTypeOK' BY StepLoadType
<1> QED BY <1>1, <1>2, PartInits, PartSteps, InitLoad, InitLoadType, PTL DEF PanelSpec

LEMMA PanelSession == PanelSpec => []SessionInv
<1>1. SessionInv /\ [SessionNext]_sessionVars => SessionInv' BY StepSession
<1> QED BY <1>1, PartInits, PartSteps, InitSession, PTL DEF PanelSpec

LEMMA PanelChat == PanelSpec => []ChatInv
<1>1. ChatInv /\ [ChatNext]_chatVars => ChatInv' BY StepChat
<1> QED BY <1>1, PartInits, PartSteps, InitChat, PTL DEF PanelSpec

\* Whichever part of the panel runs and whatever interleaves in it, the state of every part is
\* well formed.
THEOREM PanelTypeCorrect == PanelSpec => []PanelTypeOK
<1>1. SessionInv => SessionTypeOK BY DEF SessionInv
<1>2. ChatInv => ChatTypeOK BY DEF ChatInv
<1>3. ASSUME BoardTypeOK, SessionInv, ChatInv, ListTypeOK, DetailTypeOK, LoadTypeOK, ConvertTypeOK
      PROVE  PanelTypeOK
  BY <1>1, <1>2, <1>3 DEF PanelTypeOK
<1> QED BY <1>3, PanelBoard, PanelSession, PanelChat, PanelList, PanelDetail, PanelLoad,
           PanelConvert, BoardTypeCorrect, ListTypeCorrect, DetailTypeCorrect,
           ConvertTypeCorrect, PTL

\* Whichever part of the panel runs and however it interleaves: the board settles where the
\* database has it after moves one at a time, and after overlapping ones that all succeed
\* (components/kanban/use-stage-transition.ts).
THEOREM BoardSettlesInPanel == PanelSpec => [](LoneMovesSettle /\ SuccessesSettle)
BY PanelBoard, LoneMovesSettled, SuccessesSettled, PTL

\* The dialogs of the panel send once what they show (new-lead-dialog.tsx, convert-lead-dialog.tsx).
THEOREM DialogsAreSafeInPanel == PanelSpec => [](OneSubmission /\ SentAsShown)
BY PanelList, PanelConvert, OnePressOneRequest, SentIsShown, PTL

\* The pages of the panel that only load never pass half of their data for all of it
\* (dashboard/page.tsx, client/page.tsx).
THEOREM LoadsAreWholeInPanel == PanelSpec => [](DashboardHonest /\ PortalAllOrNothing)
BY PanelLoad, InvHonest, InvAllOrNothing, PTL

\* The tab of the panel shows the account its requests run under, with no assumption of fairness
\* (contexts/auth-context.tsx, lib/api.ts).
THEOREM ScreenMatchesSessionInPanel == PanelSpec => []SessionMatches
BY PanelSession, InvMatches, PTL

\* Once every answer is in, a list page of the panel shows the rows its filter asks for and every
\* row it has said is created, after a fetch on its own (leads/page.tsx, clients/page.tsx,
\* client/support/page.tsx).
THEOREM ListsAnswerInPanel == PanelSpec => []FilterAnswered
BY PanelList, RowsAnswerTheFilter, PTL

\* A detail page of the panel at rest shows the row as the table has it, and a move its map offers
\* is refused only where the two maps differ, until requests overlap or an answer is lost
\* (leads/[id]/page.tsx, services/[id]/page.tsx, clients/[id]/page.tsx).
THEOREM DetailPagesAgreeInPanel == PanelSpec => [](DetailAgrees /\ RefusalsExplained)
BY PanelDetail, PageAgreesWithRow, RefusalsAreExplained, PTL

\* The chat of the panel shows every message up to its cursor, once, in order, until they are
\* out of order in the table or overtaken (client/chat/page.tsx).
THEOREM ThreadIsExactInPanel == PanelSpec => []ThreadExact
BY PanelChat, InvThread, PTL
=============================================================================
