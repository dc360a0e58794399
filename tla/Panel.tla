---------------------------------- MODULE Panel ----------------------------------
(***************************************************************************)
(* The parts of the admin panel, each with the API behind it, as one       *)
(* specification: a behaviour is a behaviour of the part it starts with.   *)
(* The parts keep no state in common: a page's state is its own and is     *)
(* dropped with it, and the one map all requests pass through, inflight    *)
(* of lib/api.ts, has an entry for each address, which belongs to one part.*)
(***************************************************************************)
EXTENDS Board, Session, Chat, ListPages, DetailPages, LoadPages,
        ConvertForm

CONSTANT Running \* the parts that are run

VARIABLE part

panelVars == <<part, boardVars, sessionVars, chatVars, listVars, detailVars, loadVars,
               convertVars>>

ASSUME PanelAssumption == Running \subseteq {"board", "session", "chat", "list", "detail", "load", "convert"}

\* The parts that stand still are the same in every initial state.
Still == /\ part = "list"   \/ listPage = CHOOSE p \in ListPage : TRUE
         /\ part = "detail" \/ kind = CHOOSE k \in Kinds0 : TRUE
         /\ part = "load"   \/ at = CHOOSE s \in Screens : TRUE

PanelInit == /\ part \in Running
             /\ BoardInit /\ SessionInit /\ ChatInit /\ ListInit /\ DetailInit /\ LoadInit
             /\ ConvertInit
             /\ Still

PanelNext ==
    /\ UNCHANGED part
    /\ IF part = "board"   THEN BoardNext   ELSE UNCHANGED boardVars
    /\ IF part = "session" THEN SessionNext ELSE UNCHANGED sessionVars
    /\ IF part = "chat"    THEN ChatNext    ELSE UNCHANGED chatVars
    /\ IF part = "list"    THEN ListNext    ELSE UNCHANGED listVars
    /\ IF part = "detail"  THEN DetailNext  ELSE UNCHANGED detailVars
    /\ IF part = "load"    THEN LoadNext    ELSE UNCHANGED loadVars
    /\ IF part = "convert" THEN ConvertNext ELSE UNCHANGED convertVars

\* The fairness of the part that runs; the others have nothing to do.
PanelFairness ==
    /\ WF_sessionVars(part = "session" /\ Gate)
    /\ WF_sessionVars(part = "session" /\ Proceed("me"))
    /\ WF_chatVars(part = "chat" /\ Poll)
    /\ \A s \in 0..MaxMessage : /\ SF_chatVars(part = "chat" /\ AnswerGet(s))
                                /\ WF_chatVars(part = "chat" /\ Handle(s))
    /\ \A s \in Sources : WF_loadVars(part = "load" /\ Response(s))

PanelSpec == PanelInit /\ [][PanelNext]_panelVars /\ PanelFairness

-----------------------------------------------------------------------------
\* Every part keeps its state well formed.
PanelTypeOK == BoardTypeOK /\ SessionTypeOK /\ ChatTypeOK /\ ListTypeOK /\ DetailTypeOK /\ LoadTypeOK
               /\ ConvertTypeOK

\* What the parts that run come to in the end: a tab at rest (lib/api.ts:143-146), a message on
\* the screen (client/chat/page.tsx:59-69), a page that has stopped loading
\* (dashboard/page.tsx:131-182, client/page.tsx:88-108).
TabRests      == part = "session" => ComesToRest
ChatCatchesUp == part = "chat" => CatchesUp
PageLoads     == part = "load" => LoadingEnds
=============================================================================
