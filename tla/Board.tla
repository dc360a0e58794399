--------------------------------- MODULE Board ---------------------------------
(***************************************************************************)
(* The pipeline page and its kanban board: pipeline/page.tsx and           *)
(* components/kanban/.  A drop moves the card at once and sends a PATCH;   *)
(* every PATCH in flight shares one place to keep what to go back to.      *)
(* The board copies the page's rows when it is mounted and not after.      *)
(***************************************************************************)
EXTENDS PanelTypes

CONSTANTS Cards,    \* the clients the page lists
          Start,    \* the stage each has at first
          Columns,  \* the columns cards are dropped on
          Moves     \* as many PATCHes as may be in flight at a time

VARIABLES stage,    \* the stage of each client in the database
          phase,    \* the page is "loading", shows an "error", or is "ready"
          view,     \* "kanban" or "list"
          load,     \* the page's GET: None, Sent, or its answer
          rows,     \* the page's clients, None before the first answer
          shown,    \* the board's clients, None while it is not mounted
          revert,   \* revertRef.current: the snapshot to go back to, or None
          moves,    \* the PATCHes in flight
          events    \* history: what has happened since the page last loaded

boardVars == <<stage, phase, view, load, rows, shown, revert, moves, events>>

PIPELINE_STAGES == ClientStage \ {"lost"}
Stagings == [Cards -> ClientStage]
Events   == {"moved", "overlap", "refused", "void"}
Move     == [card : Cards, to : Columns, answer : {Sent, "ok", Failed}, live : BOOLEAN]
ASSUME BoardAssumption == /\ Start \in Stagings
                          /\ Columns \subseteq PIPELINE_STAGES
                          /\ {None, Sent, Failed} \cap Stagings = {}
                          /\ None \notin Move
                          /\ None # Sent /\ None # Failed /\ Sent # Failed /\ "ok" \notin {Sent, Failed}

BoardInit == /\ stage = Start
             /\ phase = "loading" /\ view = "kanban"
             /\ load = Sent /\ rows = None
             /\ shown = None /\ revert = None
             /\ moves = [m \in Moves |-> None]
             /\ events = {}

\* The board goes away: what is in flight is still answered, to nobody.
Unmount == /\ shown' = None
           /\ revert' = None
           /\ moves' = [m \in Moves |-> IF moves[m] = None THEN None
                                        ELSE [moves[m] EXCEPT !.live = FALSE]]

\* What no property speaks of makes what else happened of no account.
Note(e) == events' = IF e = "void" \/ events = {"void"} THEN {"void"} ELSE events \cup {e}

Fetch == phase' = "loading" /\ load' = Sent

\* What the page puts on the screen, and the clients of the board and of the list: lost ones
\* are on neither.
Screen    == CASE phase = "loading" -> "skeleton"
               [] phase = "error"   -> "error"
               [] OTHER             -> view
Listed(s) == {c \in Cards : s[c] # "lost"}
Column(s) == {c \in Listed(shown) : shown[c] = s}

-----------------------------------------------------------------------------
(* The page: fetchClients, the filters, the view toggle.                   *)

\* The API answers the GET with what the table holds, or the request fails.
AnswerLoad == /\ load = Sent
              /\ load' \in {stage, Failed}
              /\ events' = IF \E m \in Moves : moves[m] # None /\ moves[m].answer = Sent
                           THEN {"void"} ELSE {}
              /\ UNCHANGED <<stage, phase, view, rows, shown, revert, moves>>

LoadDone == /\ load \in Stagings
            /\ load' = None /\ phase' = "ready" /\ rows' = load
            /\ shown' = IF view = "kanban" THEN load ELSE None
            /\ UNCHANGED <<stage, view, revert, moves, events>>

LoadFailed == /\ load = Failed
              /\ load' = None /\ phase' = "error"
              /\ UNCHANGED <<stage, view, rows, shown, revert, moves, events>>

Retry == Screen = "error" /\ Fetch /\ UNCHANGED <<stage, view, rows, shown, revert, moves, events>>

\* setOwnerId, setSector: the skeleton replaces the board until the rows are there.
SetFilter == Screen \in {"kanban", "list"} /\ Fetch /\ Unmount /\ UNCHANGED <<stage, view, rows, events>>

ShowList == /\ Screen = "kanban"
            /\ view' = "list"
            /\ Unmount
            /\ UNCHANGED <<stage, phase, load, rows, events>>

\* The board starts again from the page's rows, which know of no move.
ShowKanban == /\ Screen = "list"
              /\ view' = "kanban"
              /\ shown' = rows
              /\ IF events # {} THEN Note("void") ELSE UNCHANGED events
              /\ UNCHANGED <<stage, phase, load, rows, revert, moves>>

\* A click on a card, or on a row of the list, opens the client; the page is new on the way back.
OpenClient(c) == /\ \/ Screen = "kanban" /\ c \in Listed(shown)
                    \/ Screen = "list" /\ c \in Listed(rows)
                 /\ Fetch /\ Unmount
                 /\ view' = "kanban" /\ rows' = None
                 /\ UNCHANGED <<stage, events>>

-----------------------------------------------------------------------------
(* The board: handleDragEnd and useStageTransition.                        *)

Live(m) == moves[m] # None /\ moves[m].live

Drop(c, to, m) ==
    /\ Screen = "kanban"
    /\ \E s \in PIPELINE_STAGES \ {to} : c \in Column(s)
    /\ moves[m] = None
    /\ shown' = [shown EXCEPT ![c] = to]
    /\ revert' = shown
    /\ moves' = [moves EXCEPT ![m] = [card |-> c, to |-> to, answer |-> Sent, live |-> TRUE]]
    /\ Note(IF \E k \in Moves : Live(k) /\ moves[k].card = c THEN "void"
            ELSE IF \E k \in Moves : Live(k) THEN "overlap" ELSE "moved")
    /\ UNCHANGED <<stage, phase, view, load, rows>>

Unanswered(m) == moves[m] # None /\ moves[m].answer = Sent
Answer(m, a)  == moves' = [moves EXCEPT ![m].answer = a]

\* PATCH /api/clients/{id}/stage is applied, and its answer comes or is lost on the way.
Apply(m) == /\ Unanswered(m)
            /\ moves[m].to \in Engagement!ClientStageMachine[stage[moves[m].card]]
            /\ stage' = [stage EXCEPT ![moves[m].card] = moves[m].to]
            /\ \/ Answer(m, "ok") /\ UNCHANGED events
               \/ Answer(m, Failed) /\ Note("void")
            /\ UNCHANGED <<phase, view, load, rows, shown, revert>>

\* 409, or an error before anything was written.
Refuse(m) == /\ Unanswered(m)
             /\ Answer(m, Failed)
             /\ Note("refused")
             /\ UNCHANGED <<stage, phase, view, load, rows, shown, revert>>

\* Mutant: the card is left where it was dropped.
MoveFailedKeepsCard(m) == /\ moves[m] # None /\ moves[m].answer = Failed
                          /\ moves' = [moves EXCEPT ![m] = None]
                          /\ revert' = IF moves[m].live THEN None ELSE revert
                          /\ UNCHANGED <<stage, phase, view, load, rows, shown, events>>

MoveFailed(m) == /\ moves[m] # None /\ moves[m].answer = Failed
                 /\ moves' = [moves EXCEPT ![m] = None]
                 /\ shown' = IF moves[m].live /\ revert # None THEN revert ELSE shown
                 /\ revert' = IF moves[m].live THEN None ELSE revert
                 /\ UNCHANGED <<stage, phase, view, load, rows, events>>

\* Mutant: the board goes back to the snapshot whatever the answer.
MoveDoneReverts(m) == /\ moves[m] # None /\ moves[m].answer = "ok"
                      /\ moves' = [moves EXCEPT ![m] = None]
                      /\ shown' = IF moves[m].live /\ revert # None THEN revert ELSE shown
                      /\ revert' = IF moves[m].live THEN None ELSE revert
                      /\ UNCHANGED <<stage, phase, view, load, rows, events>>

MoveDone(m) == /\ moves[m] # None /\ moves[m].answer = "ok"
               /\ moves' = [moves EXCEPT ![m] = None]
               /\ revert' = IF moves[m].live THEN None ELSE revert
               /\ UNCHANGED <<stage, phase, view, load, rows, shown, events>>

BoardSystem == \/ AnswerLoad \/ LoadDone \/ LoadFailed
               \/ \E m \in Moves : Apply(m) \/ Refuse(m) \/ MoveFailed(m) \/ MoveDone(m)
BoardUser   == \/ Retry \/ SetFilter \/ ShowList \/ ShowKanban
               \/ \E c \in Cards : OpenClient(c)
               \/ \E c \in Cards, to \in Columns, m \in Moves : Drop(c, to, m)
BoardNext == BoardSystem \/ BoardUser

BoardSpec == BoardInit /\ [][BoardNext]_boardVars

-----------------------------------------------------------------------------
BoardTypeOK == /\ stage \in Stagings
               /\ phase \in {"loading", "error", "ready"} /\ view \in {"kanban", "list"}
               /\ load \in Stagings \cup {None, Sent, Failed}
               /\ rows \in Stagings \cup {None}
               /\ shown \in Stagings \cup {None}
               /\ revert \in Stagings \cup {None}
               /\ moves \in [Moves -> Move \cup {None}]
               /\ events \subseteq Events

Settled == shown # None /\ \A m \in Moves : ~Live(m)

\* Moves made one at a time leave the board as the database has it, whether they succeed or
\* are refused (components/kanban/use-stage-transition.ts:23-57): nothing is said once two
\* moves overlapped, an answer was lost, or the board was mounted again from old rows.
LoneMovesSettle == Settled /\ events \subseteq {"moved", "refused"} => shown = stage

\* Moves of different cards that all succeed leave the board as the database has it, however
\* many overlap and in whatever order they are applied and answered. (Two moves of one card may
\* be applied in the other order: the board then shows one stage and the database has another.)
SuccessesSettle == Settled /\ events \subseteq {"moved", "overlap"} => shown = stage

\* "reverts on any error" (components/kanban/use-stage-transition.ts:11-13): when every move
\* has its answer, the board is as the database has it, though some were refused.
RevertsOnError == Settled /\ events \subseteq {"moved", "overlap", "refused"} => shown = stage
=============================================================================
