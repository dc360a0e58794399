------------------------------- MODULE BoardProofs -------------------------------
(***************************************************************************)
(* Theorems about Board, for every set of clients and columns and any      *)
(* number of PATCHes in flight.                                            *)
(***************************************************************************)
EXTENDS Board, TLAPS

MovesOK == moves \in [Moves -> Move \cup {None}]

\* An answer changes nothing of a move but its answer, and no other move.
LEMMA AnswerOnly ==
    ASSUME MovesOK, NEW m \in Moves, moves[m] # None, NEW a \in {Sent, "ok", Failed}, Answer(m, a)
    PROVE  /\ MovesOK'
           /\ moves'[m] \in Move /\ moves'[m] # None
           /\ moves'[m].answer = a /\ moves'[m].card = moves[m].card /\ moves'[m].to = moves[m].to
           /\ moves'[m].live = moves[m].live
           /\ \A k \in Moves : k # m => moves'[k] = moves[k]
<1>1. moves[m] \in Move BY DEF MovesOK
<1>2. moves' = [moves EXCEPT ![m] = [moves[m] EXCEPT !.answer = a]] BY DEF Answer
<1>3. [moves[m] EXCEPT !.answer = a] = [card |-> moves[m].card, to |-> moves[m].to, answer |-> a,
                                        live |-> moves[m].live]
  BY <1>1 DEF Move
<1>4. [moves[m] EXCEPT !.answer = a] \in Move BY <1>1, <1>3 DEF Move
<1>5. moves'[m] = [moves[m] EXCEPT !.answer = a] BY <1>2 DEF MovesOK
<1>6. \A k \in Moves : k # m => moves'[k] = moves[k] BY <1>2 DEF MovesOK
<1>7. MovesOK' BY <1>2, <1>4 DEF MovesOK
<1>8. moves'[m] # None BY <1>4, <1>5, BoardAssumption
<1> QED BY <1>3, <1>4, <1>5, <1>6, <1>7, <1>8

\* A board that goes away leaves its moves as they are, but for nobody.
LEMMA Unmounted ==
    ASSUME MovesOK, Unmount
    PROVE  /\ MovesOK' /\ shown' = None /\ revert' = None
           /\ \A k \in Moves : /\ ~Live(k)'
                               /\ Unanswered(k)' <=> Unanswered(k)
<1> DEFINE Dead(k) == [moves[k] EXCEPT !.live = FALSE]
<1>1. moves' = [k \in Moves |-> IF moves[k] = None THEN None ELSE Dead(k)] BY DEF Unmount
<1>2. ASSUME NEW k \in Moves, moves[k] # None
      PROVE  /\ Dead(k) \in Move /\ Dead(k) # None
             /\ Dead(k).live = FALSE /\ Dead(k).answer = moves[k].answer
  <2>1. moves[k] \in Move BY <1>2 DEF MovesOK
  <2>2. Dead(k).answer = moves[k].answer BY <2>1 DEF Move
  <2>3. Dead(k) \in Move BY <2>1 DEF Move
  <2>4. Dead(k).live = FALSE BY <2>1 DEF Move
  <2>5. \A x \in Move : x # None BY BoardAssumption
  <2>6. Dead(k) # None BY <2>3, <2>5, Zenon
  <2> QED BY <2>3, <2>4, <2>6
<1> HIDE DEF Dead
<1>3. MovesOK' BY <1>1, <1>2 DEF MovesOK
<1>4. \A k \in Moves : ~Live(k)' /\ (Unanswered(k)' <=> Unanswered(k))
  BY <1>1, <1>2 DEF Live, Unanswered
<1> QED BY <1>3, <1>4 DEF Unmount

\* A move that has been handled is gone; the others are as they were.
LEMMA HandledOnly ==
    ASSUME MovesOK, NEW m \in Moves, moves' = [moves EXCEPT ![m] = None]
    PROVE  /\ MovesOK' /\ moves'[m] = None
           /\ \A k \in Moves : k # m => moves'[k] = moves[k]
BY DEF MovesOK

\* A dropped card makes one move, and leaves the others.
Dropped(c, to, m) ==
    /\ moves[m] = None
    /\ moves' = [moves EXCEPT ![m] = [card |-> c, to |-> to, answer |-> Sent, live |-> TRUE]]
LEMMA DropDrops == ASSUME NEW c, NEW to, NEW m, Drop(c, to, m) PROVE Dropped(c, to, m)
BY DEF Drop, Dropped

LEMMA DroppedOnly ==
    ASSUME MovesOK, NEW c \in Cards, NEW to \in Columns, NEW m \in Moves, Dropped(c, to, m)
    PROVE  /\ MovesOK'
           /\ moves'[m] \in Move /\ moves'[m] # None
           /\ moves'[m].answer = Sent /\ moves'[m].card = c /\ moves'[m].to = to
           /\ Live(m)'
           /\ \A k \in Moves : k # m => moves'[k] = moves[k] /\ (Live(k)' <=> Live(k))
<1> DEFINE New == [card |-> c, to |-> to, answer |-> Sent, live |-> TRUE]
<1>1. New \in Move BY DEF Move
<1>2. New.answer = Sent /\ New.card = c /\ New.to = to /\ New.live OBVIOUS
<1>3. New # None BY <1>1, BoardAssumption, Zenon
<1>4. moves' = [moves EXCEPT ![m] = New] BY DEF Dropped
<1> HIDE DEF New
<1>5. MovesOK' /\ moves'[m] = New /\ \A k \in Moves : k # m => moves'[k] = moves[k]
  BY <1>1, <1>4 DEF MovesOK
<1>6. Live(m)' BY <1>2, <1>3, <1>5 DEF Live
<1>7. \A k \in Moves : k # m => (Live(k)' <=> Live(k)) BY <1>5 DEF Live
<1> QED BY <1>1, <1>2, <1>3, <1>5, <1>6, <1>7

-----------------------------------------------------------------------------
(* Type correctness: a board that is on the screen has rows to show, which *)
(* is why a drop finds them.                                               *)

Mounted == phase = "ready" /\ view = "kanban"
Shape == /\ phase = "ready" => rows \in Stagings
         /\ shown \in Stagings <=> Mounted
         /\ load # None => phase = "loading"
         /\ shown = None => \A m \in Moves : ~Live(m)

LEMMA NotedOK == ASSUME events \subseteq Events, NEW e \in Events, Note(e)
                 PROVE  events' \subseteq Events
BY DEF Note, Events

LEMMA Markers == /\ Sent \notin Stagings /\ Failed \notin Stagings /\ None \notin Stagings
                 /\ None # Sent /\ None # Failed /\ Sent # Failed /\ "ok" # Sent /\ "ok" # Failed
BY BoardAssumption

LEMMA StageMoves == ASSUME NEW s \in Stagings, NEW c \in Cards, NEW to \in Columns
                    PROVE  [s EXCEPT ![c] = to] \in Stagings
BY BoardAssumption DEF Stagings, PIPELINE_STAGES

LEMMA InitShape == BoardInit => BoardTypeOK /\ Shape
<1> SUFFICES ASSUME BoardInit PROVE BoardTypeOK /\ Shape OBVIOUS
<1> USE DEF BoardInit
<1>1. BoardTypeOK BY BoardAssumption DEF BoardTypeOK
<1>2. Shape BY Markers DEF Shape, Mounted, Live
<1> QED BY <1>1, <1>2

LEMMA StepShape == ASSUME BoardTypeOK, Shape, [BoardNext]_boardVars PROVE BoardTypeOK' /\ Shape'
<1> USE DEF BoardTypeOK, Shape, Mounted
<1>0. MovesOK BY DEF MovesOK
<1>1. CASE AnswerLoad BY <1>1, Markers DEF AnswerLoad, Events, Live
<1>2. CASE LoadDone BY <1>2, Markers DEF LoadDone, Live
<1>3. CASE LoadFailed BY <1>3, Markers DEF LoadFailed, Live
<1>4. CASE Retry BY <1>4, Markers DEF Retry, Fetch, Live, Screen
<1>5. CASE SetFilter BY <1>5, <1>0, Unmounted, Markers DEF SetFilter, Fetch, MovesOK
<1>6. CASE ShowList BY <1>6, <1>0, Unmounted, Markers DEF ShowList, MovesOK, Screen
<1>7. CASE ShowKanban BY <1>7, NotedOK, Markers DEF ShowKanban, Events, Live, Screen
<1>8. ASSUME NEW c \in Cards, OpenClient(c) PROVE BoardTypeOK' /\ Shape'
  BY <1>8, <1>0, Unmounted, Markers DEF OpenClient, Fetch, MovesOK
<1>9. ASSUME NEW c \in Cards, NEW to \in Columns, NEW m \in Moves, Drop(c, to, m)
      PROVE  BoardTypeOK' /\ Shape'
  <2>1. phase = "ready" /\ view = "kanban" BY <1>9 DEF Drop, Screen
  <2>2. shown \in Stagings BY <2>1
  <2>3. shown' \in Stagings BY <1>9, <2>2, StageMoves DEF Drop
  <2>4. MovesOK' BY <1>9, <1>0, DropDrops, DroppedOnly
  <2>5. events' \subseteq Events BY <1>9, NotedOK DEF Drop, Events
  <2> QED BY <1>9, <2>1, <2>2, <2>3, <2>4, <2>5, Markers DEF Drop, MovesOK
<1>10. ASSUME NEW m \in Moves, Apply(m) PROVE BoardTypeOK' /\ Shape'
  <2>1. moves[m] # None /\ moves[m] \in Move BY <1>10 DEF Apply, Unanswered
  <2>2. stage' \in Stagings BY <1>10, <2>1, StageMoves DEF Apply, Move
  <2>3. MovesOK' /\ \A k \in Moves : Live(k)' <=> Live(k)
    BY <1>10, <2>1, <1>0, AnswerOnly DEF Apply, Live
  <2>4. events' \subseteq Events BY <1>10, NotedOK DEF Apply, Events
  <2> QED BY <1>10, <2>2, <2>3, <2>4 DEF Apply, MovesOK
<1>11. ASSUME NEW m \in Moves, Refuse(m) PROVE BoardTypeOK' /\ Shape'
  <2>1. MovesOK' /\ \A k \in Moves : Live(k)' <=> Live(k)
    BY <1>11, <1>0, AnswerOnly DEF Refuse, Unanswered, Live
  <2>2. events' \subseteq Events BY <1>11, NotedOK DEF Refuse, Events
  <2> QED BY <1>11, <2>1, <2>2 DEF Refuse, MovesOK
<1>12. ASSUME NEW m \in Moves, MoveFailed(m) \/ MoveDone(m) PROVE BoardTypeOK' /\ Shape'
  <2>1. MovesOK' /\ \A k \in Moves : Live(k)' => Live(k)
    BY <1>12, <1>0, HandledOnly DEF MoveFailed, MoveDone, Live
  <2>2. shown' \in Stagings \/ shown' = shown BY <1>12 DEF MoveFailed, MoveDone
  <2>3. moves[m].live /\ moves[m] # None => shown # None BY DEF Live
  <2>4. shown' \in Stagings <=> shown \in Stagings
    BY <1>12, <2>3, Markers DEF MoveFailed, MoveDone
  <2>5. revert' \in Stagings \cup {None} BY <1>12 DEF MoveFailed, MoveDone
  <2> QED BY <1>12, <2>1, <2>2, <2>4, <2>5, Markers DEF MoveFailed, MoveDone, MovesOK
<1>13. CASE UNCHANGED boardVars BY <1>13 DEF boardVars, Live
<1> QED BY <1>1, <1>2, <1>3, <1>4, <1>5, <1>6, <1>7, <1>8, <1>9, <1>10, <1>11, <1>12, <1>13
        DEF BoardNext, BoardSystem, BoardUser

\* The page, the board and the moves in flight keep their types, for any number of each.
THEOREM BoardTypeCorrect == BoardSpec => []BoardTypeOK
<1>1. BoardTypeOK /\ Shape /\ [BoardNext]_boardVars => (BoardTypeOK /\ Shape)' BY StepShape
<1> QED BY InitShape, <1>1, PTL DEF BoardSpec

-----------------------------------------------------------------------------
(* What a board knows while no event of its history is void: the rows it   *)
(* is mounted from are those of the database, and every move that is not   *)
(* answered was made on it.                                                *)

Clean   == "void" \notin events
RowsNow == /\ Clean /\ load \in Stagings => load = stage /\ \A m \in Moves : ~Unanswered(m)
           /\ events = {} /\ phase = "ready" => rows = stage /\ \A m \in Moves : ~Unanswered(m)
OwnMoves == Clean /\ shown \in Stagings => \A m \in Moves : Unanswered(m) => Live(m)
Known == BoardTypeOK /\ Shape /\ RowsNow /\ OwnMoves

\* What is noted on a clean history leaves it clean, or makes it void for good.
LEMMA CleanNote == ASSUME NEW e \in Events, Note(e), Clean'
                   PROVE  Clean /\ e # "void" /\ events' = events \cup {e}
BY DEF Note, Clean

\* A handled move is neither live nor waiting any more; the others are what they were.
LEMMA HandledMoves ==
    ASSUME MovesOK, NEW m \in Moves, MoveFailed(m) \/ MoveDone(m)
    PROVE  /\ ~Live(m)' /\ ~Unanswered(m)
           /\ \A k \in Moves : Unanswered(k)' <=> Unanswered(k)
           /\ \A k \in Moves : k # m => moves'[k] = moves[k] /\ (Live(k)' <=> Live(k))
BY HandledOnly, Markers DEF MoveFailed, MoveDone, Live, Unanswered

LEMMA DroppedFrom == ASSUME BoardTypeOK, Shape, Screen = "kanban" PROVE shown \in Stagings
BY DEF BoardTypeOK, Shape, Mounted, Screen

LEMMA StepRows == ASSUME Known, [BoardNext]_boardVars PROVE RowsNow'
<1> USE DEF Known, RowsNow
<1>0. MovesOK BY DEF BoardTypeOK, MovesOK
<1>1. CASE AnswerLoad BY <1>1, Markers DEF AnswerLoad, Clean, Unanswered, Shape
<1>2. CASE LoadDone BY <1>2, Markers DEF LoadDone, Unanswered, Clean
<1>3. CASE LoadFailed BY <1>3, Markers DEF LoadFailed, Unanswered
<1>4. CASE Retry BY <1>4, Markers DEF Retry, Fetch, Unanswered
<1>5. CASE SetFilter BY <1>5, <1>0, Unmounted, Markers DEF SetFilter, Fetch
<1>6. CASE ShowList BY <1>6, <1>0, Unmounted DEF ShowList, Clean
<1>7. CASE ShowKanban BY <1>7, Markers DEF ShowKanban, Note, Unanswered, Clean, Screen, Shape
<1>8. ASSUME NEW c \in Cards, OpenClient(c) PROVE RowsNow'
  BY <1>8, <1>0, Unmounted, Markers DEF OpenClient, Fetch
<1>9. ASSUME NEW c \in Cards, NEW to \in Columns, NEW m \in Moves, Drop(c, to, m) PROVE RowsNow'
  <2>1. load' \notin Stagings BY <1>9, Markers DEF Drop, Screen, Shape
  <2>2. events' # {} BY <1>9 DEF Drop, Note
  <2> QED BY <2>1, <2>2
<1>10. ASSUME NEW m \in Moves, Apply(m) PROVE RowsNow'
  <2>1. Unanswered(m) BY <1>10 DEF Apply
  <2>2. Clean' => Clean /\ events' = events BY <1>10, CleanNote DEF Apply, Events, Clean
  <2>3. events' = {} => Clean' BY DEF Clean
  <2> QED BY <1>10, <2>1, <2>2, <2>3 DEF Apply
<1>11. ASSUME NEW m \in Moves, Refuse(m) PROVE RowsNow'
  <2>1. Unanswered(m) BY <1>11 DEF Refuse
  <2>2. events' # {} BY <1>11 DEF Refuse, Note
  <2>3. Clean' => Clean BY <1>11, CleanNote DEF Refuse, Events
  <2> QED BY <1>11, <2>1, <2>2, <2>3 DEF Refuse
<1>12. ASSUME NEW m \in Moves, MoveFailed(m) \/ MoveDone(m) PROVE RowsNow'
  BY <1>12, <1>0, HandledMoves DEF MoveFailed, MoveDone, Clean
<1>13. CASE UNCHANGED boardVars BY <1>13 DEF boardVars, Unanswered, Clean
<1> QED BY <1>1, <1>2, <1>3, <1>4, <1>5, <1>6, <1>7, <1>8, <1>9, <1>10, <1>11, <1>12, <1>13
        DEF BoardNext, BoardSystem, BoardUser

LEMMA StepOwn == ASSUME Known, [BoardNext]_boardVars PROVE OwnMoves'
<1> USE DEF Known, OwnMoves
<1>0. MovesOK BY DEF BoardTypeOK, MovesOK
<1>1. CASE AnswerLoad BY <1>1, Markers DEF AnswerLoad, Shape, Mounted
<1>2. CASE LoadDone BY <1>2, Markers DEF LoadDone, Unanswered, Clean, RowsNow
<1>3. CASE LoadFailed BY <1>3 DEF LoadFailed, Unanswered, Live, Clean
<1>4. CASE Retry BY <1>4 DEF Retry, Unanswered, Live, Clean
<1>5. CASE SetFilter \/ ShowList \/ \E c \in Cards : OpenClient(c)
  BY <1>5, <1>0, Unmounted, Markers DEF SetFilter, ShowList, OpenClient
<1>6. CASE ShowKanban
  <2>1. phase = "ready" BY <1>6 DEF ShowKanban, Screen, BoardTypeOK
  <2>2. Clean' => events = {} BY <1>6, CleanNote DEF ShowKanban, Events
  <2>3. events = {} => \A k \in Moves : ~Unanswered(k)' BY <1>6, <2>1 DEF ShowKanban, RowsNow, Unanswered
  <2> QED BY <2>2, <2>3
<1>7. ASSUME NEW c \in Cards, NEW to \in Columns, NEW m \in Moves, Drop(c, to, m) PROVE OwnMoves'
  <2>1. shown \in Stagings BY <1>7, DroppedFrom DEF Drop
  <2>2. Clean' => Clean BY <1>7, CleanNote DEF Drop, Events
  <2>3. Live(m)' /\ \A k \in Moves : k # m => moves'[k] = moves[k]
    BY <1>7, <1>0, DropDrops, DroppedOnly
  <2> QED BY <2>1, <2>2, <2>3 DEF Unanswered, Live
<1>8. ASSUME NEW m \in Moves, Apply(m) \/ Refuse(m) PROVE OwnMoves'
  <2>1. Clean' => Clean BY <1>8, CleanNote DEF Apply, Refuse, Events, Clean
  <2>2. \A k \in Moves : (Live(k)' <=> Live(k)) /\ (Unanswered(k)' => Unanswered(k))
    BY <1>8, <1>0, AnswerOnly DEF Apply, Refuse, Unanswered, Live
  <2> QED BY <1>8, <2>1, <2>2 DEF Apply, Refuse
<1>9. ASSUME NEW m \in Moves, MoveFailed(m) \/ MoveDone(m) PROVE OwnMoves'
  <2>1. shown' \in Stagings => shown \in Stagings
    BY <1>9, <1>0 DEF MoveFailed, MoveDone, Shape, BoardTypeOK, Live
  <2> QED BY <1>9, <2>1, <1>0, HandledMoves DEF MoveFailed, MoveDone, Clean
<1>10. CASE UNCHANGED boardVars BY <1>10 DEF boardVars, Unanswered, Live, Clean
<1> QED BY <1>1, <1>2, <1>3, <1>4, <1>5, <1>6, <1>7, <1>8, <1>9, <1>10
        DEF BoardNext, BoardSystem, BoardUser

LEMMA StepKnown == ASSUME Known, [BoardNext]_boardVars PROVE Known'
BY StepShape, StepRows, StepOwn DEF Known

LEMMA InitKnown == BoardInit => Known
<1> SUFFICES ASSUME BoardInit PROVE Known OBVIOUS
<1>1. RowsNow BY Markers DEF BoardInit, RowsNow
<1>2. OwnMoves BY Markers DEF BoardInit, OwnMoves
<1> QED BY <1>1, <1>2, InitShape DEF Known

-----------------------------------------------------------------------------
(* One move at a time: the snapshot of the one live move is what the       *)
(* database had before it.                                                 *)

Lone    == events \subseteq {"moved", "refused"}
LoneInv == Lone /\ shown \in Stagings =>
    /\ \A m, k \in Moves : Live(m) /\ Live(k) => m = k
    /\ (\A m \in Moves : ~Live(m)) => shown = stage
    /\ \A m \in Moves : Live(m) =>
          /\ moves[m].answer = Sent => /\ revert = stage
                                       /\ shown = [stage EXCEPT ![moves[m].card] = moves[m].to]
          /\ moves[m].answer = Failed => revert = stage
          /\ moves[m].answer = "ok" => shown = stage

LEMMA LoneIsClean == Lone => Clean
BY DEF Lone, Clean

LEMMA LoneNote == ASSUME NEW e \in Events, Note(e), Lone'
                  PROVE  Lone /\ e \in {"moved", "refused"}
BY DEF Note, Lone

LEMMA StepLone == ASSUME Known, LoneInv, [BoardNext]_boardVars PROVE LoneInv'
<1> USE DEF Known, LoneInv
<1>0. MovesOK BY DEF BoardTypeOK, MovesOK
<1>1. CASE AnswerLoad BY <1>1, Markers DEF AnswerLoad, Shape, Mounted
<1>2. CASE LoadDone
  <2>1. \A m \in Moves : ~Live(m)' BY <1>2, Markers DEF LoadDone, Live, Shape, Mounted, BoardTypeOK
  <2>2. Lone' => load = stage BY <1>2, LoneIsClean DEF LoadDone, RowsNow, Lone
  <2> QED BY <1>2, <2>1, <2>2, Markers DEF LoadDone
<1>3. CASE LoadFailed BY <1>3, Markers DEF LoadFailed, Shape, Mounted
<1>4. CASE Retry BY <1>4, Markers DEF Retry, Live, Lone
<1>5. CASE SetFilter \/ ShowList \/ \E c \in Cards : OpenClient(c)
  BY <1>5, <1>0, Unmounted, Markers DEF SetFilter, ShowList, OpenClient
<1>6. CASE ShowKanban
  <2>1. phase = "ready" /\ view = "list" BY <1>6 DEF ShowKanban, Screen, BoardTypeOK
  <2>2. \A m \in Moves : ~Live(m)' BY <1>6, <2>1, Markers DEF ShowKanban, Live, Shape, Mounted, BoardTypeOK
  <2>3. Lone' => events = {} BY <1>6, LoneNote DEF ShowKanban, Events
  <2>4. events = {} => shown' = stage' BY <1>6, <2>1 DEF ShowKanban, RowsNow
  <2> QED BY <2>2, <2>3, <2>4
<1>7. ASSUME NEW c \in Cards, NEW to \in Columns, NEW m \in Moves, Drop(c, to, m), Lone'
      PROVE  LoneInv'
  <2>1. shown \in Stagings BY <1>7, DroppedFrom DEF Drop
  <2>2. Lone /\ \A k \in Moves : ~Live(k)
    <3> DEFINE e == IF \E k \in Moves : Live(k) /\ moves[k].card = c THEN "void"
                    ELSE IF \E k \in Moves : Live(k) THEN "overlap" ELSE "moved"
    <3>1. Note(e) BY <1>7 DEF Drop
    <3>2. e \in Events BY DEF Events
    <3>3. Lone /\ e \in {"moved", "refused"} BY <3>1, <3>2, <1>7, LoneNote
    <3> QED BY <3>3
  <2>3. Dropped(c, to, m) BY <1>7, DropDrops
  <2>4. /\ moves'[m].answer = Sent /\ moves'[m].card = c /\ moves'[m].to = to
        /\ \A k \in Moves : Live(k)' => k = m
    BY <2>2, <2>3, <1>0, DroppedOnly
  <2>5. Live(m)' BY <2>3, <1>0, DroppedOnly
  <2>6. shown = stage BY <2>1, <2>2
  <2> QED BY <1>7, <2>4, <2>5, <2>6, Markers DEF Drop
<1>8. ASSUME NEW m \in Moves, Apply(m), Lone', shown' \in Stagings PROVE LoneInv'
  <2>1. Lone /\ Answer(m, "ok") BY <1>8, LoneNote DEF Apply, Events, Lone
  <2>2. moves[m] # None /\ moves[m].answer = Sent BY <1>8 DEF Apply, Unanswered
  <2>3. Live(m) BY <1>8, <2>1, LoneIsClean DEF Apply, OwnMoves
  <2>4. /\ moves'[m].answer = "ok" /\ \A k \in Moves : Live(k)' <=> Live(k)
    BY <2>1, <2>2, <1>0, AnswerOnly DEF Live
  <2>5. shown' = stage' BY <1>8, <2>1, <2>2, <2>3 DEF Apply
  <2> QED BY <1>8, <2>1, <2>3, <2>4, <2>5, Markers DEF Apply
<1>9. ASSUME NEW m \in Moves, Refuse(m), Lone', shown' \in Stagings PROVE LoneInv'
  <2>1. Lone BY <1>9, LoneNote DEF Refuse, Events
  <2>2. moves[m] # None /\ moves[m].answer = Sent BY <1>9 DEF Refuse, Unanswered
  <2>3. Live(m) BY <1>9, <2>1, LoneIsClean DEF Refuse, OwnMoves
  <2>4. /\ moves'[m].answer = Failed /\ \A k \in Moves : Live(k)' <=> Live(k)
    BY <1>9, <2>2, <1>0, AnswerOnly DEF Live, Refuse
  <2>5. revert' = stage' BY <1>9, <2>1, <2>2, <2>3 DEF Refuse
  <2> QED BY <1>9, <2>1, <2>3, <2>4, <2>5, Markers DEF Refuse
<1>10. ASSUME NEW m \in Moves, MoveFailed(m) \/ MoveDone(m), Lone', shown' \in Stagings PROVE LoneInv'
  <2>1. Lone /\ shown \in Stagings
    BY <1>10, <1>0 DEF MoveFailed, MoveDone, Shape, BoardTypeOK, Live, Lone
  <2>2. /\ ~Live(m)'
        /\ \A k \in Moves : k # m => moves'[k] = moves[k] /\ (Live(k)' <=> Live(k))
    BY <1>10, <1>0, HandledMoves
  <2>3. CASE Live(m)
    <3>1. \A k \in Moves : ~Live(k)' BY <2>1, <2>2, <2>3
    <3>2. shown' = stage' BY <1>10, <2>1, <2>3, Markers DEF MoveFailed, MoveDone, Live, BoardTypeOK
    <3> QED BY <3>1, <3>2
  <2>4. CASE ~Live(m)
    <3>1. UNCHANGED <<stage, shown, revert>> BY <1>10, <2>4 DEF MoveFailed, MoveDone, Live
    <3>2. \A k \in Moves : Live(k)' => Live(k) /\ k # m /\ moves'[k] = moves[k] BY <2>2
    <3>3. (\A k \in Moves : ~Live(k)') => \A k \in Moves : ~Live(k) BY <2>2, <2>4
    <3> QED BY <2>1, <3>1, <3>2, <3>3
  <2> QED BY <2>3, <2>4
<1>11. CASE UNCHANGED boardVars BY <1>11 DEF boardVars, Live, Lone
<1> QED BY <1>1, <1>2, <1>3, <1>4, <1>5, <1>6, <1>7, <1>8, <1>9, <1>10, <1>11
        DEF BoardNext, BoardSystem, BoardUser

\* For every board and every number of PATCHes in flight: moves made one at a time leave the
\* board as the database has it, whether they succeed or are refused.
THEOREM LoneMovesSettled == BoardSpec => []LoneMovesSettle
<1>1. BoardInit => Known /\ LoneInv
  <2>1. BoardInit => LoneInv BY Markers DEF BoardInit, LoneInv
  <2> QED BY <2>1, InitKnown
<1>2. Known /\ LoneInv /\ [BoardNext]_boardVars => (Known /\ LoneInv)' BY StepKnown, StepLone
<1>3. Known /\ LoneInv => LoneMovesSettle
  BY Markers DEF Known, BoardTypeOK, LoneInv, LoneMovesSettle, Settled, Lone
<1> QED BY <1>1, <1>2, <1>3, PTL DEF BoardSpec

-----------------------------------------------------------------------------
(* Moves of different cards that overlap and are all applied: each card is *)
(* where the database has it, or where its waiting move takes it.          *)

Happy    == events \subseteq {"moved", "overlap"}
HappyInv == Happy /\ shown \in Stagings =>
    /\ \A m, k \in Moves : Live(m) /\ Live(k) /\ moves[m].card = moves[k].card => m = k
    /\ \A m \in Moves : Live(m) => moves[m].answer # Failed
    /\ \A m \in Moves : Unanswered(m) => shown[moves[m].card] = moves[m].to
    /\ \A c \in Cards : (\A m \in Moves : Unanswered(m) => moves[m].card # c) => shown[c] = stage[c]

LEMMA HappyIsClean == Happy => Clean
BY DEF Happy, Clean

LEMMA HappyNote == ASSUME NEW e \in Events, Note(e), Happy'
                   PROVE  Happy /\ e \in {"moved", "overlap"}
BY DEF Note, Happy

LEMMA StepHappy == ASSUME Known, HappyInv, [BoardNext]_boardVars PROVE HappyInv'
<1> USE DEF Known, HappyInv
<1>0. MovesOK BY DEF BoardTypeOK, MovesOK
<1>1. CASE AnswerLoad BY <1>1, Markers DEF AnswerLoad, Shape, Mounted
<1>2. CASE LoadDone
  <2>1. \A m \in Moves : ~Live(m)' BY <1>2, Markers DEF LoadDone, Live, Shape, Mounted, BoardTypeOK
  <2>2. Happy' => load = stage /\ \A m \in Moves : ~Unanswered(m)
    BY <1>2, HappyIsClean DEF LoadDone, RowsNow, Happy
  <2>3. \A m \in Moves : Unanswered(m)' <=> Unanswered(m) BY <1>2 DEF LoadDone, Unanswered
  <2> QED BY <1>2, <2>1, <2>2, <2>3, Markers DEF LoadDone
<1>3. CASE LoadFailed BY <1>3, Markers DEF LoadFailed, Shape, Mounted
<1>4. CASE Retry BY <1>4, Markers DEF Retry, Live, Happy, Unanswered
<1>5. CASE SetFilter \/ ShowList \/ \E c \in Cards : OpenClient(c)
  BY <1>5, <1>0, Unmounted, Markers DEF SetFilter, ShowList, OpenClient
<1>6. CASE ShowKanban
  <2>1. phase = "ready" /\ view = "list" BY <1>6 DEF ShowKanban, Screen, BoardTypeOK
  <2>2. \A m \in Moves : ~Live(m)' BY <1>6, <2>1, Markers DEF ShowKanban, Live, Shape, Mounted, BoardTypeOK
  <2>3. Happy' => events = {} BY <1>6, HappyNote DEF ShowKanban, Events
  <2>4. events = {} => shown' = stage' /\ \A m \in Moves : ~Unanswered(m)'
    BY <1>6, <2>1 DEF ShowKanban, RowsNow, Unanswered
  <2> QED BY <2>2, <2>3, <2>4
<1>7. ASSUME NEW c \in Cards, NEW to \in Columns, NEW m \in Moves, Drop(c, to, m), Happy'
      PROVE  HappyInv'
  <2>1. shown \in Stagings BY <1>7, DroppedFrom DEF Drop
  <2>2. Happy /\ \A k \in Moves : Live(k) => moves[k].card # c
    <3> DEFINE e == IF \E k \in Moves : Live(k) /\ moves[k].card = c THEN "void"
                    ELSE IF \E k \in Moves : Live(k) THEN "overlap" ELSE "moved"
    <3>1. Note(e) BY <1>7 DEF Drop
    <3>2. e \in Events BY DEF Events
    <3>3. Happy /\ e \in {"moved", "overlap"} BY <3>1, <3>2, <1>7, HappyNote
    <3> QED BY <3>3
  <2>3. Dropped(c, to, m) BY <1>7, DropDrops
  <2>4. /\ moves'[m].answer = Sent /\ moves'[m].card = c /\ moves'[m].to = to /\ moves'[m] # None
        /\ \A k \in Moves : k # m => moves'[k] = moves[k] /\ (Live(k)' <=> Live(k))
    BY <2>3, <1>0, DroppedOnly
  <2>5. Unanswered(m)' /\ \A k \in Moves : k # m => (Unanswered(k)' <=> Unanswered(k))
    BY <2>4 DEF Unanswered
  <2>6. \A k \in Moves : Unanswered(k) => Live(k) BY <2>1, <2>2, HappyIsClean DEF OwnMoves
  <2>7. stage' = stage /\ shown' = [shown EXCEPT ![c] = to] BY <1>7 DEF Drop
  <2>8. shown'[c] = to /\ \A d \in Cards : d # c => shown'[d] = shown[d] BY <2>1, <2>7 DEF Stagings
  <2>9. \A k \in Moves : Unanswered(k)' => shown'[moves'[k].card] = moves'[k].to
    <3> SUFFICES ASSUME NEW k \in Moves, Unanswered(k)', k # m
                 PROVE  shown'[moves'[k].card] = moves'[k].to
      BY <2>4, <2>8
    <3>1. Unanswered(k) /\ Live(k) /\ moves'[k] = moves[k] BY <2>4, <2>5, <2>6
    <3>2. moves[k].card \in Cards /\ moves[k].card # c BY <3>1, <2>2 DEF BoardTypeOK, Live, Move
    <3> QED BY <3>1, <3>2, <2>1, <2>2, <2>8
  <2>10. ASSUME NEW d \in Cards, \A k \in Moves : Unanswered(k)' => moves'[k].card # d
         PROVE  shown'[d] = stage'[d]
    <3>1. d # c BY <2>4, <2>5, <2>10
    <3>2. \A k \in Moves : Unanswered(k) => moves[k].card # d
      <4> SUFFICES ASSUME NEW k \in Moves, Unanswered(k) PROVE moves[k].card # d OBVIOUS
      <4>1. k # m BY <2>3 DEF Dropped, Unanswered
      <4> QED BY <4>1, <2>4, <2>5, <2>10
    <3> QED BY <3>1, <3>2, <2>1, <2>2, <2>7, <2>8
  <2>11. \A k, j \in Moves : Live(k)' /\ Live(j)' /\ moves'[k].card = moves'[j].card => k = j
    BY <2>1, <2>2, <2>4
  <2>12. \A k \in Moves : Live(k)' => moves'[k].answer # Failed BY <2>1, <2>2, <2>4, Markers
  <2> QED BY <2>9, <2>10, <2>11, <2>12
<1>8. ASSUME NEW m \in Moves, Apply(m), Happy', shown' \in Stagings PROVE HappyInv'
  <2>1. Happy /\ Answer(m, "ok") BY <1>8, HappyNote DEF Apply, Events, Happy
  <2>2. moves[m] # None /\ moves[m].answer = Sent /\ Unanswered(m) BY <1>8 DEF Apply, Unanswered
  <2>3. shown \in Stagings /\ shown' = shown BY <1>8 DEF Apply
  <2>4. \A k \in Moves : Unanswered(k) => Live(k) BY <2>1, <2>3, HappyIsClean DEF OwnMoves
  <2>5. /\ moves'[m].answer = "ok" /\ moves'[m].card = moves[m].card
        /\ \A k \in Moves : k # m => moves'[k] = moves[k]
        /\ \A k \in Moves : Live(k)' <=> Live(k)
    BY <2>1, <2>2, <1>0, AnswerOnly DEF Live
  <2>6. ~Unanswered(m)' /\ \A k \in Moves : k # m => (Unanswered(k)' <=> Unanswered(k))
    BY <2>5, Markers DEF Unanswered
  <2>7. moves[m].card \in Cards BY <2>2 DEF BoardTypeOK, Move
  <2>8. /\ stage'[moves[m].card] = moves[m].to
        /\ \A d \in Cards : d # moves[m].card => stage'[d] = stage[d]
    BY <1>8, <2>7 DEF Apply, BoardTypeOK, Stagings
  <2>9. \A k \in Moves : Unanswered(k)' => shown'[moves'[k].card] = moves'[k].to
    BY <2>1, <2>3, <2>5, <2>6
  <2>10. ASSUME NEW d \in Cards, \A k \in Moves : Unanswered(k)' => moves'[k].card # d
         PROVE  shown'[d] = stage'[d]
    <3>1. CASE d = moves[m].card BY <3>1, <2>1, <2>2, <2>3, <2>8
    <3>2. CASE d # moves[m].card
      <4>1. \A k \in Moves : Unanswered(k) => moves[k].card # d BY <3>2, <2>5, <2>6, <2>10
      <4> QED BY <4>1, <3>2, <2>1, <2>3, <2>8
    <3> QED BY <3>1, <3>2
  <2>11. \A k, j \in Moves : Live(k)' /\ Live(j)' /\ moves'[k].card = moves'[j].card => k = j
    <3> SUFFICES ASSUME NEW k \in Moves, NEW j \in Moves, Live(k)', Live(j)', moves'[k].card = moves'[j].card
                 PROVE  k = j
      OBVIOUS
    <3>1. moves[k].card = moves[j].card BY <2>5
    <3> QED BY <3>1, <2>1, <2>3, <2>5
  <2>12. \A k \in Moves : Live(k)' => moves'[k].answer # Failed BY <2>1, <2>3, <2>5, Markers
  <2> QED BY <2>9, <2>10, <2>11, <2>12
<1>9. ASSUME NEW m \in Moves, Refuse(m) PROVE HappyInv'
  BY <1>9, HappyNote DEF Refuse, Events
<1>10. ASSUME NEW m \in Moves, MoveFailed(m) \/ MoveDone(m), Happy', shown' \in Stagings PROVE HappyInv'
  <2>1. Happy /\ shown \in Stagings
    BY <1>10, <1>0 DEF MoveFailed, MoveDone, Shape, BoardTypeOK, Live, Happy
  <2>2. /\ ~Live(m)' /\ ~Unanswered(m)
        /\ \A k \in Moves : Unanswered(k)' <=> Unanswered(k)
        /\ \A k \in Moves : k # m => moves'[k] = moves[k] /\ (Live(k)' <=> Live(k))
    BY <1>10, <1>0, HandledMoves
  <2>3. UNCHANGED <<stage, shown>> BY <1>10, <2>1 DEF MoveFailed, MoveDone, Live
  <2> QED BY <2>1, <2>2, <2>3
<1>11. CASE UNCHANGED boardVars BY <1>11 DEF boardVars, Live, Happy, Unanswered
<1> QED BY <1>1, <1>2, <1>3, <1>4, <1>5, <1>6, <1>7, <1>8, <1>9, <1>10, <1>11
        DEF BoardNext, BoardSystem, BoardUser

\* For every board and every number of PATCHes in flight: moves of different cards that all
\* succeed leave the board as the database has it, however many overlap and in whatever order
\* they are applied and answered.
THEOREM SuccessesSettled == BoardSpec => []SuccessesSettle
<1>1. BoardInit => Known /\ HappyInv
  <2>1. BoardInit => HappyInv BY Markers DEF BoardInit, HappyInv
  <2> QED BY <2>1, InitKnown
<1>2. Known /\ HappyInv /\ [BoardNext]_boardVars => (Known /\ HappyInv)' BY StepKnown, StepHappy
<1>3. Known /\ HappyInv => SuccessesSettle
  <2> SUFFICES ASSUME Known, HappyInv, Settled, Happy PROVE shown = stage
    BY DEF SuccessesSettle, Happy
  <2>1. shown \in Stagings /\ stage \in Stagings BY DEF Known, BoardTypeOK, Settled
  <2>2. \A m \in Moves : ~Unanswered(m) BY <2>1, HappyIsClean DEF Known, OwnMoves, Settled
  <2>3. \A c \in Cards : shown[c] = stage[c] BY <2>1, <2>2 DEF HappyInv
  <2> QED BY <2>1, <2>3 DEF Stagings
<1> QED BY <1>1, <1>2, <1>3, PTL DEF BoardSpec
=============================================================================
