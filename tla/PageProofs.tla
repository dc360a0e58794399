------------------------------- MODULE PageProofs -------------------------------
(***************************************************************************)
(* Theorems about the pages of the panel and their dialogs: ListPages, for *)
(* every page, filter and number of rows; ConvertForm, for any number of   *)
(* conversions in flight; LoadPages, for every choice of pages that are    *)
(* visited; DetailPages, for every row and any number of moves and parts.  *)
(***************************************************************************)
EXTENDS ListPages, ConvertForm, LoadPages, DetailPages, TLAPS

-----------------------------------------------------------------------------
(* The dialogs of the lists.                                               *)

\* A request in flight keeps the button disabled, also while the dialog is closed.
SubmitInv == /\ posts = [p \in PostSlots |-> posts[p]]
             /\ \A p \in PostSlots : posts[p] # None => isSaving
             /\ OneSubmission

LEMMA StepSubmit == ASSUME SubmitInv, [ListNext]_listVars PROVE SubmitInv'
<1> USE DEF SubmitInv, OneSubmission
<1>1. ASSUME UNCHANGED <<posts, isSaving>> PROVE SubmitInv' BY <1>1
<1>2. ASSUME NEW f \in Filters, SetFilterTo(f) \/ TypeSearch(f) \/ AnswerFetch(f) \/ TakeRows(f)
      PROVE  SubmitInv'
  BY <1>1, <1>2 DEF SetFilterTo, TypeSearch, AnswerFetch, TakeRows
<1>3. CASE Debounced \/ OpenDialog \/ CloseDialog BY <1>1, <1>3 DEF Debounced, OpenDialog, CloseDialog
<1>4. ASSUME NEW p \in PostSlots, Submit(p) PROVE SubmitInv'
  <2>1. isSaving' /\ \A q \in PostSlots : posts[q] = None BY <1>4 DEF Submit
  <2>2. posts' = [posts EXCEPT ![p] = [answer |-> Sent, then |-> filter]] BY <1>4 DEF Submit
  <2>3. \A q \in PostSlots : q # p => posts'[q] = None BY <2>1, <2>2
  <2>4. DOMAIN posts' = PostSlots BY <2>2
  <2> QED BY <2>1, <2>2, <2>3, <2>4
<1>5. ASSUME NEW p \in PostSlots, ServeCreate(p) PROVE SubmitInv'
  <2>1. isSaving' = isSaving /\ posts[p] # None BY <1>5 DEF ServeCreate
  <2>2. PICK a : posts' = [posts EXCEPT ![p].answer = a] BY <1>5 DEF ServeCreate
  <2>3. \A q \in PostSlots : q # p => posts'[q] = posts[q] BY <2>2
  <2> QED BY <2>1, <2>2, <2>3
<1>6. ASSUME NEW p \in PostSlots, CreatedHere(p) \/ CreatedAndGone(p) \/ NotCreated(p)
      PROVE  SubmitInv'
  <2>1. posts[p] # None /\ posts' = [posts EXCEPT ![p] = None]
    BY <1>6 DEF CreatedHere, CreatedAndGone, NotCreated, Created
  <2>2. \A q \in PostSlots : posts'[q] = None BY <2>1
  <2> QED BY <2>1, <2>2
<1>7. CASE UNCHANGED listVars BY <1>1, <1>7 DEF listVars
<1> QED BY <1>2, <1>3, <1>4, <1>5, <1>6, <1>7 DEF ListNext

\* However the dialog is closed and opened again, one press of its button is one request.
THEOREM OnePressOneRequest == ListSpec => []OneSubmission
<1>1. ListInit => SubmitInv BY DEF ListInit, SubmitInv, OneSubmission
<1>2. SubmitInv /\ [ListNext]_listVars => SubmitInv' BY StepSubmit
<1>3. SubmitInv => OneSubmission BY DEF SubmitInv
<1> QED BY <1>1, <1>2, <1>3, PTL DEF ListSpec

-----------------------------------------------------------------------------
(* The rows of the lists.                                                  *)

\* Fetching f changes no other GET, asks anew when there was none, and is waited for.
LEMMA FetchesOne ==
    ASSUME NEW old \in [Filters -> Fetching \cup {None}], NEW f \in Filters
    PROVE  /\ Fetches(f, old) \in [Filters -> Fetching \cup {None}]
           /\ Fetches(f, old)[f] # None /\ Fetches(f, old)[f].live
           /\ old[f] = None => Fetches(f, old)[f].answer = Sent
           /\ \A g \in Filters \ {f} : Fetches(f, old)[g] = old[g]
<1> DEFINE new == [answer |-> Sent, live |-> TRUE]
           v   == IF old[f] = None THEN new ELSE [old[f] EXCEPT !.live = TRUE]
<1>1. new \in Fetching /\ new.live /\ new.answer = Sent BY DEF Fetching
<1>2. old[f] # None => /\ old[f] \in Fetching
                       /\ [old[f] EXCEPT !.live = TRUE] \in Fetching
                       /\ [old[f] EXCEPT !.live = TRUE].live
  BY DEF Fetching
<1>3. v \in Fetching /\ v.live /\ (old[f] = None => v.answer = Sent) BY <1>1, <1>2
<1>4. Fetches(f, old) = [old EXCEPT ![f] = v] BY DEF Fetches
<1>5. v # None BY <1>3, ListAssumption
<1> HIDE DEF v
<1> QED BY <1>3, <1>4, <1>5

\* An answer of a POST is of a row that was created.
PostsMade == \A p \in PostSlots :
    posts[p] # None /\ posts[p].answer \notin {Sent, Failed} => posts[p].answer <= made

\* Unless the last fetch crossed another or was of another filter, the GET that is waited for is
\* of the page's filter and no older than what the user was told, and so are the rows it leaves.
RowsAnswer == ~crossed =>
    /\ \A f \in Filters : InFlight(f) =>
          f = filter /\ (fetches[f].answer \in {Sent, Failed} \/ fetches[f].answer >= told)
    /\ ~fault /\ (\A f \in Filters : ~InFlight(f)) =>
          items # None /\ items.of = filter /\ items.made >= told

ListInv == ListTypeOK /\ PostsMade /\ RowsAnswer

\* The fetch of a moment when none is in flight, for the filter the page then has.
LEMMA FetchStep ==
    ASSUME ListInv, NEW f \in Filters, FetchFor(f), listPage' = listPage,
           filter' \in Filters, typed' \in Filters \cup {None}, items' \in Rows \cup {None},
           made' = made, told' \in 0..made, isOpen' \in BOOLEAN, isSaving' \in BOOLEAN,
           posts' \in [PostSlots -> Posting \cup {None}], PostsMade'
    PROVE  ListInv'
<1>1. fetches \in [Filters -> Fetching \cup {None}] BY DEF ListInv, ListTypeOK
<1>2. /\ fetches' \in [Filters -> Fetching \cup {None}]
      /\ fetches'[f] # None /\ fetches'[f].live
      /\ fetches[f] = None => fetches'[f].answer = Sent
      /\ \A g \in Filters \ {f} : fetches'[g] = fetches[g]
  BY <1>1, FetchesOne DEF FetchFor
<1>3. crossed' <=> (fetches[f] # None \/ (\E g \in Filters : InFlight(g)) \/ f # filter')
  BY DEF FetchFor
<1>4. pending' \in BOOLEAN /\ fault' \in BOOLEAN /\ crossed' \in BOOLEAN
  BY DEF FetchFor, ListInv, ListTypeOK
<1>5. ListTypeOK' BY <1>2, <1>4 DEF ListInv, ListTypeOK
<1>6. ASSUME ~crossed' PROVE RowsAnswer'
  <2>1. fetches[f] = None /\ f = filter' /\ \A g \in Filters : ~InFlight(g) BY <1>3, <1>6
  <2>2. \A g \in Filters \ {f} : ~InFlight(g)' BY <1>2, <2>1 DEF InFlight
  <2>3. InFlight(f)' BY <1>2 DEF InFlight
  <2> QED BY <1>2, <2>1, <2>2, <2>3 DEF RowsAnswer
<1> QED BY <1>5, <1>6 DEF ListInv, RowsAnswer

\* What leaves the rows, the GETs and what the user was told alone.
LEMMA RowsStand ==
    ASSUME ListInv, UNCHANGED <<filter, fault, items, fetches, told, crossed>>
    PROVE  RowsAnswer'
BY DEF ListInv, RowsAnswer, InFlight

LEMMA StepAnswerFetch == ASSUME ListInv, NEW f \in Filters, AnswerFetch(f) PROVE ListInv'
<1>1. PICK a \in {made, Failed} : fetches' = [fetches EXCEPT ![f].answer = a] BY DEF AnswerFetch
<1> DEFINE v == [fetches[f] EXCEPT !.answer = a]
<1>2. fetches[f] \in Fetching /\ made \in 0..MaxMade BY DEF AnswerFetch, ListInv, ListTypeOK
<1>3. v \in Fetching /\ v.answer = a /\ v.live = fetches[f].live BY <1>2 DEF Fetching
<1>4. fetches' = [fetches EXCEPT ![f] = v] BY <1>1
<1>5. v # None BY <1>3, ListAssumption
<1> HIDE DEF v
<1>6. /\ fetches' \in [Filters -> Fetching \cup {None}]
      /\ fetches'[f] = v /\ \A g \in Filters \ {f} : fetches'[g] = fetches[g]
  BY <1>3, <1>4 DEF ListInv, ListTypeOK
<1>7. ListTypeOK' BY <1>6 DEF AnswerFetch, ListInv, ListTypeOK
<1>8. PostsMade' BY DEF AnswerFetch, ListInv, PostsMade
<1>9. \A g \in Filters : InFlight(g)' <=> InFlight(g)
  BY <1>3, <1>5, <1>6 DEF InFlight, AnswerFetch
<1>10. a = Failed \/ a >= told BY DEF ListInv, ListTypeOK, ListAssumption
<1>11. RowsAnswer' BY <1>3, <1>6, <1>9, <1>10 DEF AnswerFetch, ListInv, RowsAnswer
<1> QED BY <1>7, <1>8, <1>11 DEF ListInv

LEMMA StepTakeRows == ASSUME ListInv, NEW f \in Filters, TakeRows(f) PROVE ListInv'
<1>1. fetches[f] \in Fetching /\ fetches[f].answer \in {Failed} \cup 0..MaxMade
  BY DEF TakeRows, ListInv, ListTypeOK, Fetching
<1>2. /\ fetches' \in [Filters -> Fetching \cup {None}]
      /\ fetches'[f] = None /\ \A g \in Filters \ {f} : fetches'[g] = fetches[g]
  BY DEF TakeRows, ListInv, ListTypeOK
<1>3. PostsMade' BY DEF TakeRows, ListInv, PostsMade
<1>4. ~InFlight(f)' /\ \A g \in Filters \ {f} : InFlight(g)' <=> InFlight(g) BY <1>2 DEF InFlight
<1>5. CASE fetches[f].live
  <2>1. items' \in Rows \cup {None} BY <1>1, <1>5 DEF TakeRows, Rows, ListInv, ListTypeOK
  <2>2. ListTypeOK' BY <1>2, <1>5, <2>1 DEF TakeRows, ListInv, ListTypeOK
  <2>3. InFlight(f) BY <1>5 DEF InFlight, TakeRows
  <2>4. ASSUME ~crossed, ~fault' PROVE items' # None /\ items'.of = filter /\ items'.made >= told
    <3>1. f = filter /\ fetches[f].answer \in 0..MaxMade /\ fetches[f].answer >= told
      BY <1>1, <1>5, <2>3, <2>4, ListAssumption DEF TakeRows, ListInv, RowsAnswer
    <3>2. items' = [of |-> f, made |-> fetches[f].answer]
      BY <1>5, <2>4 DEF TakeRows
    <3>3. items' \in Rows BY <3>1, <3>2 DEF Rows
    <3> QED BY <3>1, <3>2, <3>3, ListAssumption
  <2>5. RowsAnswer' BY <1>2, <1>4, <2>4 DEF TakeRows, ListInv, RowsAnswer
  <2> QED BY <1>3, <2>2, <2>5 DEF ListInv
<1>6. CASE ~fetches[f].live
  <2>1. UNCHANGED <<pending, fault, items>> BY <1>6 DEF TakeRows
  <2>2. ListTypeOK' BY <1>2, <2>1 DEF TakeRows, ListInv, ListTypeOK
  <2>3. ~InFlight(f) BY <1>6 DEF InFlight
  <2>4. RowsAnswer' BY <1>2, <1>4, <2>1, <2>3 DEF TakeRows, ListInv, RowsAnswer
  <2> QED BY <1>3, <2>2, <2>4 DEF ListInv
<1> QED BY <1>5, <1>6

LEMMA StepServeCreate == ASSUME ListInv, NEW p \in PostSlots, ServeCreate(p) PROVE ListInv'
<1> USE ListAssumption
<1>1. posts[p] \in Posting BY DEF ServeCreate, ListInv, ListTypeOK
<1>2. PICK a \in {Failed} \cup 1..MaxMade :
         /\ posts' = [posts EXCEPT ![p].answer = a]
         /\ made' \in made..MaxMade
         /\ a = Failed \/ a <= made'
  <2>1. CASE made < MaxMade /\ made' = made + 1
             /\ \E a \in {made + 1, Failed} : posts' = [posts EXCEPT ![p].answer = a]
    <3>1. PICK b \in {made + 1, Failed} : posts' = [posts EXCEPT ![p].answer = b] BY <2>1
    <3>2. made \in 0..MaxMade BY DEF ListInv, ListTypeOK
    <3>3. made + 1 \in 1..MaxMade /\ made' \in made..MaxMade BY <2>1, <3>2
    <3>4. b \in {Failed} \cup 1..MaxMade /\ (b = Failed \/ b <= made') BY <2>1, <3>3
    <3> QED BY <3>1, <3>3, <3>4
  <2>2. CASE posts' = [posts EXCEPT ![p].answer = Failed] /\ UNCHANGED made
    <3>1. made' \in made..MaxMade BY <2>2 DEF ListInv, ListTypeOK
    <3> QED BY <2>2, <3>1
  <2> QED BY <2>1, <2>2 DEF ServeCreate
<1> DEFINE v == [posts[p] EXCEPT !.answer = a]
<1>3. v \in Posting /\ v.answer = a BY <1>1 DEF Posting
<1>4. posts' = [posts EXCEPT ![p] = v] BY <1>2
<1> HIDE DEF v
<1>5. /\ posts' \in [PostSlots -> Posting \cup {None}]
      /\ posts'[p] = v /\ \A q \in PostSlots \ {p} : posts'[q] = posts[q]
  BY <1>3, <1>4 DEF ListInv, ListTypeOK
<1>6. ListTypeOK' BY <1>2, <1>5 DEF ServeCreate, ListInv, ListTypeOK
<1>7. PostsMade'
  <2>1. ASSUME NEW q \in PostSlots \ {p}, posts[q] # None, posts[q].answer \notin {Sent, Failed}
        PROVE  posts[q].answer <= made'
    <3>1. posts[q].answer \in 1..MaxMade /\ posts[q].answer <= made
      BY <2>1 DEF ListInv, ListTypeOK, PostsMade, Posting
    <3> QED BY <1>2, <3>1 DEF ListInv, ListTypeOK
  <2> QED BY <1>2, <1>3, <1>5, <2>1 DEF PostsMade
<1>8. RowsAnswer' BY RowsStand DEF ServeCreate
<1> QED BY <1>6, <1>7, <1>8 DEF ListInv

\* What an answered POST leaves of the requests, and what the user is told.
LEMMA CreatedOK ==
    ASSUME ListInv, NEW p \in PostSlots, Created(p)
    PROVE  /\ posts' \in [PostSlots -> Posting \cup {None}] /\ PostsMade'
           /\ posts[p].then \in Filters /\ told' \in 0..made /\ made' = made /\ listPage' = listPage
           /\ isOpen' \in BOOLEAN /\ isSaving' \in BOOLEAN
<1>1. posts[p] \in Posting BY DEF Created, ListInv, ListTypeOK
<1>2. posts[p].answer \in 1..MaxMade /\ posts[p].answer <= made /\ posts[p].then \in Filters
  BY <1>1 DEF Created, ListInv, PostsMade, Posting
<1>3. told' \in 0..made BY <1>2, ListAssumption DEF Created, ListInv, ListTypeOK
<1>4. posts' = [posts EXCEPT ![p] = None] /\ made' = made BY DEF Created
<1>5. posts' \in [PostSlots -> Posting \cup {None}] BY <1>4 DEF ListInv, ListTypeOK
<1>6. \A q \in PostSlots : posts'[q] \in {None, posts[q]} BY <1>4 DEF ListInv, ListTypeOK
<1>7. PostsMade' BY <1>4, <1>6 DEF ListInv, PostsMade
<1> QED BY <1>2, <1>3, <1>5, <1>7 DEF Created

LEMMA StepCreated == ASSUME ListInv, NEW p \in PostSlots, CreatedHere(p) \/ CreatedAndGone(p)
                     PROVE  ListInv'
<1>1. Created(p) BY DEF CreatedHere, CreatedAndGone
<1> DEFINE t == posts[p].then
<1>2. t \in Filters /\ told' \in 0..made /\ made' = made /\ PostsMade' BY <1>1, CreatedOK
<1>3. CASE CreatedHere(p)
  <2>1. /\ FetchFor(t) /\ filter' \in Filters /\ typed' \in Filters \cup {None}
        /\ items' \in Rows \cup {None}
    BY <1>3 DEF CreatedHere, ListInv, ListTypeOK
  <2> QED BY <1>1, <1>2, <2>1, CreatedOK, FetchStep
<1>4. CASE CreatedAndGone(p)
  <2> DEFINE orphans   == [f \in Filters |-> IF fetches[f] = None THEN None
                                             ELSE [fetches[f] EXCEPT !.live = FALSE]]
             shared    == Fetches(t, orphans)
             onSuccess == [shared EXCEPT ![t].live = FALSE]
  <2>1. fetches \in [Filters -> Fetching \cup {None}] BY DEF ListInv, ListTypeOK
  <2>2. \A f \in Filters : fetches[f] # None =>
           /\ [fetches[f] EXCEPT !.live = FALSE] \in Fetching
           /\ ~[fetches[f] EXCEPT !.live = FALSE].live
    BY <2>1 DEF Fetching
  <2>3. /\ orphans \in [Filters -> Fetching \cup {None}]
        /\ \A f \in Filters : orphans[f] # None => ~orphans[f].live
        /\ \A f \in Filters : fetches[f] = None => orphans[f] = None
    BY <2>1, <2>2
  <2>4. fetches' = Fetches(NoFilter, onSuccess) BY <1>4 DEF CreatedAndGone
  <2> HIDE DEF orphans
  <2>5. /\ shared \in [Filters -> Fetching \cup {None}] /\ shared[t] # None
        /\ orphans[t] = None => shared[t].answer = Sent
        /\ \A f \in Filters \ {t} : shared[f] = orphans[f]
    BY <1>2, <2>3, FetchesOne
  <2> HIDE DEF shared
  <2> DEFINE v == [shared[t] EXCEPT !.live = FALSE]
  <2>6. shared[t] \in Fetching BY <1>2, <2>5
  <2>7. v \in Fetching /\ ~v.live /\ v.answer = shared[t].answer BY <2>6 DEF Fetching
  <2>8. onSuccess = [shared EXCEPT ![t] = v] OBVIOUS
  <2> HIDE DEF v, onSuccess
  <2>9. /\ onSuccess \in [Filters -> Fetching \cup {None}]
        /\ \A f \in Filters : onSuccess[f] # None => ~onSuccess[f].live
        /\ \A f \in Filters \ {t} : onSuccess[f] = orphans[f]
        /\ onSuccess[t] = v
    BY <1>2, <2>3, <2>5, <2>7, <2>8
  <2>10. NoFilter \in Filters BY ListAssumption
  <2>11. /\ fetches' \in [Filters -> Fetching \cup {None}]
         /\ fetches'[NoFilter] # None
         /\ onSuccess[NoFilter] = None => fetches'[NoFilter].answer = Sent
         /\ \A f \in Filters \ {NoFilter} : fetches'[f] = onSuccess[f]
         /\ fetches'[NoFilter].live
    BY <2>4, <2>9, <2>10, FetchesOne
  <2>12. ListTypeOK'
    BY <1>1, <1>2, <1>4, <2>10, <2>11, CreatedOK DEF CreatedAndGone, ListInv, ListTypeOK
  <2>13. ASSUME ~crossed' PROVE fetches'[NoFilter].answer = Sent
    <3>1. fetches[NoFilter] = None BY <1>4, <2>13 DEF CreatedAndGone
    <3>2. orphans[NoFilter] = None BY <2>3, <2>10, <3>1
    <3>3. CASE NoFilter = t
      <4>1. onSuccess[NoFilter].answer = Sent BY <2>5, <2>7, <2>9, <3>2, <3>3
      <4>2. onSuccess[NoFilter] # None BY <2>7, <2>9, <3>3, ListAssumption
      <4>3. fetches'[NoFilter] = [onSuccess[NoFilter] EXCEPT !.live = TRUE]
        BY <2>4, <2>9, <2>10, <4>2 DEF Fetches
      <4>4. onSuccess[NoFilter] \in Fetching BY <2>9, <2>10, <4>2
      <4> QED BY <4>1, <4>3, <4>4 DEF Fetching
    <3>4. CASE NoFilter # t BY <2>9, <2>10, <2>11, <3>2, <3>4
    <3> QED BY <3>3, <3>4
  <2>14. \A f \in Filters \ {NoFilter} : ~InFlight(f)' BY <2>9, <2>11 DEF InFlight
  <2>15. InFlight(NoFilter)' /\ filter' = NoFilter BY <1>4, <2>11 DEF InFlight, CreatedAndGone
  <2>16. RowsAnswer' BY <2>10, <2>13, <2>14, <2>15 DEF RowsAnswer
  <2> QED BY <1>2, <2>12, <2>16 DEF ListInv
<1> QED BY <1>3, <1>4

LEMMA StepFilter == ASSUME ListInv, (\E f \in Filters : SetFilterTo(f)) \/ Debounced PROVE ListInv'
<1>1. ASSUME NEW f \in Filters, FetchFor(f), filter' = f, typed' \in {typed, None},
             UNCHANGED <<listPage, items, made, told, isOpen, isSaving, posts>>
      PROVE  ListInv'
  <2>1. PostsMade' BY <1>1 DEF ListInv, PostsMade
  <2> QED BY <1>1, <2>1, FetchStep DEF ListInv, ListTypeOK
<1>2. ASSUME NEW f \in Filters, SetFilterTo(f) PROVE ListInv' BY <1>1, <1>2 DEF SetFilterTo
<1>3. CASE Debounced /\ typed # filter
  <2>1. typed \in Filters BY <1>3 DEF Debounced, ListInv, ListTypeOK
  <2> QED BY <1>1, <1>3, <2>1 DEF Debounced
<1>4. CASE Debounced /\ typed = filter
  <2>1. UNCHANGED <<filter, fault, items, fetches, told, crossed>> BY <1>4 DEF Debounced
  <2>2. RowsAnswer' BY <2>1, RowsStand
  <2>3. ListTypeOK' /\ PostsMade' BY <1>4 DEF Debounced, ListInv, ListTypeOK, PostsMade
  <2> QED BY <2>2, <2>3 DEF ListInv
<1> QED BY <1>2, <1>3, <1>4

LEMMA StepList == ASSUME ListInv, [ListNext]_listVars PROVE ListInv'
<1>1. ASSUME UNCHANGED <<listPage, filter, pending, fault, items, fetches, made, told, crossed>>,
             typed' \in Filters \cup {None}, isOpen' \in BOOLEAN, isSaving' \in BOOLEAN,
             posts' \in [PostSlots -> Posting \cup {None}], PostsMade'
      PROVE  ListInv'
  <2>1. RowsAnswer' BY <1>1, RowsStand
  <2> QED BY <1>1, <2>1 DEF ListInv, ListTypeOK
<1>2. ASSUME UNCHANGED <<made, posts>>
      PROVE  posts' \in [PostSlots -> Posting \cup {None}] /\ PostsMade'
  BY <1>2 DEF ListInv, ListTypeOK, PostsMade
<1>3. ASSUME NEW f \in Filters, TypeSearch(f) PROVE ListInv'
  BY <1>1, <1>2, <1>3 DEF TypeSearch, ListInv, ListTypeOK
<1>4. CASE OpenDialog \/ CloseDialog
  BY <1>1, <1>2, <1>4 DEF OpenDialog, CloseDialog, ListInv, ListTypeOK
<1>5. ASSUME NEW p \in PostSlots, Submit(p) PROVE ListInv'
  <2> DEFINE v == [answer |-> Sent, then |-> filter]
  <2>1. v \in Posting /\ v.answer = Sent BY DEF Posting, ListInv, ListTypeOK
  <2>2. posts' = [posts EXCEPT ![p] = v] BY <1>5 DEF Submit
  <2> HIDE DEF v
  <2>3. /\ posts' \in [PostSlots -> Posting \cup {None}]
        /\ posts'[p] = v /\ \A q \in PostSlots \ {p} : posts'[q] = posts[q]
    BY <2>1, <2>2 DEF ListInv, ListTypeOK
  <2>4. PostsMade' BY <1>5, <2>1, <2>3 DEF Submit, ListInv, PostsMade
  <2> QED BY <1>1, <1>5, <2>3, <2>4 DEF Submit, ListInv, ListTypeOK
<1>6. ASSUME NEW p \in PostSlots, NotCreated(p) PROVE ListInv'
  <2>1. posts' = [posts EXCEPT ![p] = None] BY <1>6 DEF NotCreated
  <2>2. /\ posts' \in [PostSlots -> Posting \cup {None}]
        /\ \A q \in PostSlots : posts'[q] \in {None, posts[q]}
    BY <2>1 DEF ListInv, ListTypeOK
  <2>3. PostsMade' BY <1>6, <2>2 DEF NotCreated, ListInv, PostsMade
  <2> QED BY <1>1, <1>6, <2>2, <2>3 DEF NotCreated, ListInv, ListTypeOK
<1>7. CASE UNCHANGED listVars BY <1>1, <1>2, <1>7 DEF listVars, ListInv, ListTypeOK
<1> QED BY <1>3, <1>4, <1>5, <1>6, <1>7, StepFilter, StepAnswerFetch, StepTakeRows,
           StepServeCreate, StepCreated DEF ListNext

LEMMA InitList == ListInit => ListInv
<1> SUFFICES ASSUME ListInit PROVE ListInv OBVIOUS
<1> DEFINE new == [answer |-> Sent, live |-> TRUE]
<1>0. new \in Fetching /\ new.live /\ new.answer = Sent BY DEF Fetching
<1>1. new \in Fetching /\ new # None /\ new.live /\ new.answer = Sent BY <1>0, ListAssumption
<1>2. fetches = [f \in Filters |-> IF f = NoFilter THEN new ELSE None] BY DEF ListInit
<1> HIDE DEF new
<1>3. /\ fetches \in [Filters -> Fetching \cup {None}]
      /\ fetches[NoFilter] = new /\ \A f \in Filters \ {NoFilter} : fetches[f] = None
  BY <1>1, <1>2, ListAssumption
<1>4. InFlight(NoFilter) BY <1>1, <1>3 DEF InFlight
<1>5. made \in 0..MaxMade /\ told \in 0..made BY ListAssumption DEF ListInit
<1>6. ListTypeOK BY <1>3, <1>5, ListAssumption DEF ListInit, ListTypeOK
<1>7. PostsMade BY DEF ListInit, PostsMade
<1>8. RowsAnswer
  <2>1. filter = NoFilter /\ NoFilter \in Filters BY ListAssumption DEF ListInit
  <2>2. \A f \in Filters \ {NoFilter} : ~InFlight(f) BY <1>3 DEF InFlight
  <2> QED BY <1>1, <1>3, <1>4, <2>1, <2>2 DEF RowsAnswer
<1> QED BY <1>6, <1>7, <1>8 DEF ListInv

LEMMA InvFilterAnswered == ListInv => FilterAnswered
<1> SUFFICES ASSUME ListInv, ListScreen = "rows", \A f \in Filters : ~InFlight(f), ~crossed,
                    fault => listPage = "clients"
             PROVE  items # None /\ items.of = filter /\ items.made >= told
  BY DEF FilterAnswered
<1>1. listPage \in {"leads", "clients", "support"} BY ListAssumption DEF ListInv, ListTypeOK
<1>2. ~fault BY <1>1 DEF ListScreen, LeadsScreen, ClientsScreen, SupportScreen
<1> QED BY <1>2 DEF ListInv, RowsAnswer

LEMMA AlwaysListInv == ListSpec => []ListInv
<1>1. ListInv /\ [ListNext]_listVars => ListInv' BY StepList
<1> QED BY <1>1, InitList, PTL DEF ListSpec

\* The state of the list pages is well formed.
THEOREM ListTypeCorrect == ListSpec => []ListTypeOK
<1>1. ListInv => ListTypeOK BY DEF ListInv
<1> QED BY <1>1, AlwaysListInv, PTL

\* However filters, searches, answers and submissions of the dialog interleave, the rows at rest
\* answer the page's filter and contain every row the user was told of, for any filters.
THEOREM RowsAnswerTheFilter == ListSpec => []FilterAnswered
BY AlwaysListInv, InvFilterAnswered, PTL

-----------------------------------------------------------------------------
(* The dialog that converts a lead.                                        *)

\* The form is on the screen with the accordion, and starts blank; what the dialog keeps is
\* either what the form shows, or nothing, or was typed into a form that has gone.
FormInv == /\ fields # None <=> accordion
           /\ billingData = None => fields \in {None, "blank"}
           /\ ~unseen => billingData \in {None, fields}
           /\ accordion => convertOpen

LEMMA StepForm == ASSUME FormInv, [ConvertNext]_convertVars PROVE FormInv'
<1> USE ConvertAssumption DEF FormInv
<1>1. CASE OpenConvert BY <1>1 DEF OpenConvert
<1>2. CASE ToggleAccordion
  <2>1. CASE accordion
    <3>1. ~accordion' /\ fields' = None /\ convertOpen' /\ billingData' = billingData
      BY <1>2, <2>1 DEF ToggleAccordion
    <3>2. unseen' <=> billingData # None BY <1>2, <2>1 DEF ToggleAccordion, Hidden
    <3> QED BY <3>1, <3>2
  <2>2. CASE ~accordion
    <3>1. accordion' /\ fields' = "blank" /\ convertOpen' /\ UNCHANGED <<billingData, unseen>>
      BY <1>2, <2>2 DEF ToggleAccordion
    <3>2. fields = None /\ fields' # None BY <2>2, <3>1 DEF Contents
    <3> QED BY <3>1, <3>2
  <2> QED BY <2>1, <2>2
<1>3. ASSUME NEW v \in Contents, Type(v) PROVE FormInv' BY <1>3 DEF Type
<1>4. CASE EscapeConvert BY <1>4 DEF EscapeConvert, CloseConvert, Blank
<1>5. CASE CancelConvert BY <1>5 DEF CancelConvert, CloseConvert, Hidden
<1>6. CASE ListAgain BY <1>6 DEF ListAgain, Blank
<1>7. CASE LeadMoves BY <1>7 DEF LeadMoves
<1>8. ASSUME NEW k \in 1..Conversions,
             SubmitConvert(k) \/ Convert(k) \/ Converted(k) \/ NotConverted(k)
      PROVE  FormInv'
  <2>1. CASE SubmitConvert(k) BY <2>1 DEF SubmitConvert
  <2>2. CASE Convert(k)
    <3>1. UNCHANGED <<convertOpen, accordion, fields, billingData, unseen>> BY <2>2 DEF Convert
    <3> QED BY <3>1
  <2>3. CASE Converted(k) BY <2>3 DEF Converted, CloseConvert, Blank
  <2>4. CASE NotConverted(k)
    <3>1. UNCHANGED <<convertOpen, accordion, fields, billingData, unseen>> BY <2>4 DEF NotConverted
    <3> QED BY <3>1
  <2> QED BY <1>8, <2>1, <2>2, <2>3, <2>4
<1>9. CASE UNCHANGED convertVars BY <1>9 DEF convertVars
<1> QED BY <1>1, <1>2, <1>3, <1>4, <1>5, <1>6, <1>7, <1>8, <1>9 DEF ConvertNext

\* Whatever is closed, reopened, refused or marked with errors in between: a conversion sends
\* the profile that is on the screen, unless what was typed is not on the screen any more.
THEOREM SentIsShown == ConvertSpec => []SentAsShown
<1>1. ConvertInit => FormInv BY ConvertAssumption DEF ConvertInit, FormInv
<1>2. FormInv /\ [ConvertNext]_convertVars => FormInv' BY StepForm
<1>3. FormInv => SentAsShown BY DEF FormInv, SentAsShown
<1> QED BY <1>1, <1>2, <1>3, PTL DEF ConvertSpec

\* What a request may become: its answer, or nobody's.
LEMMA ConversionKept ==
    ASSUME NEW c \in Conversion
    PROVE  /\ \A a \in {Sent, Failed, "created", "invalid", "refused"} : [c EXCEPT !.answer = a] \in Conversion
           /\ [c EXCEPT !.live = FALSE] \in Conversion
BY DEF Conversion

LEMMA StepConvertType == ASSUME ConvertTypeOK, [ConvertNext]_convertVars PROVE ConvertTypeOK'
<1> USE DEF ConvertTypeOK
<1>1. CASE OpenConvert BY <1>1 DEF OpenConvert
<1>2. CASE ToggleAccordion BY <1>2 DEF ToggleAccordion, Hidden, Contents
<1>3. ASSUME NEW v \in Contents, Type(v) PROVE ConvertTypeOK' BY <1>3 DEF Type
<1>4. CASE EscapeConvert BY <1>4 DEF EscapeConvert, CloseConvert, Blank
<1>5. CASE CancelConvert BY <1>5 DEF CancelConvert, CloseConvert, Hidden
<1>6. CASE ListAgain
  <2>1. conversions' \in [1..Conversions -> Conversion \cup {None}]
    BY <1>6, ConversionKept DEF ListAgain
  <2>2. listed' \in LeadStatus \cup {None} BY <1>6 DEF ListAgain, LeadStatus
  <2> QED BY <1>6, <2>1, <2>2 DEF ListAgain, Blank
<1>7. CASE LeadMoves
  <2>1. leadStatus' \in {"converted", "disqualified"}
    BY <1>7 DEF LeadMoves, Lead!valid_transitions
  <2> QED BY <1>7, <2>1 DEF LeadMoves
<1>8. ASSUME NEW k \in 1..Conversions, SubmitConvert(k) PROVE ConvertTypeOK'
  <2> DEFINE v == [billing |-> billingData, live |-> TRUE, answer |-> Sent]
  <2>1. v \in Conversion BY DEF Conversion
  <2>2. conversions' = [conversions EXCEPT ![k] = v] BY <1>8 DEF SubmitConvert
  <2> HIDE DEF v
  <2>3. conversions' \in [1..Conversions -> Conversion \cup {None}] BY <2>1, <2>2
  <2> QED BY <1>8, <2>3 DEF SubmitConvert
<1>9. ASSUME NEW k \in 1..Conversions, Convert(k) PROVE ConvertTypeOK'
  <2>1. conversions[k] \in Conversion BY <1>9 DEF Convert
  <2>2. conversions[k].billing \in Contents \cup {None} BY <2>1 DEF Conversion
  <2>3. PICK a \in {Sent, Failed, "created", "invalid", "refused"} :
           conversions' = [conversions EXCEPT ![k].answer = a]
    BY <1>9, <2>2, Zenon DEF Convert, Contents
  <2>4. conversions' = [conversions EXCEPT ![k] = [conversions[k] EXCEPT !.answer = a]] BY <2>3
  <2>5. conversions' \in [1..Conversions -> Conversion \cup {None}] BY <2>1, <2>4, ConversionKept
  <2>6. leadStatus' \in {"qualified", "disqualified", "converted"} BY <1>9 DEF Convert
  <2> QED BY <1>9, <2>5, <2>6 DEF Convert
<1>10. ASSUME NEW k \in 1..Conversions, Converted(k) PROVE ConvertTypeOK'
  BY <1>10 DEF Converted, CloseConvert, Blank
<1>11. ASSUME NEW k \in 1..Conversions, NotConverted(k) PROVE ConvertTypeOK'
  BY <1>11 DEF NotConverted
<1>12. CASE UNCHANGED convertVars BY <1>12 DEF convertVars
<1> QED BY <1>1, <1>2, <1>3, <1>4, <1>5, <1>6, <1>7, <1>8, <1>9, <1>10, <1>11, <1>12 DEF ConvertNext

LEMMA InitConvertType == ConvertInit => ConvertTypeOK
BY DEF ConvertInit, ConvertTypeOK, LeadStatus

\* The state of the conversion dialog is well formed.
THEOREM ConvertTypeCorrect == ConvertSpec => []ConvertTypeOK
<1>1. ConvertTypeOK /\ [ConvertNext]_convertVars => ConvertTypeOK' BY StepConvertType
<1> QED BY <1>1, InitConvertType, PTL DEF ConvertSpec

-----------------------------------------------------------------------------
(* The pages that only load.                                               *)

LEMMA Marks == /\ None # Sent /\ None # Failed /\ Sent # Failed
               /\ \A m \in {None, Sent, Failed} : m \notin {"some", "none"}
BY LoadAssumption

LEMMA Pages == /\ Screens \subseteq {"dashboard", "home", "projects", "diagnostic", "service", "team"}
               /\ Sources = {"clients", "services", "activity", "my client", "my services",
                             "my activity", "my service"}
               /\ \A p \in Screens : Asks[p] \subseteq Sources
               /\ Asks["dashboard"] = {"clients", "services", "activity"}
<1> DEFINE Names == {"dashboard", "home", "projects", "diagnostic", "service", "team"}
           All   == {"clients", "services", "activity", "my client", "my services",
                     "my activity", "my service"}
<1>1. DOMAIN Asks = Names BY DEF Asks
<1>2. Screens \subseteq Names BY <1>1, LoadAssumption
<1>3. /\ Asks["dashboard"] = {"clients", "services", "activity"}
      /\ Asks["home"] = {"my client", "my services", "my activity"}
      /\ Asks["projects"] = {"my services"} /\ Asks["diagnostic"] = {"my services"}
      /\ Asks["service"] = {"my service", "my activity"} /\ Asks["team"] = {}
  BY DEF Asks, DashboardAsks, HomeAsks, ProjectsAsks, DiagnosticAsks, ServiceAsks, TeamAsks
<1>4. Sources = UNION {Asks[p] : p \in Names} BY <1>1 DEF Sources
<1>5. \A p \in Names : Asks[p] \subseteq All BY <1>3
<1>6. Sources \subseteq All BY <1>4, <1>5
<1>7. \A p \in Names : Asks[p] \subseteq Sources BY <1>4
<1>8. All \subseteq Asks["dashboard"] \cup Asks["home"] \cup Asks["service"] BY <1>3
<1>9. All \subseteq Sources BY <1>7, <1>8
<1> QED BY <1>2, <1>3, <1>6, <1>7, <1>9

\* The dashboard stops loading when everything it asked for is answered, and keeps exactly what
\* was; a page of the portal has something only when nothing it asked for failed or is awaited.
LoadInv ==
    /\ at \in Screens /\ loadingAt \in BOOLEAN
    /\ waits \in [Sources -> {None, Sent, Failed, "some", "none"}]
    /\ at = "dashboard" => \A s \in DashboardAsks : waits[s] # None
    /\ at = "dashboard" /\ ~loadingAt =>
         /\ Settles(waits)
         /\ data = Fulfilled(waits)
         /\ Failures(waits) \cap {"clients", "services"} # {} => "clients" \in errors
         /\ "activity" \in Failures(waits) => "activity" \in errors
    /\ at # "dashboard" /\ data # {} =>
         /\ ~loadingAt
         /\ \A s \in Sources : waits[s] # None => waits[s] \in {"some", "none"} /\ s \in data

LEMMA StepLoad == ASSUME LoadInv, [LoadNext]_loadVars PROVE LoadInv'
<1>1. ASSUME NEW p \in Screens, Leave(p) PROVE LoadInv'
  <2>1. at' = p /\ data' = {} /\ loadingAt' = (Asks[p] # {})
    BY <1>1 DEF Leave, Open
  <2>2. waits' = [s \in Sources |-> IF s \in Asks[p] THEN Sent ELSE None] BY <1>1 DEF Leave, Open
  <2>3. p = "dashboard" => loadingAt' /\ \A s \in DashboardAsks : waits'[s] # None
    BY <2>1, <2>2, Pages, Marks DEF DashboardAsks
  <2> QED BY <2>1, <2>2, <2>3 DEF LoadInv
<1>2. ASSUME NEW s \in Sources, NEW a \in {"some", "none", Failed}, Respond(s, a) PROVE LoadInv'
  <2>1. at' = at BY <1>2 DEF Respond
  <2>2. waits' \in [Sources -> {None, Sent, Failed, "some", "none"}]
    BY <1>2, Pages DEF Respond, LoadInv
  <2>3. \A q \in Sources : waits[q] # None => waits'[q] # None
    <3> SUFFICES ASSUME NEW q \in Sources, waits[q] # None PROVE waits'[q] # None OBVIOUS
    <3>1. a # None /\ Sent # None BY Marks
    <3> QED BY <1>2, <3>1, Pages DEF Respond, LoadInv
  <2>4. (\A q \in Sources : waits[q] # Sent) => waits' = waits
    BY <1>2, Pages, Marks DEF Respond, LoadInv
  <2>5. CASE at = "dashboard"
    <3>1. DashboardTakes(waits') BY <1>2, <2>5 DEF Respond
    <3>2. \A q \in DashboardAsks : waits'[q] # None BY <2>3, <2>5, Pages DEF LoadInv, DashboardAsks
    <3>3. CASE Settles(waits')
      <4>1. /\ ~loadingAt' /\ data' = Fulfilled(waits')
            /\ Failures(waits') \cap {"clients", "services"} # {} => "clients" \in errors'
            /\ "activity" \in Failures(waits') => "activity" \in errors'
        BY <3>1, <3>3 DEF DashboardTakes
      <4>2. loadingAt' \in BOOLEAN BY <3>1, <3>3 DEF DashboardTakes
      <4>3. Settles(waits)' /\ Fulfilled(waits)' = Fulfilled(waits') /\ Failures(waits)' = Failures(waits')
        BY <3>3 DEF Settles, Fulfilled, Failures, Asked
      <4> QED BY <2>1, <2>2, <2>5, <3>2, <4>1, <4>2, <4>3 DEF LoadInv
    <3>4. CASE ~Settles(waits')
      <4>1. UNCHANGED <<loadingAt, data, errors>> BY <3>1, <3>4 DEF DashboardTakes
      <4>2. loadingAt
        <5> SUFFICES ASSUME ~loadingAt PROVE FALSE OBVIOUS
        <5>1. Settles(waits) BY <2>5 DEF LoadInv
        <5>2. waits' = waits BY <5>1, <2>4 DEF Settles
        <5> QED BY <5>1, <5>2, <3>4 DEF Settles
      <4> QED BY <2>1, <2>2, <2>5, <3>2, <4>1, <4>2 DEF LoadInv
    <3> QED BY <3>3, <3>4
  <2>6. CASE at # "dashboard"
    <3>1. PortalTakes(waits') BY <1>2, <2>6 DEF Respond
    <3>2. CASE loadingAt /\ (Failures(waits') # {} \/ Settles(waits'))
      <4>1. loadingAt' = FALSE /\ data' = IF Failures(waits') = {} THEN Asked(waits') ELSE {}
        BY <3>1, <3>2 DEF PortalTakes
      <4>2. ASSUME data' # {}, NEW q \in Sources, waits'[q] # None
            PROVE  waits'[q] \in {"some", "none"} /\ q \in data'
        <5>1. Failures(waits') = {} /\ Settles(waits') /\ data' = Asked(waits') BY <3>2, <4>1, <4>2
        <5> QED BY <5>1, <4>2, <2>2 DEF Failures, Settles, Asked
      <4> QED BY <2>1, <2>2, <2>6, <4>1, <4>2 DEF LoadInv
    <3>3. CASE ~(loadingAt /\ (Failures(waits') # {} \/ Settles(waits')))
      <4>1. UNCHANGED <<loadingAt, data, errors>> BY <3>1, <3>3 DEF PortalTakes
      <4>2. data # {} => \A q \in Sources : waits[q] # Sent BY <2>6, Marks DEF LoadInv
      <4>3. data # {} => waits' = waits BY <4>2, <2>4
      <4> QED BY <2>1, <2>2, <2>6, <4>1, <4>3 DEF LoadInv
    <3> QED BY <3>2, <3>3
  <2> QED BY <2>5, <2>6
<1>3. CASE UNCHANGED loadVars
  BY <1>3 DEF loadVars, LoadInv, Settles, Fulfilled, Failures, Asked
<1> QED BY <1>1, <1>2, <1>3 DEF LoadNext, Response

LEMMA InitLoad == LoadInit => LoadInv
<1> SUFFICES ASSUME LoadInit PROVE LoadInv OBVIOUS
<1>1. waits \in [Sources -> {None, Sent, Failed, "some", "none"}] BY DEF LoadInit
<1>2. at = "dashboard" => loadingAt /\ \A s \in DashboardAsks : waits[s] # None
  BY Pages, Marks DEF LoadInit, DashboardAsks
<1> QED BY <1>1, <1>2 DEF LoadInit, LoadInv

LEMMA AlwaysLoadInv == LoadSpec => []LoadInv
<1>1. LoadInv /\ [LoadNext]_loadVars => LoadInv' BY StepLoad
<1> QED BY InitLoad, <1>1, PTL DEF LoadSpec

LEMMA InvHonest == LoadInv => DashboardHonest
<1> SUFFICES ASSUME LoadInv, at = "dashboard" PROVE DashboardHonest BY DEF DashboardHonest
<1>1. DashboardAsks \subseteq Sources /\ \A s \in DashboardAsks : waits[s] # None
  BY Pages DEF LoadInv, DashboardAsks
<1>2. ASSUME Figures = "figures" PROVE {waits["clients"], waits["services"]} \subseteq {"some", "none"}
  <2>1. ~loadingAt /\ "clients" \notin errors BY <1>2 DEF Figures, LoadInv
  <2>2. Failures(waits) \cap {"clients", "services"} = {} /\ Settles(waits) BY <2>1 DEF LoadInv
  <2> QED BY <2>2, <1>1 DEF Failures, Settles, LoadInv, DashboardAsks
<1>3. ASSUME Feed = "empty" PROVE waits["activity"] = "none"
  <2>1. /\ ~loadingAt /\ "activity" \notin errors
        /\ ~("activity" \in data /\ waits["activity"] = "some")
    BY <1>3 DEF Feed, LoadInv
  <2>2. "activity" \notin Failures(waits) /\ Settles(waits) /\ data = Fulfilled(waits)
    BY <2>1 DEF LoadInv
  <2>3. "activity" \in Sources /\ waits["activity"] # None BY <1>1 DEF DashboardAsks
  <2> QED BY <2>1, <2>2, <2>3 DEF Fulfilled, Failures, Asked, Settles, LoadInv
<1> QED BY <1>2, <1>3 DEF DashboardHonest

LEMMA InvAllOrNothing == LoadInv => PortalAllOrNothing
<1> SUFFICES ASSUME LoadInv, at # "dashboard", PortalScreen \cap Sources # {}
             PROVE  \A s \in Sources : waits[s] # None => waits[s] \in {"some", "none"} /\ s \in data
  BY DEF PortalAllOrNothing
<1>1. "spinner" \notin Sources /\ "no diagnostic" \notin Sources /\ "nobody" \notin Sources BY Pages
<1>2. data # {}
  BY <1>1 DEF PortalScreen, HomeScreen, ProjectsScreen, DiagnosticScreen, ServiceScreen,
              TeamScreen, Has
<1> QED BY <1>2 DEF LoadInv

\* Figures need both lists, and an empty feed an answer that says so, whichever pages are visited.
THEOREM DashboardIsHonest == LoadSpec => []DashboardHonest
BY InvHonest, AlwaysLoadInv, PTL

\* A page of the portal never shows some of what it asked for beside nothing for the rest.
THEOREM PortalShowsAllOrNothing == LoadSpec => []PortalAllOrNothing
BY InvAllOrNothing, AlwaysLoadInv, PTL

\* What LoadInv leaves out of the types.
LEMMA StepLoadType == ASSUME LoadInv, LoadTypeOK, [LoadNext]_loadVars PROVE LoadTypeOK'
<1>1. /\ at' \in Screens /\ loadingAt' \in BOOLEAN
      /\ waits' \in [Sources -> {None, Sent, Failed, "some", "none"}]
  BY StepLoad DEF LoadInv
<1>2. ASSUME NEW p \in Screens, Leave(p) PROVE LoadTypeOK'
  BY <1>1, <1>2, Pages DEF Leave, Open, LoadTypeOK
<1>3. ASSUME NEW s \in Sources, NEW a \in {"some", "none", Failed}, Respond(s, a) PROVE LoadTypeOK'
  <2>1. wire' \subseteq Sources BY <1>3, Pages DEF Respond, LoadTypeOK
  <2>2. data' \subseteq Sources /\ errors' \subseteq {"clients", "activity"}
    <3>1. CASE at = "dashboard" /\ DashboardTakes(waits')
      BY <3>1 DEF DashboardTakes, Fulfilled, Asked, LoadTypeOK
    <3>2. CASE at # "dashboard" /\ PortalTakes(waits')
      BY <3>2 DEF PortalTakes, Asked, LoadTypeOK
    <3> QED BY <1>3, <3>1, <3>2 DEF Respond
  <2>3. behind' \in BOOLEAN BY <1>3 DEF Respond
  <2> QED BY <1>1, <2>1, <2>2, <2>3 DEF LoadTypeOK
<1>4. CASE UNCHANGED loadVars BY <1>4 DEF loadVars, LoadTypeOK
<1> QED BY <1>2, <1>3, <1>4 DEF LoadNext, Response

LEMMA InitLoadType == LoadInit => LoadTypeOK
BY InitLoad, Pages DEF LoadInv, LoadInit, LoadTypeOK

\* The state of the pages that only load is well formed.
THEOREM LoadTypeCorrect == LoadSpec => []LoadTypeOK
<1>1. LoadInv /\ LoadTypeOK /\ [LoadNext]_loadVars => LoadTypeOK' BY StepLoadType
<1> QED BY <1>1, InitLoadType, AlwaysLoadInv, PTL DEF LoadSpec

-----------------------------------------------------------------------------
(* The pages of one row.                                                   *)

LEMMA KindsOK == Kinds0 \subseteq {"lead", "service", "client"}
BY DetailAssumption DEF PartsOf

LEMMA MainsOK == ASSUME NEW k \in Kinds0 PROVE MainOf[k] \subseteq States /\ FirstMain[k] \in MainOf[k]
BY KindsOK, DetailAssumption DEF MainOf, States

\* The backend's machines stay within the statuses of their rows.
LEMMA MachineCloses ==
    ASSUME kind \in Kinds0, NEW s \in MainOf[kind]
    PROVE  BackendMachine[s] \subseteq MainOf[kind]
<1>1. CASE kind = "lead"
  BY <1>1 DEF MainOf, LeadStatus, BackendMachine, Lead!valid_transitions
<1>2. CASE kind = "service"
  BY <1>2 DEF MainOf, ServiceState, BackendMachine, Engagement!ServiceStateMachine
<1>3. CASE kind = "client"
  BY <1>3 DEF MainOf, ClientStage, BackendMachine, Engagement!ClientStageMachine
<1> QED BY <1>1, <1>2, <1>3, KindsOK

\* What the pages offer and the backend does not allow is what the two maps differ in.
LEMMA MachinesDiffer ==
    ASSUME kind \in Kinds0, NEW s \in MainOf[kind], NEW t \in PanelMachine[s] \ BackendMachine[s]
    PROVE  <<s, t>> \in Differ
<1>1. kind # "lead"
  BY DEF MainOf, LeadStatus, PanelMachine, BackendMachine, VALID_TRANSITIONS, Lead!valid_transitions
<1>2. kind # "client"
  BY DEF MainOf, ClientStage, PanelMachine, BackendMachine, VALID_CLIENT_STAGE_TRANSITIONS,
         Engagement!ClientStageMachine
<1>3. CASE kind = "service"
  <2>1. s \in ServiceState BY <1>3 DEF MainOf
  <2>2. t \in VALID_SERVICE_STATE_TRANSITIONS[s] /\ t \notin Engagement!ServiceStateMachine[s]
    BY <1>3 DEF PanelMachine, BackendMachine
  <2> QED BY <2>1, <2>2 DEF ServiceState, VALID_SERVICE_STATE_TRANSITIONS,
                            Engagement!ServiceStateMachine, Differ
<1> QED BY <1>1, <1>2, <1>3, KindsOK

\* What a page takes of a row is a row: of a lead all of it, of a move the status.
LEMMA TakenOK ==
    ASSUME kind \in Kinds0, NEW r \in Row, NEW ps \in SUBSET Part
    PROVE  /\ Taken(r, ps) \in Row
           /\ kind = "lead" => Taken(r, ps) = r
           /\ ps = {} => Taken(r, ps).main = r.main
BY MainsOK DEF Taken, Row

-----------------------------------------------------------------------------
(* The invariant of the detail pages.                                      *)

MovedHere(m) == patches[m] # None /\ patches[m].answer = "moved"
AtMostOnePatch == \A m, n \in Patches : patches[m] # None /\ patches[n] # None => m = n

\* A page that fetches shows a skeleton; it asks only for parts of its own; a move that was made
\* has a row in its answer.
Pending0 == /\ get # None <=> skeleton
            /\ \A p \in Part : edits[p] # None => p \in PartsOf[kind]
            /\ \A m \in Patches : MovedHere(m) => patches[m].updated # None

\* What a move in flight knows of the row.
PatchKnows(m) == patches[m] # None =>
    /\ patches[m].from \in MainOf[kind]
    /\ patches[m].answer = Sent => patches[m].from = row.main
    /\ patches[m].answer = "refused" => patches[m].to \notin BackendMachine[patches[m].from]
    /\ patches[m].answer = "moved" => /\ patches[m].updated.main = row.main
                                      /\ kind = "lead" => patches[m].updated = row

\* Unless upset: a fetch has nothing beside it; one move is in flight, and none of a lead beside
\* an edit, whose answer is the row; and the copy with the answers in flight is the row.
Agreed == ~upset =>
    /\ AtMostOnePatch
    /\ get # None => ~AnyPatch /\ ~AnyEdit /\ get \in {row, Sent, Failed}
    /\ kind = "lead" => ~(AnyPatch /\ AnyEdit)
    /\ \A m \in Patches : PatchKnows(m)
    /\ kind = "lead" => \A p \in Part : edits[p] \in Row => edits[p] = row
    /\ get = None /\ copy # None =>
         /\ (\A m \in Patches : ~MovedHere(m)) => copy.main = row.main
         /\ \A p \in Part : p \in row.parts <=> p \in copy.parts \/ edits[p] \in Row

DetailInv == DetailTypeOK /\ Pending0 /\ Agreed

LEMMA RowMarks == /\ None \notin Row /\ Sent \notin Row /\ Failed \notin Row
                  /\ None # Sent /\ None # Failed /\ Sent # Failed
                  /\ Sent \notin {"moved", "refused"} /\ Failed \notin {"moved", "refused"}
BY DetailAssumption, MarksAssumption

\* What touches nothing that was fetched, asked or answered.
LEMMA DetailStands ==
    ASSUME DetailInv, UNCHANGED <<kind, row, copy, skeleton, get, patches, edits, upset>>
    PROVE  Pending0' /\ Agreed'
<1>1. Pending0' BY DEF DetailInv, Pending0, MovedHere
<1>2. \A m \in Patches : PatchKnows(m)' <=> PatchKnows(m) BY DEF PatchKnows, BackendMachine
<1>3. Agreed' BY <1>2 DEF DetailInv, Agreed, AtMostOnePatch, AnyPatch, AnyEdit, MovedHere
<1> QED BY <1>1, <1>3

LEMMA StepRow == ASSUME DetailInv, AnswerRow \/ TakeRow \/ TakeNoRow PROVE DetailInv'
<1> USE RowMarks
<1>0. UNCHANGED <<kind, row, patches, edits, dialog, asked>> BY DEF AnswerRow, TakeRow, TakeNoRow
<1>1. /\ \A m \in Patches : PatchKnows(m)' <=> PatchKnows(m)
      /\ \A m \in Patches : MovedHere(m)' <=> MovedHere(m)
      /\ AtMostOnePatch' <=> AtMostOnePatch
      /\ AnyPatch' <=> AnyPatch
      /\ AnyEdit' <=> AnyEdit
  BY <1>0 DEF PatchKnows, BackendMachine, MovedHere, AtMostOnePatch, AnyPatch, AnyEdit
<1>2. CASE AnswerRow
  <2>1. DetailTypeOK' BY <1>2 DEF AnswerRow, DetailInv, DetailTypeOK
  <2>2. get # None /\ get' # None /\ get' \in {row, Failed}
    BY <1>2 DEF AnswerRow, DetailInv, DetailTypeOK
  <2>3. Pending0' BY <1>0, <1>1, <1>2, <2>2 DEF AnswerRow, DetailInv, Pending0
  <2>4. Agreed' BY <1>0, <1>1, <1>2, <2>2 DEF AnswerRow, DetailInv, Agreed
  <2> QED BY <2>1, <2>3, <2>4 DEF DetailInv
<1>3. CASE TakeRow
  <2>1. DetailTypeOK' BY <1>3 DEF TakeRow, DetailInv, DetailTypeOK
  <2>2. Pending0' BY <1>0, <1>1, <1>3 DEF TakeRow, DetailInv, Pending0
  <2>3. ~upset' => copy' = row' /\ ~AnyPatch /\ ~AnyEdit
    BY <1>0, <1>3 DEF TakeRow, DetailInv, Agreed
  <2>4. ~upset' => \A p \in Part : edits'[p] = None BY <1>0, <2>3 DEF AnyEdit
  <2>5. Agreed' BY <1>0, <1>1, <1>3, <2>3, <2>4 DEF TakeRow, DetailInv, Agreed
  <2> QED BY <2>1, <2>2, <2>5 DEF DetailInv
<1>4. CASE TakeNoRow
  <2>1. DetailTypeOK' BY <1>4 DEF TakeNoRow, DetailInv, DetailTypeOK
  <2>2. Pending0' BY <1>0, <1>1, <1>4 DEF TakeNoRow, DetailInv, Pending0
  <2>3. Agreed' BY <1>4 DEF TakeNoRow, Agreed
  <2> QED BY <2>1, <2>2, <2>3 DEF DetailInv
<1> QED BY <1>2, <1>3, <1>4

LEMMA StepDialog ==
    ASSUME DetailInv, OpenMove \/ (\E to \in States : Choose(to)) \/ EscapeMove \/ CancelMove
    PROVE  DetailInv'
<1>1. UNCHANGED <<kind, row, copy, skeleton, get, patches, edits, asked, upset>>
  BY DEF OpenMove, Choose, EscapeMove, CancelMove
<1>2. dialog' \in [open : BOOLEAN, target : States \cup {None}, allowed : {None} \cup SUBSET States]
  <2> USE DEF DetailInv, DetailTypeOK
  <2>1. CASE OpenMove BY <2>1 DEF OpenMove
  <2>2. ASSUME NEW to \in States, Choose(to) PROVE dialog' \in [open : BOOLEAN, target : States \cup {None},
                                                             allowed : {None} \cup SUBSET States]
    BY <2>2 DEF Choose
  <2>3. CASE EscapeMove BY <2>3 DEF EscapeMove, Closed
  <2>4. CASE CancelMove BY <2>4 DEF CancelMove
  <2> QED BY <2>1, <2>2, <2>3, <2>4
<1>3. DetailTypeOK' BY <1>1, <1>2 DEF DetailInv, DetailTypeOK
<1> QED BY <1>1, <1>3, DetailStands DEF DetailInv

\* One PATCH replaced by another, or by none.
LEMMA PatchPut ==
    ASSUME DetailTypeOK, NEW m \in Patches, NEW c \in Patch \cup {None},
           patches' = [patches EXCEPT ![m] = c]
    PROVE  /\ patches' \in [Patches -> Patch \cup {None}]
           /\ patches'[m] = c /\ \A n \in Patches \ {m} : patches'[n] = patches[n]
BY DEF DetailTypeOK

LEMMA StepAsk ==
    ASSUME DetailInv, NEW m \in Patches, NEW to \in States, Ask(m, to) PROVE DetailInv'
<1> USE RowMarks
<1> DEFINE c == [from |-> copy.main, to |-> to, live |-> TRUE, answer |-> Sent, updated |-> None,
                 allowed |-> {}]
<1>1. UNCHANGED <<kind, row, copy, skeleton, get, edits, dialog>> BY DEF Ask
<1>2. copy # None /\ get = None /\ copy \in Row /\ copy.main \in States
  BY DEF Ask, Shown, DetailInv, Pending0, DetailTypeOK, Row
<1>3. c \in Patch /\ c.from = copy.main /\ c.answer = Sent BY <1>2 DEF Patch
<1>4. c # None BY <1>3, DetailAssumption
<1>5. patches' = [patches EXCEPT ![m] = c] BY DEF Ask
<1> HIDE DEF c
<1>6. /\ patches' \in [Patches -> Patch \cup {None}] /\ patches'[m] = c
      /\ \A n \in Patches \ {m} : patches'[n] = patches[n]
  BY <1>3, <1>5, PatchPut DEF DetailInv
<1>7. asked' \in 0..Attempts BY DetailAssumption DEF Ask, DetailInv, DetailTypeOK
<1>8. upset' = (upset \/ AnyPatch \/ (kind = "lead" /\ AnyEdit)) BY DEF Ask
<1>9. DetailTypeOK' BY <1>1, <1>6, <1>7, <1>8 DEF DetailInv, DetailTypeOK
<1>10. \A n \in Patches : MovedHere(n)' <=> n # m /\ MovedHere(n) BY <1>3, <1>4, <1>6 DEF MovedHere
<1>11. Pending0' BY <1>1, <1>6, <1>10 DEF DetailInv, Pending0
<1>12. ASSUME ~upset' PROVE Agreed'
  <2>1. ~upset /\ ~AnyPatch /\ (kind = "lead" => ~AnyEdit) BY <1>8, <1>12
  <2>2. \A n \in Patches : patches[n] = None BY <2>1 DEF AnyPatch
  <2>3. AtMostOnePatch' BY <1>6, <2>2 DEF AtMostOnePatch
  <2>4. AnyEdit' <=> AnyEdit BY <1>1 DEF AnyEdit
  <2>5. copy.main = row.main BY <1>2, <2>1, <2>2 DEF DetailInv, Agreed, MovedHere
  <2>6. row.main \in MainOf[kind] BY DEF DetailInv, DetailTypeOK
  <2>7. PatchKnows(m)' BY <1>1, <1>3, <1>6, <2>5, <2>6 DEF PatchKnows
  <2>8. \A n \in Patches \ {m} : PatchKnows(n)' BY <1>6, <2>2 DEF PatchKnows
  <2> QED BY <1>1, <1>2, <2>1, <2>3, <2>4, <2>5, <2>7, <2>8 DEF DetailInv, Agreed
<1> QED BY <1>9, <1>11, <1>12 DEF DetailInv, Agreed

\* An answer of the API changes the answer of one PATCH, and what comes with it.
LEMMA PatchAnswered ==
    ASSUME NEW c \in Patch, NEW r \in Row, NEW all \in SUBSET States
    PROVE  /\ [c EXCEPT !.answer = "moved", !.updated = r] \in Patch
           /\ [c EXCEPT !.answer = "refused", !.allowed = all] \in Patch
           /\ [c EXCEPT !.answer = Failed] \in Patch
BY DEF Patch

\* A PATCH gets its answer: what it asked for stands, and what it did is in the answer or, when
\* nothing can be said any more, upset.
LEMMA MoveServed ==
    ASSUME DetailInv, NEW m \in Patches, patches[m] # None, patches[m].answer = Sent,
           NEW c \in Patch, c.from = patches[m].from, c.answer # Sent,
           patches' = [patches EXCEPT ![m] = c],
           row' \in Row, row'.main \in MainOf[kind], row'.parts = row.parts,
           UNCHANGED <<kind, copy, skeleton, get, edits, dialog, asked>>, upset' \in BOOLEAN,
           c.answer = "moved" => c.updated \in Row,
           ~upset' => /\ ~upset
                      /\ c.answer = "refused" => c.to \notin BackendMachine[c.from]
                      /\ c.answer = "moved" => /\ c.updated.main = row'.main
                                               /\ kind = "lead" => c.updated = row'
                      /\ c.answer # "moved" => row' = row
    PROVE  DetailInv'
<1> USE RowMarks
<1>1. /\ patches' \in [Patches -> Patch \cup {None}] /\ patches'[m] = c
      /\ \A n \in Patches \ {m} : patches'[n] = patches[n]
  BY PatchPut DEF DetailInv
<1>2. c # None BY DetailAssumption
<1>3. DetailTypeOK' BY <1>1 DEF DetailInv, DetailTypeOK
<1>4. Pending0' BY <1>1, <1>2 DEF DetailInv, Pending0, MovedHere
<1>5. ASSUME ~upset' PROVE Agreed'
  <2>1. ~upset /\ AtMostOnePatch /\ AnyPatch BY <1>5 DEF DetailInv, Agreed, AnyPatch
  <2>2. get = None /\ (kind = "lead" => ~AnyEdit) BY <2>1 DEF DetailInv, Agreed
  <2>3. \A n \in Patches \ {m} : patches'[n] = None BY <1>1, <2>1 DEF AtMostOnePatch
  <2>4. AtMostOnePatch' BY <2>3 DEF AtMostOnePatch
  <2>5. AnyEdit' <=> AnyEdit BY DEF AnyEdit
  <2>6. PatchKnows(m) BY <2>1 DEF DetailInv, Agreed
  <2>7. PatchKnows(m)'
    <3>1. c.from \in MainOf[kind] BY <2>6 DEF PatchKnows
    <3>2. BackendMachine' = BackendMachine BY DEF BackendMachine
    <3> QED BY <1>1, <1>5, <3>1, <3>2 DEF PatchKnows
  <2>8. \A n \in Patches : PatchKnows(n)' BY <2>3, <2>7 DEF PatchKnows
  <2>9. MovedHere(m)' <=> c.answer = "moved" BY <1>1, <1>2 DEF MovedHere
  <2>10. ASSUME copy # None PROVE /\ (\A n \in Patches : ~MovedHere(n)') => copy.main = row'.main
                                  /\ \A p \in Part : p \in row.parts <=> p \in copy.parts \/ edits[p] \in Row
    <3>1. \A n \in Patches : ~MovedHere(n)
      BY <2>1 DEF AtMostOnePatch, MovedHere
    <3> QED BY <1>5, <2>1, <2>2, <2>9, <2>10, <3>1 DEF DetailInv, Agreed
  <2>11. kind = "lead" => \A p \in Part : edits[p] = None BY <2>2 DEF AnyEdit
  <2> QED BY <2>2, <2>4, <2>5, <2>8, <2>10, <2>11 DEF Agreed
<1> QED BY <1>3, <1>4, <1>5 DEF DetailInv, Agreed

LEMMA StepServeMove == ASSUME DetailInv, NEW m \in Patches, ServeMove(m) PROVE DetailInv'
<1> USE RowMarks
<1> DEFINE p0 == patches[m]  to == p0.to
<1>1. /\ p0 \in Patch /\ p0 # None /\ p0.answer = Sent /\ to \in States
      /\ UNCHANGED <<kind, copy, skeleton, get, edits, dialog, asked>>
  BY DEF ServeMove, DetailInv, DetailTypeOK, Patch
<1>2. kind \in Kinds0 /\ row \in Row /\ row.main \in MainOf[kind] /\ upset \in BOOLEAN
  BY DEF DetailInv, DetailTypeOK
<1>3. BackendMachine[row.main] \subseteq MainOf[kind] /\ MainOf[kind] \subseteq States
  BY <1>2, MachineCloses, MainsOK
<1> DEFINE lost == [p0 EXCEPT !.answer = Failed]
<1>4. lost \in Patch /\ lost.from = p0.from /\ lost.answer = Failed BY <1>1, PatchAnswered DEF Patch
<1>5. ASSUME to \in BackendMachine[row.main], row' = [row EXCEPT !.main = to],
             \/ /\ patches' = [patches EXCEPT ![m].answer = "moved", ![m].updated = Taken(row', {})]
                /\ UNCHANGED upset
             \/ patches' = [patches EXCEPT ![m].answer = Failed] /\ upset' = TRUE
      PROVE  DetailInv'
  <2>1. row' \in Row /\ row'.main = to /\ row'.parts = row.parts BY <1>1, <1>2, <1>5 DEF Row
  <2>2. row'.main \in MainOf[kind] BY <1>3, <1>5, <2>1
  <2>3. ASSUME patches' = [patches EXCEPT ![m].answer = "moved", ![m].updated = Taken(row', {})],
               UNCHANGED upset
        PROVE  DetailInv'
    <3> DEFINE r == Taken(row', {})
               c == [p0 EXCEPT !.answer = "moved", !.updated = r]
    <3>1. r \in Row /\ r.main = row'.main /\ (kind = "lead" => r = row')
      BY <1>2, <2>1, TakenOK
    <3> HIDE DEF r
    <3>2. c \in Patch /\ c.from = p0.from /\ c.answer = "moved" /\ c.updated = r
      BY <1>1, <3>1, PatchAnswered DEF Patch
    <3>3. patches' = [patches EXCEPT ![m] = c] BY <2>3 DEF r
    <3> HIDE DEF c
    <3>4. c.answer # Sent /\ c.answer # "refused" BY <3>2, DetailAssumption
    <3>5. c.updated.main = row'.main /\ (kind = "lead" => c.updated = row') /\ c.updated \in Row
      BY <3>1, <3>2
    <3>6. upset' \in BOOLEAN /\ (~upset' => ~upset) BY <1>2, <2>3
    <3> QED BY <1>1, <2>1, <2>2, <3>2, <3>3, <3>4, <3>5, <3>6, MoveServed
  <2>4. ASSUME patches' = [patches EXCEPT ![m].answer = Failed], upset' = TRUE PROVE DetailInv'
    <3>1. patches' = [patches EXCEPT ![m] = lost] BY <2>4
    <3> HIDE DEF lost
    <3> QED BY <1>1, <1>4, <2>1, <2>2, <2>4, <3>1, MoveServed
  <2> QED BY <1>5, <2>3, <2>4
<1>6. ASSUME to \notin BackendMachine[row.main], UNCHANGED <<row, upset>>,
             patches' = [patches EXCEPT ![m].answer = "refused", ![m].allowed = BackendMachine[row.main]]
      PROVE  DetailInv'
  <2> DEFINE all == BackendMachine[row.main]
             c   == [p0 EXCEPT !.answer = "refused", !.allowed = all]
  <2>1. all \in SUBSET States BY <1>3
  <2>2. to \notin all BY <1>6
  <2>3. patches' = [patches EXCEPT ![m] = c] BY <1>6
  <2> HIDE DEF all
  <2>4. c \in Patch /\ c.from = p0.from /\ c.to = to /\ c.answer = "refused"
    BY <1>1, <2>1, PatchAnswered DEF Patch
  <2> HIDE DEF c
  <2>5. ~upset => c.from = row.main BY <1>1, <2>4 DEF DetailInv, Agreed, PatchKnows
  <2>6. ~upset => c.to \notin BackendMachine[c.from] BY <2>2, <2>4, <2>5 DEF all
  <2>7. c.answer # Sent /\ c.answer # "moved" BY <2>4, DetailAssumption
  <2>8. row' \in Row /\ row'.main \in MainOf[kind] /\ row'.parts = row.parts BY <1>2, <1>6
  <2>9. upset' \in BOOLEAN /\ (~upset' => ~upset /\ row' = row) BY <1>2, <1>6
  <2> QED BY <1>1, <2>3, <2>4, <2>6, <2>7, <2>8, <2>9, MoveServed
<1>7. ASSUME patches' = [patches EXCEPT ![m].answer = Failed], UNCHANGED <<row, upset>> PROVE DetailInv'
  <2>1. patches' = [patches EXCEPT ![m] = lost] BY <1>7
  <2> HIDE DEF lost
  <2> QED BY <1>1, <1>2, <1>4, <1>7, <2>1, MoveServed
<1> QED BY <1>5, <1>6, <1>7, Zenon DEF ServeMove

LEMMA StepMoveAnswered == ASSUME DetailInv, NEW m \in Patches, Moved(m) \/ NotMoved(m) PROVE DetailInv'
<1> USE RowMarks
<1> DEFINE p0 == patches[m]
<1>1. p0 \in Patch /\ p0 # None BY DEF Moved, NotMoved, DetailInv, DetailTypeOK
<1>2. patches' = [patches EXCEPT ![m] = None] /\ UNCHANGED <<kind, row, skeleton, get, edits, asked, upset>>
  BY DEF Moved, NotMoved
<1>3. /\ patches' \in [Patches -> Patch \cup {None}] /\ patches'[m] = None
      /\ \A n \in Patches \ {m} : patches'[n] = patches[n]
  BY <1>2, PatchPut DEF DetailInv
<1>4. \A n \in Patches : (MovedHere(n)' => MovedHere(n)) /\ (patches'[n] # None => patches[n] # None)
  BY <1>3 DEF MovedHere
<1>5. Pending0'
  <2>1. \A n \in Patches : MovedHere(n)' => MovedHere(n) /\ patches'[n].updated = patches[n].updated
    BY <1>3, <1>4 DEF MovedHere
  <2> QED BY <1>2, <2>1 DEF DetailInv, Pending0
<1>6. AnyEdit' <=> AnyEdit BY <1>2 DEF AnyEdit
<1>7. \A n \in Patches : PatchKnows(n) => PatchKnows(n)'
  <2>1. BackendMachine' = BackendMachine BY <1>2 DEF BackendMachine
  <2> QED BY <1>2, <1>3, <2>1 DEF PatchKnows
<1>8. AtMostOnePatch => AtMostOnePatch' BY <1>4 DEF AtMostOnePatch
<1>9. CASE Moved(m)
  <2>1. p0.answer = "moved" /\ p0.updated \in Row
    BY <1>1, <1>9 DEF Moved, DetailInv, Pending0, MovedHere, Patch
  <2>2. /\ kind = "lead" => copy' = p0.updated
        /\ kind # "lead" /\ copy = None => copy' = None
        /\ kind # "lead" /\ copy # None => copy' = [copy EXCEPT !.main = p0.updated.main]
    BY <1>9 DEF Moved
  <2>3. kind # "lead" /\ copy # None =>
           copy' \in Row /\ copy'.main = p0.updated.main /\ copy'.parts = copy.parts
    BY <2>1, <2>2 DEF DetailInv, DetailTypeOK, Row
  <2>4. copy' \in Row \cup {None} BY <2>1, <2>2, <2>3
  <2>5. dialog' \in [open : BOOLEAN, target : States \cup {None}, allowed : {None} \cup SUBSET States]
    BY <1>9 DEF Moved, DetailInv, DetailTypeOK
  <2>6. DetailTypeOK' BY <1>2, <1>3, <2>4, <2>5 DEF DetailInv, DetailTypeOK
  <2>7. ASSUME ~upset PROVE Agreed'
    <3>1. get = None /\ (kind = "lead" => ~AnyEdit) /\ PatchKnows(m) /\ AtMostOnePatch
      BY <1>1, <2>7 DEF DetailInv, Agreed, AnyPatch
    <3>2. p0.updated.main = row.main /\ (kind = "lead" => p0.updated = row)
      BY <1>1, <2>1, <3>1 DEF PatchKnows
    <3>3. kind = "lead" => \A p \in Part : edits[p] = None BY <3>1 DEF AnyEdit
    <3>4. ASSUME copy' # None
          PROVE  copy'.main = row.main /\ \A p \in Part : p \in row.parts <=> p \in copy'.parts \/ edits[p] \in Row
      <4>1. CASE kind = "lead" BY <2>2, <3>2, <3>3, <4>1
      <4>2. CASE kind # "lead"
        <5>1. copy # None BY <2>2, <3>4, <4>2
        <5>2. \A p \in Part : p \in row.parts <=> p \in copy.parts \/ edits[p] \in Row
          BY <2>7, <3>1, <5>1 DEF DetailInv, Agreed
        <5> QED BY <2>3, <3>2, <4>2, <5>1, <5>2
      <4> QED BY <4>1, <4>2
    <3> QED BY <1>2, <1>6, <1>7, <1>8, <2>7, <3>1, <3>3, <3>4 DEF DetailInv, Agreed
  <2> QED BY <1>2, <1>5, <2>6, <2>7 DEF DetailInv, Agreed
<1>10. CASE NotMoved(m)
  <2>1. copy' = copy /\ p0.answer # "moved" BY <1>10 DEF NotMoved, Refused
  <2>2. dialog' \in [open : BOOLEAN, target : States \cup {None}, allowed : {None} \cup SUBSET States]
    <3>1. p0.allowed \in SUBSET States BY <1>1 DEF Patch
    <3>2. dialog \in [open : BOOLEAN, target : States \cup {None}, allowed : {None} \cup SUBSET States]
      BY DEF DetailInv, DetailTypeOK
    <3>3. \/ dialog' = dialog
          \/ \E t \in {dialog.target, None} : dialog' = [dialog EXCEPT !.allowed = p0.allowed, !.target = t]
      BY <1>10 DEF NotMoved
    <3> QED BY <3>1, <3>2, <3>3
  <2>3. DetailTypeOK' BY <1>2, <1>3, <2>1, <2>2 DEF DetailInv, DetailTypeOK
  <2>4. \A n \in Patches : MovedHere(n)' <=> MovedHere(n) BY <1>3, <2>1 DEF MovedHere
  <2>5. AnyPatch' => AnyPatch BY <1>4 DEF AnyPatch
  <2>6. Agreed' BY <1>2, <1>6, <1>7, <1>8, <2>1, <2>4, <2>5 DEF DetailInv, Agreed
  <2> QED BY <1>5, <2>3, <2>6 DEF DetailInv
<1> QED BY <1>9, <1>10

-----------------------------------------------------------------------------
(* The parts of the row.                                                   *)

\* One request for a part replaced by another, or by none.
LEMMA EditPut ==
    ASSUME DetailTypeOK, NEW p \in Part, NEW e \in Row \cup {None, Sent, Failed},
           edits' = [edits EXCEPT ![p] = e]
    PROVE  /\ edits' \in [Part -> Row \cup {None, Sent, Failed}]
           /\ edits'[p] = e /\ \A q \in Part \ {p} : edits'[q] = edits[q]
BY DEF DetailTypeOK

\* A lead's page has one request for a part.
LEMMA LeadHasOnePart ==
    ASSUME DetailInv, kind = "lead", NEW p \in Part, edits[p] # None
    PROVE  \A q \in Part \ {p} : edits[q] = None
<1>1. PartsOf[kind] = {"role"} BY DEF PartsOf
<1> QED BY <1>1 DEF DetailInv, Pending0

\* A request for a part of the page that changes neither the row nor the copy: it is sent, or
\* fails, or its failure is taken.
LEMMA EditStands ==
    ASSUME DetailInv, NEW p \in Part, NEW e \in {None, Sent, Failed}, edits[p] \notin Row,
           edits' = [edits EXCEPT ![p] = e], e # None => p \in PartsOf[kind],
           UNCHANGED <<kind, row, copy, skeleton, get, patches, dialog, asked>>, upset' \in BOOLEAN,
           ~upset' => /\ ~upset /\ (e # None => get = None)
                      /\ kind = "lead" /\ e # None => ~AnyPatch
    PROVE  DetailInv'
<1> USE RowMarks
<1>1. /\ edits' \in [Part -> Row \cup {None, Sent, Failed}]
      /\ edits'[p] = e /\ \A q \in Part \ {p} : edits'[q] = edits[q]
  BY EditPut DEF DetailInv
<1>2. DetailTypeOK' BY <1>1 DEF DetailInv, DetailTypeOK
<1>3. Pending0' BY <1>1 DEF DetailInv, Pending0, MovedHere
<1>4. \A q \in Part : edits'[q] \in Row <=> edits[q] \in Row BY <1>1
<1>5. \A q \in Part : edits'[q] \in Row => edits'[q] = edits[q] BY <1>1
<1>6. AnyEdit' => e # None \/ AnyEdit BY <1>1 DEF AnyEdit
<1>7. /\ \A m \in Patches : PatchKnows(m)' <=> PatchKnows(m)
      /\ \A m \in Patches : MovedHere(m)' <=> MovedHere(m)
      /\ AtMostOnePatch' <=> AtMostOnePatch
      /\ AnyPatch' <=> AnyPatch
  BY DEF PatchKnows, BackendMachine, MovedHere, AtMostOnePatch, AnyPatch
<1>8. ASSUME ~upset' PROVE Agreed'
  <2>1. ~upset BY <1>8
  <2> QED BY <1>4, <1>5, <1>6, <1>7, <1>8, <2>1 DEF DetailInv, Agreed
<1> QED BY <1>2, <1>3, <1>8 DEF DetailInv, Agreed

LEMMA StepEdit == ASSUME DetailInv, NEW p \in Part, Edit(p) PROVE DetailInv'
<1>1. UNCHANGED <<kind, row, copy, skeleton, get, patches, dialog, asked>> /\ edits[p] = None
  BY DEF Edit
<1>2. get = None BY DEF Edit, Shown, DetailInv, Pending0
<1>3. edits' = [edits EXCEPT ![p] = Sent] /\ p \in PartsOf[kind] BY DEF Edit
<1>4. upset' = (upset \/ (kind = "lead" /\ AnyPatch)) BY DEF Edit
<1>5. upset' \in BOOLEAN BY <1>4 DEF DetailInv, DetailTypeOK
<1> QED BY <1>1, <1>2, <1>3, <1>4, <1>5, EditStands, RowMarks

LEMMA StepNotEdited == ASSUME DetailInv, NEW p \in Part, NotEdited(p) PROVE DetailInv'
<1>1. edits' = [edits EXCEPT ![p] = None] /\ edits[p] = Failed BY DEF NotEdited
<1>2. UNCHANGED <<kind, row, copy, skeleton, get, patches, dialog, asked, upset>> BY DEF NotEdited
<1>3. upset \in BOOLEAN BY DEF DetailInv, DetailTypeOK
<1> QED BY <1>1, <1>2, <1>3, EditStands, RowMarks

LEMMA StepServeEdit == ASSUME DetailInv, NEW p \in Part, ServeEdit(p) PROVE DetailInv'
<1> USE RowMarks
<1>1. /\ edits[p] = Sent /\ p \in PartsOf[kind] /\ kind \in Kinds0 /\ row \in Row /\ upset \in BOOLEAN
      /\ UNCHANGED <<kind, copy, skeleton, get, patches, dialog, asked>>
  BY DEF ServeEdit, DetailInv, DetailTypeOK, Pending0
<1>2. ~upset => get = None /\ (kind = "lead" => ~AnyPatch)
  BY <1>1 DEF DetailInv, Agreed, AnyEdit
<1>3. CASE edits' = [edits EXCEPT ![p] = Failed] /\ UNCHANGED <<row, upset>>
  BY <1>1, <1>2, <1>3, EditStands
<1>4. ASSUME row' = [row EXCEPT !.parts = @ \cup {p}],
             \/ edits' = [edits EXCEPT ![p] = Taken(row', {p})] /\ UNCHANGED upset
             \/ edits' = [edits EXCEPT ![p] = Failed] /\ upset' = TRUE
      PROVE  DetailInv'
  <2> DEFINE t == Taken(row', {p})
  <2>1. row' \in Row /\ row'.main = row.main /\ row'.parts = row.parts \cup {p}
    BY <1>1, <1>4 DEF Row
  <2>2. t \in Row /\ (kind = "lead" => t = row') BY <1>1, <2>1, TakenOK
  <2>3. PICK e \in {t, Failed} : edits' = [edits EXCEPT ![p] = e] /\ (e = t \/ upset')
    BY <1>4
  <2> HIDE DEF t
  <2>4. /\ edits' \in [Part -> Row \cup {None, Sent, Failed}]
        /\ edits'[p] = e /\ \A q \in Part \ {p} : edits'[q] = edits[q]
    BY <2>2, <2>3, EditPut DEF DetailInv
  <2>5. upset' \in BOOLEAN /\ (upset => upset') BY <1>1, <1>4
  <2>6. DetailTypeOK' BY <1>1, <2>1, <2>4, <2>5 DEF DetailInv, DetailTypeOK
  <2>7. Pending0' BY <1>1, <2>4 DEF DetailInv, Pending0, MovedHere
  <2>8. ASSUME ~upset' PROVE Agreed'
    <3>1. ~upset /\ e = t /\ get = None /\ (kind = "lead" => ~AnyPatch)
      BY <1>2, <2>3, <2>5, <2>8
    <3>2. \A q \in Part : edits'[q] \in Row <=> q = p \/ edits[q] \in Row BY <2>2, <2>4, <3>1
    <3>3. kind = "lead" => \A q \in Part : edits'[q] \in Row => edits'[q] = row'
      BY <1>1, <2>2, <2>4, <3>1, LeadHasOnePart
    <3>4. /\ \A m \in Patches : MovedHere(m)' <=> MovedHere(m)
          /\ AtMostOnePatch' <=> AtMostOnePatch
          /\ AnyPatch' <=> AnyPatch
      BY <1>1 DEF MovedHere, AtMostOnePatch, AnyPatch
    <3>5. \A m \in Patches : PatchKnows(m)'
      <4>1. BackendMachine' = BackendMachine BY <1>1 DEF BackendMachine
      <4>2. \A m \in Patches : PatchKnows(m) BY <3>1 DEF DetailInv, Agreed
      <4>3. kind = "lead" => \A m \in Patches : patches[m] = None BY <3>1 DEF AnyPatch
      <4> QED BY <1>1, <2>1, <4>1, <4>2, <4>3 DEF PatchKnows
    <3>6. ASSUME copy # None
          PROVE  /\ (\A m \in Patches : ~MovedHere(m)) => copy.main = row'.main
                 /\ \A q \in Part : q \in row'.parts <=> q \in copy.parts \/ edits'[q] \in Row
      BY <2>1, <3>1, <3>2, <3>6 DEF DetailInv, Agreed
    <3> QED BY <1>1, <3>1, <3>3, <3>4, <3>5, <3>6 DEF DetailInv, Agreed
  <2> QED BY <2>6, <2>7, <2>8 DEF DetailInv, Agreed
<1> QED BY <1>3, <1>4, Zenon DEF ServeEdit

LEMMA StepMerged == ASSUME DetailInv, NEW p \in Part, Merged(p) PROVE DetailInv'
<1> USE RowMarks
<1>1. edits[p] \in Row /\ UNCHANGED <<kind, row, skeleton, get, patches, dialog, asked, upset>>
  BY DEF Merged
<1>2. edits' = [edits EXCEPT ![p] = None] BY DEF Merged
<1>3. /\ edits' \in [Part -> Row \cup {None, Sent, Failed}]
      /\ edits'[p] = None /\ \A q \in Part \ {p} : edits'[q] = edits[q]
  BY <1>2, EditPut DEF DetailInv
<1>4. /\ kind = "lead" => copy' = edits[p]
      /\ kind # "lead" /\ copy = None => copy' = None
      /\ kind # "lead" /\ copy # None => copy' = [copy EXCEPT !.parts = @ \cup {p}]
  BY DEF Merged
<1>5. kind # "lead" /\ copy # None =>
         copy' \in Row /\ copy'.main = copy.main /\ copy'.parts = copy.parts \cup {p}
  BY <1>4 DEF DetailInv, DetailTypeOK, Row
<1>6. copy' \in Row \cup {None} BY <1>1, <1>4, <1>5
<1>7. DetailTypeOK' BY <1>1, <1>3, <1>6 DEF DetailInv, DetailTypeOK
<1>8. Pending0' BY <1>1, <1>3 DEF DetailInv, Pending0, MovedHere
<1>9. ASSUME ~upset PROVE Agreed'
  <2>1. AnyEdit BY <1>1 DEF AnyEdit
  <2>2. get = None /\ (kind = "lead" => ~AnyPatch) BY <1>9, <2>1 DEF DetailInv, Agreed
  <2>3. /\ \A m \in Patches : PatchKnows(m)' <=> PatchKnows(m)
        /\ \A m \in Patches : MovedHere(m)' <=> MovedHere(m)
        /\ AtMostOnePatch' <=> AtMostOnePatch
        /\ AnyPatch' <=> AnyPatch
    BY <1>1 DEF PatchKnows, BackendMachine, MovedHere, AtMostOnePatch, AnyPatch
  <2>4. \A q \in Part : edits'[q] \in Row => q # p /\ edits'[q] = edits[q] BY <1>3
  <2>5. ASSUME copy' # None
        PROVE  /\ (\A m \in Patches : ~MovedHere(m)) => copy'.main = row.main
               /\ \A q \in Part : q \in row.parts <=> q \in copy'.parts \/ edits'[q] \in Row
    <3>1. CASE kind = "lead"
      <4>1. copy' = row BY <1>1, <1>4, <1>9, <3>1 DEF DetailInv, Agreed
      <4>2. \A q \in Part : edits'[q] \notin Row BY <1>1, <2>4, <3>1, LeadHasOnePart
      <4> QED BY <4>1, <4>2
    <3>2. CASE kind # "lead"
      <4>1. copy # None BY <1>4, <2>5, <3>2
      <4>2. /\ (\A m \in Patches : ~MovedHere(m)) => copy.main = row.main
            /\ \A q \in Part : q \in row.parts <=> q \in copy.parts \/ edits[q] \in Row
        BY <1>9, <2>2, <4>1 DEF DetailInv, Agreed
      <4> QED BY <1>1, <1>3, <1>5, <3>2, <4>1, <4>2
    <3> QED BY <3>1, <3>2
  <2>6. kind = "lead" => \A q \in Part : edits'[q] \in Row => edits'[q] = row'
    BY <1>1, <1>9, <2>4 DEF DetailInv, Agreed
  <2> QED BY <1>1, <1>9, <2>2, <2>3, <2>5, <2>6 DEF DetailInv, Agreed
<1> QED BY <1>1, <1>7, <1>8, <1>9 DEF DetailInv, Agreed

LEMMA StepFetched == ASSUME DetailInv, NEW p \in Part, Fetched(p) PROVE DetailInv'
<1> USE RowMarks
<1>1. UNCHANGED <<kind, row, copy, asked>> /\ skeleton' = TRUE /\ dialog' = Closed
  BY DEF Fetched, FetchRow
<1>2. edits' = [edits EXCEPT ![p] = None] BY DEF Fetched
<1>3. /\ edits' \in [Part -> Row \cup {None, Sent, Failed}]
      /\ edits'[p] = None /\ \A q \in Part \ {p} : edits'[q] = edits[q]
  BY <1>2, EditPut DEF DetailInv
<1>4. get' = (IF get = None THEN Sent ELSE get) /\ get' # None BY DEF Fetched, FetchRow
<1>5. /\ patches' \in [Patches -> Patch \cup {None}]
      /\ \A m \in Patches : patches[m] = None <=> patches'[m] = None
      /\ \A m \in Patches : patches[m] # None => /\ patches'[m].answer = patches[m].answer
                                                 /\ patches'[m].updated = patches[m].updated
  <2>1. CASE kind = "lead" BY <2>1 DEF Fetched, Orphaned, DetailInv, DetailTypeOK
  <2>2. CASE kind # "lead"
    <3> DEFINE dead(m) == [patches[m] EXCEPT !.live = FALSE]
    <3>1. ASSUME NEW m \in Patches, patches[m] # None
          PROVE  /\ dead(m) \in Patch /\ dead(m).answer = patches[m].answer
                 /\ dead(m).updated = patches[m].updated
      <4>1. patches[m] \in Patch BY <3>1 DEF DetailInv, DetailTypeOK
      <4> QED BY <4>1 DEF Patch
    <3>2. patches' = [m \in Patches |-> IF patches[m] = None THEN None ELSE dead(m)]
      BY <2>2 DEF Fetched, Orphaned
    <3> HIDE DEF dead
    <3> QED BY <3>1, <3>2, DetailAssumption
  <2> QED BY <2>1, <2>2
<1>6. upset' = (get # None \/ AnyPatch \/ \E q \in Part \ {p} : edits[q] # None) BY DEF Fetched
<1>7. dialog' \in [open : BOOLEAN, target : States \cup {None}, allowed : {None} \cup SUBSET States]
  BY <1>1 DEF Closed
<1>8. get' \in Row \cup {None, Sent, Failed} /\ upset' \in BOOLEAN
  BY <1>4, <1>6 DEF DetailInv, DetailTypeOK
<1>9. DetailTypeOK' BY <1>1, <1>3, <1>5, <1>7, <1>8 DEF DetailInv, DetailTypeOK
<1>10. Pending0' BY <1>1, <1>3, <1>4, <1>5 DEF DetailInv, Pending0, MovedHere
<1>11. ASSUME ~upset' PROVE Agreed'
  <2>1. get' = Sent /\ ~AnyPatch /\ \A q \in Part : edits'[q] = None BY <1>3, <1>4, <1>6, <1>11
  <2>2. \A m \in Patches : patches'[m] = None BY <1>5, <2>1 DEF AnyPatch
  <2>3. ~AnyPatch' /\ ~AnyEdit' /\ AtMostOnePatch' /\ \A m \in Patches : PatchKnows(m)'
    BY <2>1, <2>2 DEF AnyPatch, AnyEdit, AtMostOnePatch, PatchKnows
  <2> QED BY <1>4, <2>1, <2>3 DEF Agreed
<1> QED BY <1>9, <1>10, <1>11 DEF DetailInv, Agreed

LEMMA StepDetail == ASSUME DetailInv, [DetailNext]_detailVars PROVE DetailInv'
<1>1. ASSUME SaveRole \/ ToggleMilestone \/ AddMilestone \/ AddContact \/ AddService \/ SaveProfile
      PROVE  DetailInv'
  <2>1. {"role", "done", "added", "contact", "service", "profile"} \subseteq Part
    BY DEF Part, PartsOf
  <2> QED BY <1>1, <2>1, StepEdit DEF SaveRole, ToggleMilestone, AddMilestone, AddContact,
                                      AddService, SaveProfile
<1>2. CASE UNCHANGED detailVars
  BY <1>2, DetailStands DEF detailVars, DetailInv, DetailTypeOK
<1> QED BY <1>1, <1>2, StepRow, StepDialog, StepAsk, StepServeMove, StepMoveAnswered,
           StepServeEdit, StepMerged, StepFetched, StepNotEdited DEF DetailNext

LEMMA InitDetail == DetailInit => DetailInv
<1> SUFFICES ASSUME DetailInit PROVE DetailInv OBVIOUS
<1> USE RowMarks
<1>1. row \in Row /\ row.main \in MainOf[kind] BY MainsOK DEF DetailInit, Row
<1>2. dialog \in [open : BOOLEAN, target : States \cup {None}, allowed : {None} \cup SUBSET States]
  BY DEF DetailInit, Closed
<1>3. asked \in 0..Attempts BY DetailAssumption DEF DetailInit
<1>4. DetailTypeOK BY <1>1, <1>2, <1>3 DEF DetailInit, DetailTypeOK
<1>5. Pending0 BY DEF DetailInit, Pending0, MovedHere
<1>6. Agreed BY DEF DetailInit, Agreed, AtMostOnePatch, AnyPatch, AnyEdit, PatchKnows
<1> QED BY <1>4, <1>5, <1>6 DEF DetailInv

LEMMA InvDetailAgrees == DetailInv => DetailAgrees
<1> SUFFICES ASSUME DetailInv, Shown, get = None, ~AnyPatch, ~AnyEdit, ~upset
             PROVE  DetailScreen = Facts(row)
  BY DEF DetailAgrees
<1>1. copy \in Row /\ row \in Row /\ ~skeleton BY DEF DetailInv, DetailTypeOK, Shown
<1>2. \A p \in Part : edits[p] \notin Row BY RowMarks DEF AnyEdit
<1>3. \A m \in Patches : ~MovedHere(m) BY DEF AnyPatch, MovedHere
<1>4. copy.main = row.main /\ \A p \in Part : p \in row.parts <=> p \in copy.parts
  BY <1>2, <1>3 DEF DetailInv, Agreed, Shown
<1>5. copy.parts = row.parts BY <1>1, <1>4 DEF Row
<1>6. DetailScreen = Facts(copy)
  BY <1>1, KindsOK DEF DetailScreen, LeadPage, ServicePage, ClientPage, Page, Shown, DetailInv, DetailTypeOK
<1> QED BY <1>4, <1>5, <1>6 DEF Facts

LEMMA InvRefusals == DetailInv => RefusalsExplained
<1> SUFFICES ASSUME DetailInv, NEW m \in Patches, Refused(m), ~upset,
                    patches[m].to \in PanelMachine[patches[m].from]
             PROVE  <<patches[m].from, patches[m].to>> \in Differ
  BY DEF RefusalsExplained
<1>1. PatchKnows(m) BY DEF DetailInv, Agreed
<1>2. patches[m].from \in MainOf[kind] /\ patches[m].to \notin BackendMachine[patches[m].from]
  BY <1>1 DEF PatchKnows, Refused
<1>3. kind \in Kinds0 BY DEF DetailInv, DetailTypeOK
<1> QED BY <1>2, <1>3, MachinesDiffer

LEMMA AlwaysDetailInv == DetailSpec => []DetailInv
<1>1. DetailInv /\ [DetailNext]_detailVars => DetailInv' BY StepDetail
<1> QED BY <1>1, InitDetail, PTL DEF DetailSpec

\* The state of the pages of one row is well formed.
THEOREM DetailTypeCorrect == DetailSpec => []DetailTypeOK
<1>1. DetailInv => DetailTypeOK BY DEF DetailInv
<1> QED BY <1>1, AlwaysDetailInv, PTL

\* A page at rest shows the row, whatever moves, milestones and fetches overlapped, for any number
\* of them: unless an answer was lost, or requests overlapped that the page does not merge.
THEOREM PageAgreesWithRow == DetailSpec => []DetailAgrees
BY AlwaysDetailInv, InvDetailAgrees, PTL

\* A move that the page's own map offers is refused only where that map is not the backend's.
THEOREM RefusalsAreExplained == DetailSpec => []RefusalsExplained
BY AlwaysDetailInv, InvRefusals, PTL
=============================================================================
