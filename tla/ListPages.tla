------------------------------- MODULE ListPages -------------------------------
(***************************************************************************)
(* The pages that list rows under a filter and create one in a dialog:     *)
(* leads, clients and the portal's support page. Changing the filter while *)
(* a GET is in flight starts another; the dialog's onSuccess is the fetch  *)
(* of the moment the form was submitted, with the filter it had then.      *)
(***************************************************************************)
EXTENDS PanelTypes, Integers

CONSTANTS ListPage,    \* the pages
          Filters,     \* what the filters, the search and the paging can ask for
          NoFilter,    \* the filter of a new page
          MaxMade      \* the user creates as many rows

VARIABLES listPage,   \* the page that is open
          filter,     \* what the page's filter state asks for
          typed,      \* clients: a search that the 300 ms debounce holds back, or None
          pending,    \* isLoading
          fault,      \* the last answer was a failure; on clients, the error on the page
          items,      \* the rows on the page: of which filter, with how many created rows
          fetches,    \* the GET in flight for each filter; live: somebody still waits for it
          made,       \* the rows created in the database
          told,       \* of these, those the user was told of
          isOpen,     \* the dialog is open
          isSaving,   \* its submit button is disabled
          posts,      \* its POSTs in flight, with the filter of their onSuccess
          crossed     \* history: the last fetch overlapped another or was not of the filter

listVars == <<listPage, filter, typed, pending, fault, items, fetches, made, told, isOpen, isSaving,
              posts, crossed>>

PostSlots == 1..2
Rows    == [of : Filters, made : 0..MaxMade]
Fetching == [answer : {Sent, Failed} \cup 0..MaxMade, live : BOOLEAN]
Posting == [answer : {Sent, Failed} \cup 1..MaxMade, then : Filters]
ASSUME ListAssumption == /\ ListPage \subseteq {"leads", "clients", "support"}
                         /\ NoFilter \in Filters /\ MaxMade \in Nat
                         /\ None \notin Rows \cup Fetching \cup Posting
                         /\ {Sent, Failed} \cap (0..MaxMade) = {}

ListInit == /\ listPage \in ListPage
            /\ filter = NoFilter /\ typed = None
            /\ pending = TRUE /\ fault = FALSE /\ items = None
            /\ fetches = [f \in Filters |-> IF f = NoFilter THEN [answer |-> Sent, live |-> TRUE] ELSE None]
            /\ made = 0 /\ told = 0
            /\ isOpen = FALSE /\ isSaving = FALSE
            /\ posts = [p \in PostSlots |-> None]
            /\ crossed = FALSE

InFlight(f) == fetches[f] # None /\ fetches[f].live

\* The page fetches f; a GET for f that is in flight, of this page or the last, is shared.
Fetches(f, old) == [old EXCEPT ![f] = IF @ = None THEN [answer |-> Sent, live |-> TRUE]
                                                   ELSE [@ EXCEPT !.live = TRUE]]
FetchFor(f) == /\ pending' = TRUE
               /\ fault' = (fault /\ listPage # "clients")
               /\ fetches' = Fetches(f, fetches)
               /\ crossed' = (fetches[f] # None \/ (\E g \in Filters : InFlight(g)) \/ f # filter')

-----------------------------------------------------------------------------
(* The rows.                                                               *)

SetFilterTo(f) == /\ f # filter
                  /\ ~isOpen
                  /\ filter' = f
                  /\ FetchFor(f)
                  /\ UNCHANGED <<listPage, typed, items, made, told, isOpen, isSaving, posts>>

TypeSearch(f) == /\ listPage = "clients" /\ ~isOpen
                 /\ typed' = f
                 /\ UNCHANGED <<listPage, filter, pending, fault, items, fetches, made, told, isOpen,
                                isSaving, posts, crossed>>

\* The timer of the last key; nothing is fetched when the search is what it was.
Debounced == /\ typed # None
             /\ typed' = None
             /\ filter' = typed
             /\ IF typed = filter THEN UNCHANGED <<pending, fault, fetches, crossed>> ELSE FetchFor(typed)
             /\ UNCHANGED <<listPage, items, made, told, isOpen, isSaving, posts>>

AnswerFetch(f) == /\ fetches[f] # None /\ fetches[f].answer = Sent
                  /\ \E a \in {made, Failed} : fetches' = [fetches EXCEPT ![f].answer = a]
                  /\ UNCHANGED <<listPage, filter, typed, pending, fault, items, made, told, isOpen,
                                 isSaving, posts, crossed>>

\* The answer sets the rows, whatever the filter is by now; a failure leaves the old ones.
TakeRows(f) ==
    /\ fetches[f] # None /\ fetches[f].answer # Sent
    /\ fetches' = [fetches EXCEPT ![f] = None]
    /\ IF fetches[f].live
       THEN /\ pending' = FALSE
            /\ fault' = (fetches[f].answer = Failed)
            /\ items' = IF fetches[f].answer = Failed THEN items
                        ELSE [of |-> f, made |-> fetches[f].answer]
       ELSE UNCHANGED <<pending, fault, items>>
    /\ UNCHANGED <<listPage, filter, typed, made, told, isOpen, isSaving, posts, crossed>>

\* What the pages show: only clients has a place for an error.
LeadsScreen   == IF pending THEN "loading" ELSE "rows"
ClientsScreen == IF pending THEN "loading" ELSE IF fault THEN "error" ELSE "rows"
SupportScreen == IF pending THEN "loading" ELSE "rows"
ListScreen    == CASE listPage = "leads"   -> LeadsScreen
                   [] listPage = "clients" -> ClientsScreen
                   [] listPage = "support" -> SupportScreen

-----------------------------------------------------------------------------
(* The dialog: NewLeadDialog, NewClientDialog, NewTicketDialog.            *)

OpenDialog == /\ ~isOpen /\ isOpen' = TRUE
              /\ UNCHANGED <<listPage, filter, typed, pending, fault, items, fetches, made, told,
                             isSaving, posts, crossed>>

\* Mutant: closing the dialog resets all of it.
CloseDialogResets == /\ isOpen /\ isOpen' = FALSE
                     /\ isSaving' = FALSE
                     /\ UNCHANGED <<listPage, filter, typed, pending, fault, items, fetches, made, told,
                                    posts, crossed>>

\* Escape closes it while it is saving, too: the request goes on and stays the dialog's.
CloseDialog == /\ isOpen /\ isOpen' = FALSE
               /\ UNCHANGED <<listPage, filter, typed, pending, fault, items, fetches, made, told,
                              isSaving, posts, crossed>>

Submit(p) == /\ isOpen /\ ~isSaving
             /\ posts[p] = None
             /\ isSaving' = TRUE
             /\ posts' = [posts EXCEPT ![p] = [answer |-> Sent, then |-> filter]]
             /\ UNCHANGED <<listPage, filter, typed, pending, fault, items, fetches, made, told, isOpen,
                            crossed>>

\* Mutant: the row is in the answer, and its transaction is rolled back after that.
ServeCreateUncommitted(p) ==
    /\ posts[p] # None /\ posts[p].answer = Sent
    /\ made < MaxMade
    /\ posts' = [posts EXCEPT ![p].answer = made + 1]
    /\ UNCHANGED <<listPage, filter, typed, pending, fault, items, fetches, made, told, isOpen,
                   isSaving, crossed>>

\* The row is inserted, and the answer may be lost; or it is not.
ServeCreate(p) == /\ posts[p] # None /\ posts[p].answer = Sent
                  /\ \/ /\ made < MaxMade /\ made' = made + 1
                        /\ \E a \in {made + 1, Failed} : posts' = [posts EXCEPT ![p].answer = a]
                     \/ posts' = [posts EXCEPT ![p].answer = Failed] /\ UNCHANGED made
                  /\ UNCHANGED <<listPage, filter, typed, pending, fault, items, fetches, told, isOpen,
                                 isSaving, crossed>>

Created(p) == /\ posts[p] # None /\ posts[p].answer \notin {Sent, Failed}
              /\ told' = posts[p].answer
              /\ isOpen' = FALSE /\ isSaving' = FALSE
              /\ posts' = [posts EXCEPT ![p] = None]
              /\ UNCHANGED <<listPage, made>>

\* Mutant: the dialog closes and the page does not fetch.
CreatedSilently(p) == /\ listPage # "clients" /\ Created(p)
                      /\ UNCHANGED <<filter, typed, pending, fault, items, fetches, crossed>>

\* onSuccess fetches with the filter of the submission.
CreatedHere(p) == /\ listPage # "clients" /\ Created(p)
                  /\ UNCHANGED filter
                  /\ FetchFor(posts[p].then)
                  /\ UNCHANGED <<typed, items>>

\* NewClientDialog goes on to the new client; the list is a new page on the way back.
CreatedAndGone(p) ==
    /\ listPage = "clients" /\ Created(p)
    /\ filter' = NoFilter /\ typed' = None
    /\ pending' = TRUE /\ fault' = FALSE /\ items' = None
    /\ LET orphans == [f \in Filters |-> IF fetches[f] = None THEN None
                                         ELSE [fetches[f] EXCEPT !.live = FALSE]]
           onSuccess == [Fetches(posts[p].then, orphans) EXCEPT ![posts[p].then].live = FALSE]
       IN  fetches' = Fetches(NoFilter, onSuccess)
    /\ crossed' = (fetches[NoFilter] # None)

NotCreated(p) == /\ posts[p] # None /\ posts[p].answer = Failed
                 /\ isSaving' = FALSE
                 /\ posts' = [posts EXCEPT ![p] = None]
                 /\ UNCHANGED <<listPage, filter, typed, pending, fault, items, fetches, made, told,
                                isOpen, crossed>>

ListNext == \/ \E f \in Filters : SetFilterTo(f) \/ TypeSearch(f) \/ AnswerFetch(f) \/ TakeRows(f)
            \/ Debounced \/ OpenDialog \/ CloseDialog
            \/ \E p \in PostSlots : \/ Submit(p) \/ ServeCreate(p)
                                    \/ CreatedHere(p) \/ CreatedAndGone(p) \/ NotCreated(p)

ListSpec == ListInit /\ [][ListNext]_listVars

-----------------------------------------------------------------------------
ListTypeOK == /\ listPage \in ListPage /\ filter \in Filters /\ typed \in Filters \cup {None}
              /\ pending \in BOOLEAN /\ fault \in BOOLEAN /\ items \in Rows \cup {None}
              /\ fetches \in [Filters -> Fetching \cup {None}]
              /\ made \in 0..MaxMade /\ told \in 0..made
              /\ isOpen \in BOOLEAN /\ isSaving \in BOOLEAN
              /\ posts \in [PostSlots -> Posting \cup {None}]
              /\ crossed \in BOOLEAN

\* When nothing is in flight, the rows answer the filter on the page and contain every row the
\* user was told has been created (leads/page.tsx:102-130, clients/page.tsx:80-124,
\* client/support/page.tsx:182-202): whenever the last fetch had no other to overlap with and
\* was of the page's filter, and did not fail on a page that has no place for the error.
FilterAnswered == /\ ListScreen = "rows"
                  /\ \A f \in Filters : ~InFlight(f)
                  /\ ~crossed
                  /\ fault => listPage = "clients"
                  => items # None /\ items.of = filter /\ items.made >= told

\* However often the dialog is closed, opened again and reloaded around, one press of its
\* button is one request: a second waits for the answer to the first (new-lead-dialog.tsx:57-101,
\* new-client-dialog.tsx:56-98, client/support/page.tsx:75-92).
OneSubmission == \A p, q \in PostSlots : posts[p] # None /\ posts[q] # None => p = q
=============================================================================
