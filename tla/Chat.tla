---------------------------------- MODULE Chat ----------------------------------
(***************************************************************************)
(* The chat of the client portal, client/chat/page.tsx, over               *)
(* GET and POST /api/me/messages.  A message's created_at is the start of  *)
(* the transaction that inserts it, so messages are numbered in that       *)
(* order; they may be committed in another.  The page asks for what is     *)
(* newer than the newest message it knows.                                 *)
(***************************************************************************)
EXTENDS PanelTypes, Integers, SequencesExt

CONSTANTS MaxMessage,  \* as many messages are written
          PageLimit,   \* GET returns that many, the oldest first
          MaxPolls     \* as many polls may wait for one GET

VARIABLES begun,      \* the messages whose transactions have begun are 1..begun
          open,       \* those not committed and not rolled back
          committed,  \* those in the table
          loading,    \* isLoading
          messages,   \* the thread the page shows
          since,      \* sinceRef.current, 0 for undefined
          gets,       \* the GET in flight for each since: its answer, and who waits
          post,       \* the POST in flight: the number of its message, 0 before it has one
          mixed       \* history: see Disorder

chatVars == <<begun, open, committed, loading, messages, since, gets, post, mixed>>

Numbers == 1..MaxMessage
GetRequest  == [answer : {Sent, Failed, "ok"}, items : Seq(Numbers), initial : BOOLEAN, polls : 0..MaxPolls]
PostRequest == [id : 0..MaxMessage, answer : {Sent, Failed, "ok"}]
ASSUME ChatAssumption == /\ MaxMessage \in Nat /\ PageLimit \in Nat \ {0} /\ MaxPolls \in Nat \ {0}
                         /\ None \notin GetRequest \cup PostRequest /\ "ok" \notin {Sent, Failed}

NewGet(initial) == [answer |-> Sent, items |-> <<>>, initial |-> initial, polls |-> IF initial THEN 0 ELSE 1]

ChatInit == /\ begun = 0 /\ open = {} /\ committed = {}
            /\ loading = TRUE /\ messages = <<>> /\ since = 0
            /\ gets = [s \in 0..MaxMessage |->
                         IF s = 0 THEN NewGet(TRUE) ELSE None]
            /\ post = None
            /\ mixed = FALSE

UNCHANGEDpage  == UNCHANGED <<loading, messages, since>>
UNCHANGEDtable == UNCHANGED <<begun, open, committed>>

-----------------------------------------------------------------------------
(* The API.                                                                *)

Increasing(q) == \A i, j \in DOMAIN q : i < j => q[i] < q[j]
\* The lists of at most PageLimit messages of S, in the order of their times.
Lists(S) == {q \in UNION {[1..n -> S] : n \in 0..PageLimit} : Increasing(q)}

\* Mutant: the newest of the messages that match.
NewerNewest(s) == LET newer == {i \in committed : i > s}
                  IN  {q \in Lists(newer) : \A i \in newer \ ToSet(q) :
                                               Len(q) = PageLimit /\ \A j \in ToSet(q) : j > i}

\* list_messages, the one list there is: created_at > since, the oldest first, at most PageLimit.
Newer(s) == LET newer == {i \in committed : i > s}
            IN  {q \in Lists(newer) : \A i \in newer \ ToSet(q) :
                                         Len(q) = PageLimit /\ \A j \in ToSet(q) : j < i}

AnswerGet(s) == /\ gets[s] # None /\ gets[s].answer = Sent
                /\ \E q \in Newer(s) : gets' = [gets EXCEPT ![s].answer = "ok", ![s].items = q]
                /\ UNCHANGEDpage /\ UNCHANGEDtable /\ UNCHANGED <<post, mixed>>

FailGet(s) == /\ gets[s] # None /\ gets[s].answer = Sent
              /\ gets' = [gets EXCEPT ![s].answer = Failed]
              /\ UNCHANGEDpage /\ UNCHANGEDtable /\ UNCHANGED <<post, mixed>>

\* A member of the team starts a message, or the client's POST reaches the database.
Begin(own) == /\ begun < MaxMessage
              /\ begun' = begun + 1
              /\ open' = open \cup {begun + 1}
              /\ IF own THEN /\ post # None /\ post.answer = Sent /\ post.id = 0
                             /\ post' = [post EXCEPT !.id = begun + 1]
                        ELSE UNCHANGED post
              /\ UNCHANGEDpage /\ UNCHANGED <<committed, gets, mixed>>

Own(i) == post # None /\ post.id = i

\* The message is there for the next GET; the answer of the client's POST may be lost.
Commit(i) == /\ i \in open
             /\ open' = open \ {i}
             /\ committed' = committed \cup {i}
             /\ IF Own(i) THEN \E a \in {"ok", Failed} : post' = [post EXCEPT !.answer = a]
                          ELSE UNCHANGED post
             /\ mixed' = (mixed \/ \E j \in committed : j > i)
             /\ UNCHANGEDpage /\ UNCHANGED <<begun, gets>>

Rollback(i) == /\ i \in open
               /\ open' = open \ {i}
               /\ post' = IF Own(i) THEN [post EXCEPT !.answer = Failed] ELSE post
               /\ UNCHANGEDpage /\ UNCHANGED <<begun, committed, gets, mixed>>

LosePost == /\ post # None /\ post.answer = Sent /\ post.id = 0
          /\ post' = [post EXCEPT !.answer = Failed]
          /\ UNCHANGEDpage /\ UNCHANGEDtable /\ UNCHANGED <<gets, mixed>>

-----------------------------------------------------------------------------
(* The page.                                                               *)

\* What the message area shows.
ChatScreen == IF loading THEN "loading" ELSE IF messages = <<>> THEN "empty" ELSE "thread"

\* The timer: a GET for the same since that is still in flight answers this poll too.
Poll == /\ IF gets[since] = None
           THEN /\ gets' = [gets EXCEPT ![since] = NewGet(FALSE)]
                /\ UNCHANGED mixed
           ELSE /\ gets[since].polls < MaxPolls
                /\ gets' = [gets EXCEPT ![since].polls = @ + 1]
                /\ mixed' = TRUE
        /\ UNCHANGEDpage /\ UNCHANGEDtable /\ UNCHANGED post

\* n times the same items.
Times(items, n) == [k \in 1..n * Len(items) |-> items[((k - 1) % Len(items)) + 1]]

\* Mutant: a poll does not move the cursor.
GotKeepsSince(s) ==
    /\ gets[s] # None /\ gets[s].answer = "ok"
    /\ LET items == gets[s].items
           start == IF gets[s].initial /\ items # <<>> THEN <<>> ELSE messages
           times == gets[s].polls + IF gets[s].initial THEN 1 ELSE 0
       IN  /\ messages' = start \o Times(items, times)
           /\ since' = IF items = <<>> \/ ~gets[s].initial THEN since ELSE Last(items)
    /\ loading' = (loading /\ ~gets[s].initial)
    /\ gets' = [gets EXCEPT ![s] = None]
    /\ UNCHANGEDtable /\ UNCHANGED <<post, mixed>>

\* The initial load sets the thread; each poll that waited adds to it.
Got(s) ==
    /\ gets[s] # None /\ gets[s].answer = "ok"
    /\ LET items == gets[s].items
           start == IF gets[s].initial /\ items # <<>> THEN <<>> ELSE messages
           times == gets[s].polls + IF gets[s].initial THEN 1 ELSE 0
       IN  /\ messages' = start \o Times(items, times)
           /\ since' = IF items = <<>> THEN since ELSE Last(items)
    /\ loading' = (loading /\ ~gets[s].initial)
    /\ gets' = [gets EXCEPT ![s] = None]
    /\ UNCHANGEDtable /\ UNCHANGED <<post, mixed>>

NotGot(s) == /\ gets[s] # None /\ gets[s].answer = Failed
             /\ loading' = (loading /\ ~gets[s].initial)
             /\ gets' = [gets EXCEPT ![s] = None]
             /\ UNCHANGEDtable /\ UNCHANGED <<messages, since, post, mixed>>

\* The composer is disabled while a message is being sent.
Send == /\ post = None
        /\ post' = [id |-> 0, answer |-> Sent]
        /\ UNCHANGEDpage /\ UNCHANGEDtable /\ UNCHANGED <<gets, mixed>>

\* The sent message comes after ones the page has not fetched, or together with a GET.
Disorder(i) == \/ \E s \in DOMAIN gets : gets[s] # None
               \/ ToSet(messages) # {j \in committed : j < i}

SendDone == /\ post # None /\ post.answer = "ok"
            /\ messages' = Append(messages, post.id)
            /\ since' = post.id
            /\ post' = None
            /\ mixed' = (mixed \/ Disorder(post.id))
            /\ UNCHANGEDtable /\ UNCHANGED <<loading, gets>>

SendFailed == /\ post # None /\ post.answer = Failed
              /\ post' = None
              /\ UNCHANGEDpage /\ UNCHANGEDtable /\ UNCHANGED <<gets, mixed>>

Settle(i) == Commit(i) \/ Rollback(i)
Handle(s) == Got(s) \/ NotGot(s)
ChatNext == \/ \E s \in 0..MaxMessage : AnswerGet(s) \/ FailGet(s) \/ Handle(s)
            \/ \E own \in BOOLEAN : Begin(own)
            \/ \E i \in Numbers : Settle(i)
            \/ Poll \/ Send \/ LosePost \/ SendDone \/ SendFailed

\* The timer ticks and the page stays visible; not every GET fails.
ChatFairness == /\ WF_chatVars(Poll)
                /\ \A s \in 0..MaxMessage : SF_chatVars(AnswerGet(s)) /\ WF_chatVars(Handle(s))
ChatSpec == ChatInit /\ [][ChatNext]_chatVars /\ ChatFairness

-----------------------------------------------------------------------------
ChatTypeOK == /\ begun \in 0..MaxMessage /\ open \subseteq Numbers /\ committed \subseteq Numbers
              /\ loading \in BOOLEAN /\ since \in 0..MaxMessage /\ mixed \in BOOLEAN
              /\ messages \in Seq(Numbers)
              /\ gets \in [0..MaxMessage -> GetRequest \cup {None}]
              /\ post \in PostRequest \cup {None}

\* The page shows every message up to its cursor, once, in the order of their times
\* (client/chat/page.tsx:35-90): whatever is being sent, lost or fetched a page at a time,
\* until messages are committed out of order, a poll waits for a GET that is still in flight,
\* or a sent message overtakes ones that were not fetched.
ThreadExact == ~mixed => Increasing(messages) /\ ToSet(messages) = {i \in committed : i <= since}

\* The page catches up with what is committed again and again (client/chat/page.tsx:59-69), with
\* the same provisos; the messages are finitely many, so none of them is left out for good.
Unseen == committed \ (IF ChatScreen = "thread" THEN ToSet(messages) ELSE {})
CatchesUp == []<>(mixed \/ Unseen = {})
=============================================================================
